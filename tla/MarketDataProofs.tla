--------------------------- MODULE MarketDataProofs ---------------------------
(***************************************************************************)
(* Theorems about the two writers of the candle table, for all bounds and  *)
(* all sets of sockets, instruments, prices and sessions: the ticker has   *)
(* one way to stream, and keeps what works; the feed drops no tick it      *)
(* took; the ingestor keeps what it was not given within reach; a call     *)
(* that is to be sent again left no order at the exchange;                 *)
(* a fetch of history brings its whole range in order, within the rate.    *)
(***************************************************************************)
EXTENDS MarketData, BrokerSession, KiteHistorical,
        FiniteSetTheorems, WellFoundedInduction, TLAPS

-----------------------------------------------------------------------------
(* The ticker.  OneStream is inductive together with the types.            *)

TickerInv == TickerTypeOK /\ OneStream

LEMMA TickerStarts == TickerInit => TickerInv
<1> SUFFICES ASSUME TickerInit PROVE TickerInv
  OBVIOUS
<1>1. trouble \in 0..MaxTrouble
  BY TroubleAssumption DEF TickerInit
<1>2. sockets \in [Sockets -> Socket]
  BY DEF TickerInit, Socket, SocketStates, Up, Unused
<1>3. TickerTypeOK
  BY <1>1, <1>2 DEF TickerInit, TickerTypeOK
<1>4. OneConnection
  BY DEF TickerInit, OneConnection, Unused, Up
<1>5. OneWayBack /\ Subscribed /\ Watched
  BY DEF TickerInit, OneWayBack, Subscribed, Watched
<1>6. QED BY <1>3, <1>4, <1>5 DEF TickerInv, OneStream

\* One more trouble is within the bound.
LEMMA TroubleCounts == ASSUME trouble \in 0..MaxTrouble, Trouble PROVE trouble' \in 0..MaxTrouble
BY TroubleAssumption DEF Trouble

\* What is known of a socket that is heard: it is the current one.
LEMMA HeardIsCurrent ==
  ASSUME TickerInv, NEW s \in Sockets,
         sockets[s].heard \/ sockets[s].state \in Up
  PROVE  socket = s /\ socket # NoSocket /\ running /\ ~retry
BY SocketsAssumption DEF TickerInv, TickerTypeOK, OneStream, OneWayBack, OneConnection

LEMMA OpenKeeps ==
  ASSUME TickerInv, socket = NoSocket, running', Open,
         UNCHANGED <<connected, watchdog, tokens, loggedIn, trouble>>
  PROVE  TickerInv'
<1> USE SocketsAssumption DEF TickerInv, TickerTypeOK, OneStream
<1>1. ~connected /\ ~watchdog
  BY DEF Subscribed, OneWayBack
<1>2. CASE ~loggedIn
  BY <1>1, <1>2 DEF Open, OneWayBack, OneConnection, Subscribed, Watched
<1>3. CASE loggedIn
  <2>1. PICK s \in Sockets : /\ sockets[s] = Unused /\ socket' = s
                             /\ sockets' = [sockets EXCEPT ![s] = Opening] /\ retry' = FALSE
    BY <1>3 DEF Open
  <2>2. TickerTypeOK'
    BY <2>1 DEF Opening, Socket, SocketStates, Up
  <2>3. OneConnection'
    BY <2>1 DEF OneConnection
  <2>4. OneWayBack' /\ Subscribed' /\ Watched'
    BY <1>1, <2>1 DEF OneWayBack, Subscribed, Watched
  <2>5. QED BY <2>2, <2>3, <2>4
<1>4. QED BY <1>2, <1>3

\* Letting go of the current socket leaves no other that is heard or alive.
LEMMA LetGoOfAll ==
  ASSUME TickerInv
  PROVE  /\ LetGo \in [Sockets -> Socket] /\ Closing \in [Sockets -> Socket]
         /\ \A s \in Sockets : /\ ~LetGo[s].heard /\ LetGo[s].state \notin Up
                               /\ ~Closing[s].heard /\ Closing[s].state \notin Up
<1> USE SocketsAssumption DEF TickerInv, TickerTypeOK
<1>1. CASE socket = NoSocket
  BY <1>1 DEF LetGo, Closing, OneStream, OneConnection
<1>2. CASE socket \in Sockets
  BY <1>2 DEF LetGo, Closing, Dropped, Closed, OneStream, OneConnection, Socket, SocketStates, Up
<1>3. QED BY <1>1, <1>2

LEMMA DisconnectKeeps ==
  ASSUME TickerInv, socket # NoSocket, OnDisconnect
  PROVE  TickerInv'
<1> USE SocketsAssumption DEF TickerInv, TickerTypeOK
<1>1. running /\ ~retry
  BY DEF OneStream, OneWayBack
<1>2. /\ socket' = NoSocket /\ sockets' = LetGo /\ watchdog' = FALSE
      /\ connected' = FALSE /\ retry' = TRUE /\ UNCHANGED <<running, tokens, loggedIn, trouble>>
  BY <1>1 DEF OnDisconnect, Rescheduled
<1>3. TickerTypeOK'
  BY <1>2, LetGoOfAll
<1>4. OneConnection'
  BY <1>2, LetGoOfAll DEF OneConnection
<1>5. OneWayBack' /\ Subscribed' /\ Watched'
  BY <1>1, <1>2 DEF OneWayBack, Subscribed, Watched
<1>6. QED BY <1>3, <1>4, <1>5 DEF OneStream

LEMMA StopKeeps ==
  ASSUME TickerInv, StopTicker
  PROVE  TickerInv'
<1> USE SocketsAssumption DEF TickerInv, TickerTypeOK, StopTicker
<1>1. TickerTypeOK' /\ OneConnection'
  BY LetGoOfAll DEF OneConnection
<1>2. OneWayBack' /\ Subscribed' /\ Watched'
  BY DEF OneWayBack, Subscribed, Watched
<1>3. QED BY <1>1, <1>2 DEF OneStream

LEMMA TickerKeeps == TickerInv /\ [TickerNext]_tickerVars => TickerInv'
<1> USE SocketsAssumption
<1> SUFFICES ASSUME TickerInv, [TickerNext]_tickerVars PROVE TickerInv'
  OBVIOUS
<1> DEFINE Parts == OneWayBack /\ OneConnection /\ Subscribed /\ Watched
<1>1. CASE StartTicker
  <2>1. CASE running
    BY <1>1, <2>1 DEF StartTicker, TickerInv, TickerTypeOK, OneStream, OneWayBack, OneConnection,
                      Subscribed, Watched
  <2>2. CASE ~running
    <3>1. socket = NoSocket
      BY <2>2 DEF TickerInv, OneStream, OneWayBack
    <3>2. QED BY <1>1, <2>2, <3>1, OpenKeeps DEF StartTicker
  <2>3. QED BY <2>1, <2>2
<1>2. CASE StopTicker
  BY <1>2, StopKeeps
<1>3. CASE RetryFires
  <2>1. running /\ socket = NoSocket
    BY <1>3 DEF RetryFires, TickerInv, TickerTypeOK, OneStream, OneWayBack
  <2>2. QED BY <1>3, <2>1, OpenKeeps DEF RetryFires
<1>4. CASE WatchdogFires
  BY <1>4, DisconnectKeeps DEF WatchdogFires
<1>5. CASE LogIn
  BY <1>5 DEF LogIn, TickerInv, TickerTypeOK, OneStream, OneWayBack, OneConnection, Subscribed, Watched
<1>6. CASE LogOut
  <2>1. TickerTypeOK'
    BY <1>6, TroubleCounts DEF LogOut, TickerInv, TickerTypeOK
  <2>2. OneStream'
    BY <1>6 DEF LogOut, TickerInv, OneStream, OneWayBack, OneConnection, Subscribed, Watched
  <2>3. QED BY <2>1, <2>2 DEF TickerInv
<1>7. ASSUME NEW s \in Sockets, SocketOpens(s) PROVE TickerInv'
  <2>1. socket = s /\ socket # NoSocket /\ running /\ ~retry
    BY <1>7, HeardIsCurrent DEF SocketOpens
  <2>2. TickerTypeOK'
    BY <1>7 DEF SocketOpens, Resubscribed, TickerInv, TickerTypeOK, Socket, SocketStates, Up
  <2>3. OneConnection'
    BY <1>7, <2>1 DEF SocketOpens, TickerInv, TickerTypeOK, OneStream, OneConnection
  <2>4. OneWayBack' /\ Subscribed' /\ Watched'
    BY <1>7, <2>1 DEF SocketOpens, Resubscribed, TickerInv, TickerTypeOK, OneStream, OneWayBack,
                      Subscribed, Watched
  <2>5. QED BY <2>2, <2>3, <2>4 DEF TickerInv, OneStream
<1>8. ASSUME NEW s \in Sockets, SocketEnds(s) PROVE TickerInv'
  BY <1>8, HeardIsCurrent, DisconnectKeeps DEF SocketEnds
<1>9. ASSUME NEW s \in Sockets, Fails(s) \/ Hangs(s) \/ FallsSilent(s) PROVE TickerInv'
  <2>1. socket = s /\ socket # NoSocket
    BY <1>9, HeardIsCurrent DEF Fails, Hangs, FallsSilent, Up
  <2>2. /\ UNCHANGED <<running, socket, retry, connected, watchdog, tokens, loggedIn>>
        /\ Trouble /\ \E state \in {"failed", "hung", "silent"} :
                         sockets' = [sockets EXCEPT ![s].state = state]
    BY <1>9 DEF Fails, Hangs, FallsSilent
  <2>3. sockets' \in [Sockets -> Socket]
    BY <2>2 DEF TickerInv, TickerTypeOK, Socket, SocketStates, Up
  <2>4. TickerTypeOK'
    BY <2>2, <2>3, TroubleCounts DEF TickerInv, TickerTypeOK
  <2>5. OneConnection'
    BY <2>1, <2>2 DEF TickerInv, TickerTypeOK, OneStream, OneConnection
  <2>6. Subscribed'
    BY <2>1, <2>2 DEF TickerInv, TickerTypeOK, OneStream, Subscribed
  <2>7. OneWayBack' /\ Watched'
    BY <2>2 DEF TickerInv, OneStream, OneWayBack, Watched
  <2>8. QED BY <2>4, <2>5, <2>6, <2>7 DEF TickerInv, OneStream
<1>10. ASSUME NEW s \in Sockets, Gone(s) PROVE TickerInv'
  <2>1. TickerTypeOK'
    BY <1>10 DEF Gone, Unused, TickerInv, TickerTypeOK, Socket, SocketStates, Up
  <2>2. OneStream'
    BY <1>10 DEF Gone, Unused, Up, TickerInv, TickerTypeOK, OneStream, OneWayBack, OneConnection,
                 Subscribed, Watched
  <2>3. QED BY <2>1, <2>2 DEF TickerInv
<1>11. ASSUME NEW i \in Instruments, Subscribe(i) PROVE TickerInv'
  <2>1. TickerTypeOK'
    BY <1>11 DEF Subscribe, TickerInv, TickerTypeOK, Socket
  <2>2. OneConnection' /\ OneWayBack' /\ Watched'
    BY <1>11 DEF Subscribe, TickerInv, TickerTypeOK, OneStream, OneConnection, OneWayBack, Watched
  <2>3. Subscribed'
    BY <1>11 DEF Subscribe, TickerInv, TickerTypeOK, OneStream, Subscribed, Socket
  <2>4. QED BY <2>1, <2>2, <2>3 DEF TickerInv, OneStream
<1>12. CASE UNCHANGED tickerVars
  BY <1>12 DEF tickerVars, TickerInv, TickerTypeOK, OneStream, OneWayBack, OneConnection,
               Subscribed, Watched
<1>13. QED
  BY <1>1, <1>2, <1>3, <1>4, <1>5, <1>6, <1>7, <1>8, <1>9, <1>10, <1>11, <1>12
     DEF TickerNext, TickerStep

\* Every step of the composition is a step of the ticker, or leaves it alone.
LEMMA TickerInside == [Next]_dataVars => [TickerNext]_tickerVars
<1> SUFFICES ASSUME [Next]_dataVars, ~UNCHANGED tickerVars PROVE TickerNext
  OBVIOUS
<1>1. Next
  BY DEF dataVars
<1>2. ~Elapse /\ ~Ingest
  BY DEF Elapse, Ingest
<1>3. CASE Die
  BY <1>3 DEF Die, Crash, TickerNext
<1>4. CASE FeedStep
  <2>1. ~(\E t \in Times, p \in Prices : Tick(t, p)) /\ ~FlushTimer /\ ~FlushLands /\ ~FlushFails
    BY DEF Tick, FlushTimer, FlushLands, FlushFails
  <2>2. QED BY <1>4, <2>1 DEF FeedStep, Start, Stop, TickerNext
<1>5. QED BY <1>1, <1>2, <1>3, <1>4 DEF Next

LEMMA TickerAlways == Spec => []TickerInv
<1>1. Init => TickerInv
  BY TickerStarts DEF Init
<1>2. TickerInv /\ [Next]_dataVars => TickerInv'
  BY TickerKeeps, TickerInside
<1>3. QED BY <1>1, <1>2, PTL DEF Spec

\* A running ticker has one way to stream, watched and fully subscribed; a
\* stopped one has none.
THEOREM StreamsOnce == Spec => []OneStream
<1>1. TickerInv => OneStream
  BY DEF TickerInv
<1>2. QED BY <1>1, TickerAlways, PTL

\* Nothing but stop() takes down a connection that delivers: late events of
\* earlier sockets do not.
THEOREM WorkingIsKept == Spec => KeepsWhatWorks
<1> DEFINE Stays == Delivering /\ running' => socket' = socket /\ connected'
<1>1. ASSUME TickerInv, [TickerNext]_tickerVars PROVE [Stays]_tickerVars
  <2> SUFFICES ASSUME TickerNext, Delivering, running' PROVE socket' = socket /\ connected'
    BY <1>1
  <2> USE <1>1
  <2>1. running /\ ~retry /\ connected /\ socket \in Sockets /\ sockets[socket].state = "open"
    BY DEF Delivering, TickerInv, TickerTypeOK, OneStream, OneWayBack
  <2>2. ~StopTicker /\ ~RetryFires /\ ~WatchdogFires
    BY <2>1 DEF StopTicker, RetryFires, WatchdogFires
  <2>3. ASSUME NEW s \in Sockets, SocketEnds(s) PROVE FALSE
    BY <2>1, <2>3, HeardIsCurrent DEF SocketEnds
  <2>4. ASSUME NEW s \in Sockets, SocketOpens(s) PROVE FALSE
    BY <2>1, <2>4, HeardIsCurrent DEF SocketOpens
  <2>5. CASE StartTicker \/ LogIn \/ LogOut \/ \E i \in Instruments : Subscribe(i)
    BY <2>1, <2>5 DEF StartTicker, LogIn, LogOut, Subscribe
  <2>6. CASE \E s \in Sockets : Fails(s) \/ Hangs(s) \/ FallsSilent(s) \/ Gone(s)
    BY <2>1, <2>6 DEF Fails, Hangs, FallsSilent, Gone
  <2>7. QED BY <2>2, <2>3, <2>4, <2>5, <2>6 DEF TickerNext, TickerStep
<1>2. TickerInv /\ [Next]_dataVars => [Stays]_tickerVars
  BY <1>1, TickerInside
<1>3. QED BY <1>2, TickerAlways, PTL DEF Spec, KeepsWhatWorks

-----------------------------------------------------------------------------
(* The feed.  A tick that is owed is in the open bar, in the batch of the  *)
(* flush in flight, or in a bar that waits: the three places are kept      *)
(* apart, since every step moves bars from one of them to the next.        *)

SomeBar     == [at : Int, ticks : SUBSET Times]
TicksIn(s)  == UNION {s[i].ticks : i \in DOMAIN s}
AsBars(bar) == IF bar = NoBar THEN <<>> ELSE <<bar>>

FeedShape == open \in SomeBar /\ batch \in Seq(SomeBar) /\ pending \in Seq(SomeBar)
Kept      == owed \subseteq open.ticks \cup TicksIn(batch) \cup TicksIn(pending)
FeedInv   == FeedShape /\ Kept

LEMMA EmptyTicks == TicksIn(<<>>) = {}
BY DEF TicksIn

LEMMA TicksOfBoth ==
  ASSUME NEW s \in Seq(SomeBar), NEW t \in Seq(SomeBar)
  PROVE  s \o t \in Seq(SomeBar) /\ TicksIn(s \o t) = TicksIn(s) \cup TicksIn(t)
<1>1. s \o t \in Seq(SomeBar)
  OBVIOUS
<1>2. ASSUME NEW x \in TicksIn(s \o t) PROVE x \in TicksIn(s) \cup TicksIn(t)
  <2>1. PICK i \in 1..Len(s) + Len(t) : x \in (s \o t)[i].ticks
    BY <1>2 DEF TicksIn
  <2>2. CASE i <= Len(s)
    <3>1. (s \o t)[i] = s[i] /\ i \in DOMAIN s
      BY <2>2
    <3>2. QED BY <2>1, <3>1 DEF TicksIn
  <2>3. CASE i > Len(s)
    <3>1. (s \o t)[i] = t[i - Len(s)] /\ i - Len(s) \in DOMAIN t
      BY <2>3
    <3>2. QED BY <2>1, <3>1 DEF TicksIn
  <2>4. QED BY <2>2, <2>3
<1>3. ASSUME NEW x \in TicksIn(s) PROVE x \in TicksIn(s \o t)
  <2>1. PICK i \in DOMAIN s : x \in s[i].ticks
    BY <1>3 DEF TicksIn
  <2>2. (s \o t)[i] = s[i] /\ i \in DOMAIN (s \o t)
    OBVIOUS
  <2>3. QED BY <2>1, <2>2 DEF TicksIn
<1>4. ASSUME NEW x \in TicksIn(t) PROVE x \in TicksIn(s \o t)
  <2>1. PICK i \in DOMAIN t : x \in t[i].ticks
    BY <1>4 DEF TicksIn
  <2>2. (s \o t)[Len(s) + i] = t[i] /\ Len(s) + i \in DOMAIN (s \o t)
    OBVIOUS
  <2>3. QED BY <2>1, <2>2 DEF TicksIn
<1>5. QED BY <1>1, <1>2, <1>3, <1>4

LEMMA TicksOfOpen ==
  ASSUME NEW bar \in SomeBar
  PROVE  AsBars(bar) \in Seq(SomeBar) /\ TicksIn(AsBars(bar)) = bar.ticks
<1>1. CASE bar = NoBar
  BY <1>1, EmptyTicks DEF AsBars, NoBar
<1>2. CASE bar # NoBar
  <2>1. AsBars(bar) = <<bar>>
    BY <1>2 DEF AsBars
  <2>2. QED BY <2>1 DEF TicksIn
<1>3. QED BY <1>1, <1>2

\* Closing the open bar, and starting a flush unless one is in flight.
LEMMA TakenKeeps ==
  ASSUME FeedInv, NEW bars \in Seq(SomeBar), Taken(bars)
  PROVE  /\ batch' \in Seq(SomeBar) /\ pending' \in Seq(SomeBar)
         /\ TicksIn(batch') \cup TicksIn(pending') = TicksIn(batch) \cup TicksIn(bars)
<1>1. CASE batch # <<>>
  BY <1>1 DEF Taken, FeedInv, FeedShape
<1>2. CASE batch = <<>>
  BY <1>2, EmptyTicks DEF Taken, FeedInv, FeedShape
<1>3. QED BY <1>1, <1>2

LEMMA CloseKeeps ==
  ASSUME FeedInv, open' = NoBar, Taken(pending \o Completed), owed' = owed
  PROVE  FeedInv'
<1>1. Completed \in Seq(SomeBar) /\ TicksIn(Completed) = open.ticks
  BY TicksOfOpen DEF FeedInv, FeedShape, AsBars, Completed
<1>2. /\ pending \o Completed \in Seq(SomeBar)
      /\ TicksIn(pending \o Completed) = TicksIn(pending) \cup open.ticks
  BY <1>1, TicksOfBoth DEF FeedInv, FeedShape
<1>3. FeedShape'
  <2>1. NoBar \in SomeBar
    BY DEF NoBar, SomeBar
  <2>2. QED BY <1>2, <2>1, TakenKeeps DEF FeedShape
<1>4. TicksIn(batch') \cup TicksIn(pending') = TicksIn(batch) \cup TicksIn(pending) \cup open.ticks
  BY <1>2, TakenKeeps
<1>5. Kept'
  BY <1>4 DEF FeedInv, Kept
<1>6. QED BY <1>3, <1>5 DEF FeedInv

LEMMA TickKeeps ==
  ASSUME FeedInv, NEW t \in Times, NEW p \in Prices, Tick(t, p)
  PROVE  FeedInv'
<1>1. batch' = batch
  BY DEF Tick
<1>2. CASE t < last
  BY <1>2 DEF Tick, FeedInv, FeedShape, Kept
<1>3. CASE ~(t < last) /\ InBar(t)
  <2>1. open' = Joined(t) /\ pending' = pending /\ owed' = owed \cup {t}
    BY <1>3 DEF Tick
  <2>2. open' \in SomeBar /\ open'.ticks = open.ticks \cup {t}
    BY <2>1 DEF Joined, FeedInv, FeedShape, SomeBar
  <2>3. QED BY <1>1, <2>1, <2>2 DEF FeedInv, FeedShape, Kept
<1>4. CASE ~(t < last) /\ ~InBar(t)
  <2>1. open' = Opened(t) /\ pending' = pending \o Completed /\ owed' = owed \cup {t}
    BY <1>4 DEF Tick
  <2>2. BarOf(t) \in Int
    BY ClockAssumption DEF BarOf, Times
  <2>3. open' \in SomeBar /\ open'.ticks = {t}
    BY <2>1, <2>2 DEF Opened, SomeBar
  <2>4. Completed \in Seq(SomeBar) /\ TicksIn(Completed) = open.ticks
    BY TicksOfOpen DEF FeedInv, FeedShape, AsBars, Completed
  <2>5. pending' \in Seq(SomeBar) /\ TicksIn(pending') = TicksIn(pending) \cup open.ticks
    BY <2>1, <2>4, TicksOfBoth DEF FeedInv, FeedShape
  <2>6. QED BY <1>1, <2>1, <2>3, <2>5 DEF FeedInv, FeedShape, Kept
<1>5. QED BY <1>2, <1>3, <1>4

LEMMA FeedStarts == FeedInit => FeedInv
BY EmptyTicks DEF FeedInit, FeedInv, FeedShape, Kept, NoBar, SomeBar

LEMMA FeedKeeps == FeedInv /\ [Next]_dataVars => FeedInv'
<1> SUFFICES ASSUME FeedInv, [Next]_dataVars PROVE FeedInv'
  OBVIOUS
<1>1. CASE UNCHANGED <<open, batch, pending, owed>>
  BY <1>1 DEF FeedInv, FeedShape, Kept
<1>2. CASE Die
  BY <1>2, EmptyTicks DEF Die, Crash, Fresh, FeedInv, FeedShape, Kept, NoBar, SomeBar
<1>3. ASSUME NEW t \in Times, NEW p \in Prices, Tick(t, p) PROVE FeedInv'
  BY <1>3, TickKeeps
<1>4. CASE FlushTimer
  <2>1. CASE ~MarketOpen(now) /\ inSession
    BY <1>4, <2>1, CloseKeeps DEF FlushTimer
  <2>2. CASE ~(~MarketOpen(now) /\ inSession)
    <3>1. open' = open /\ owed' = owed /\ Taken(pending)
      BY <1>4, <2>2 DEF FlushTimer
    <3>2. QED BY <3>1, TakenKeeps DEF FeedInv, FeedShape, Kept
  <2>3. QED BY <2>1, <2>2
<1>5. CASE FlushLands
  <2>1. owed' = owed \ TicksIn(batch) /\ batch' = <<>> /\ UNCHANGED <<open, pending>>
    BY <1>5 DEF FlushLands, TicksIn
  <2>2. QED BY <2>1, EmptyTicks DEF FeedInv, FeedShape, Kept
<1>6. CASE FlushFails
  <2>1. pending' = batch \o pending /\ batch' = <<>> /\ UNCHANGED <<open, owed>>
    BY <1>6 DEF FlushFails, PutBack
  <2>2. /\ pending' \in Seq(SomeBar)
        /\ TicksIn(pending') = TicksIn(batch) \cup TicksIn(pending)
    BY <2>1, TicksOfBoth DEF FeedInv, FeedShape
  <2>3. QED BY <2>1, <2>2, EmptyTicks DEF FeedInv, FeedShape, Kept
<1>7. CASE Stop
  BY <1>7, CloseKeeps DEF Stop
<1>8. QED
  <2>1. CASE Elapse \/ Ingest \/ UNCHANGED dataVars
    BY <1>1, <2>1 DEF Elapse, Ingest, dataVars, feedVars, memory
  <2>2. CASE Start \/ (TickerStep /\ UNCHANGED <<feedVars, now, candles>>)
    BY <1>1, <2>2 DEF Start, feedVars, memory
  <2>3. QED BY <1>2, <1>3, <1>4, <1>5, <1>6, <1>7, <2>1, <2>2 DEF Next, FeedStep

LEMMA KeptMeansNotDropped == FeedInv => NothingDropped
<1> SUFFICES ASSUME FeedInv PROVE NothingDropped
  OBVIOUS
<1>1. Completed \in Seq(SomeBar) /\ TicksIn(Completed) = open.ticks
  BY TicksOfOpen DEF FeedInv, FeedShape, AsBars, Completed
<1>2. Waiting \in Seq(SomeBar) /\ TicksIn(Waiting) = TicksIn(batch) \cup TicksIn(pending)
  BY TicksOfBoth DEF FeedInv, FeedShape, Waiting
<1>3. TicksIn(InMemory) = open.ticks \cup TicksIn(batch) \cup TicksIn(pending)
  BY <1>1, <1>2, TicksOfBoth DEF InMemory
<1>4. QED BY <1>3 DEF FeedInv, Kept, NothingDropped, TicksIn

\* While the process lives, a tick that was taken is in the open bar or in a
\* bar that waits, until the bar is written: whatever the flush does, and
\* however stop(), the timers and a failing database interleave.
THEOREM TicksSurvive == Spec => []NothingDropped
<1>1. Init => FeedInv
  BY FeedStarts DEF Init
<1>2. QED BY <1>1, FeedKeeps, KeptMeansNotDropped, PTL DEF Spec

-----------------------------------------------------------------------------
(* The ingestor.  What it was not given is not before the watermark: the   *)
(* watermark is the last bar of an answer, and the bars of the range that  *)
(* the answer lacks, or has in a form that is not final, are later ones.   *)

LessThan == {ss \in Nat \X Nat : ss[1] < ss[2]}

LEMMA NaturalOrder == IsWellFoundedOn(LessThan, Nat)
BY NatLessThanWellFounded DEF OpToRel, LessThan

\* Numbers that do not go on for ever have a last one.
LEMMA LastExists ==
  ASSUME NEW n \in Nat, NEW S \in SUBSET (0..n), S # {}
  PROVE  \E b \in S : \A c \in S : c <= b
<1> DEFINE T == {n - b : b \in S}
<1>1. T \subseteq Nat
  OBVIOUS
<1>2. T # {}
  <2>1. PICK b \in S : TRUE
    OBVIOUS
  <2>2. n - b \in T
    OBVIOUS
  <2>3. QED BY <2>2
<1>3. PICK x \in T : \A y \in T : <<y, x>> \notin LessThan
  <2> HIDE DEF T
  <2> QED BY <1>1, <1>2, NaturalOrder, WFMin
<1>4. \A y \in T : x <= y
  <2> TAKE y \in T
  <2>1. x \in Nat /\ y \in Nat
    BY <1>1
  <2>2. ~(y < x)
    BY <1>3, <2>1 DEF LessThan
  <2>3. QED BY <2>1, <2>2
<1>5. PICK b \in S : x = n - b
  OBVIOUS
<1>6. \A c \in S : n - b <= n - c
  BY <1>4, <1>5
<1>7. QED BY <1>5, <1>6

LEMMA TradedAreBars == Traded \subseteq Nat
<1>1. ASSUME NEW t \in Nat PROVE BarOf(t) \in Nat
  BY ClockAssumption DEF BarOf
<1>2. QED BY <1>1, ClockAssumption DEF Traded

\* When bars begin: in order, PerBar apart.
LEMMA Apart ==
  ASSUME NEW b \in Nat, NEW c \in Nat
  PROVE  /\ Begins(b) \in Nat /\ b <= Begins(b)
         /\ b <= c => Begins(b) <= Begins(c)
         /\ b < c  => Begins(b) + PerBar <= Begins(c)
<1> USE ClockAssumption
<1>1. Begins(b) \in Nat /\ b <= Begins(b)
  BY DEF Begins
<1>2. ASSUME b < c PROVE Begins(b) + PerBar <= Begins(c)
  <2>1. PICK k \in Nat : c = b + 1 + k
    <3>1. c - b - 1 \in Nat /\ c = b + 1 + (c - b - 1)
      BY <1>2
    <3>2. QED BY <3>1
  <2>2. PerBar * c = PerBar * b + PerBar + PerBar * k /\ PerBar * k \in Nat
    BY <2>1
  <2>3. PerBar * b \in Nat
    OBVIOUS
  <2>4. QED BY <2>2, <2>3 DEF Begins
<1>3. ASSUME b <= c PROVE Begins(b) <= Begins(c)
  <2>1. CASE b = c
    BY <1>1, <2>1
  <2>2. CASE b < c
    BY <1>1, <1>2, <2>2 DEF Begins
  <2>3. QED BY <1>3, <2>1, <2>2
<1>4. QED BY <1>1, <1>2, <1>3

\* An answer: the bars of a range, told apart by whether they were final.
AnswerInReach ==
  /\ Accepted \subseteq 0..pass.to
  /\ \A b \in Traded \ Answered : Begins(b) >= pass.from
                                 => \A c \in Accepted : Begins(b) >= Begins(c)

PassInv ==
  /\ pass.to \in Nat /\ pass.from \in Int
  /\ ~At("idle") => pass.to <= now
  /\ At("fetch") \/ At("store") \/ At("mark") => pass.from = From(watermark, pass.to)
  /\ At("store") \/ At("mark") => AnswerInReach
  /\ At("mark") => Accepted # {}

MarkInv ==
  /\ now \in Nat /\ watermark \in Int /\ first \in Int
  /\ first # NoMark =>
       /\ watermark # NoMark
       /\ \A b \in Traded \ offered : Begins(b) >= first => Begins(b) >= watermark

PassShape == pass \in [step : Steps, to : Int, from : Int, settled : SUBSET Int,
                        forming : SUBSET Int, bad : SUBSET Int]

IngestInv == PassShape /\ PassInv /\ MarkInv

LEMMA IngestStarts == TableInit /\ IngestInit => IngestInv
BY DEF TableInit, IngestInit, IngestInv, PassShape, PassInv, MarkInv, Idle, Steps, At, NoMark

\* A pass that ends, or has not begun, says nothing yet.
LEMMA IdlePass ==
  ASSUME MarkInv', pass' = Idle PROVE IngestInv'
BY DEF IngestInv, PassShape, PassInv, Idle, Steps, At

LEMMA FetchedKeeps ==
  ASSUME IngestInv, Fetched PROVE IngestInv'
<1> USE DEF IngestInv
<1>1. PICK bad \in SUBSET Published :
        pass' = [pass EXCEPT !.step = "store", !.bad = {b \in bad : Over(b)},
                             !.settled = {b \in Published \ bad : Over(b)},
                             !.forming = {b \in Published \ bad : ~Over(b)}]
  BY DEF Fetched
<1>2. UNCHANGED <<watermark, first, offered, now>> /\ At("fetch")
  BY DEF Fetched
<1>3. /\ pass'.step = "store" /\ pass'.to = pass.to /\ pass'.from = pass.from
      /\ pass'.settled \cup pass'.forming = Published \ bad
      /\ pass'.settled \cup pass'.bad = {b \in Published : Over(b)}
  BY <1>1 DEF PassShape
<1>4. Published \subseteq Nat /\ \A b \in Published : b \in 0..pass.to
  <2>1. ASSUME NEW b \in Published PROVE b \in 0..pass.to
    <3>1. b \in Nat /\ Begins(b) <= pass.to
      BY TradedAreBars DEF Published
    <3>2. b <= Begins(b) /\ Begins(b) \in Nat /\ pass.to \in Nat
      BY <3>1, Apart DEF PassInv
    <3>3. QED BY <3>1, <3>2
  <2>2. QED BY <2>1
<1>5. AnswerInReach'
  <2>1. Accepted' \subseteq 0..pass'.to
    BY <1>3, <1>4 DEF Accepted
  <2>2. ASSUME NEW b \in Traded, b \notin Answered', Begins(b) >= pass'.from, NEW c \in Accepted'
        PROVE  Begins(b) >= Begins(c)
    <3>1. b \in Nat /\ c \in Nat /\ c \in Published /\ Begins(c) <= pass.to
      BY <1>3, <1>4, <2>2, TradedAreBars DEF Accepted, Published
    <3>2. Begins(b) \in Nat /\ Begins(c) \in Nat /\ pass.to \in Nat /\ now \in Nat /\ pass.to <= now
      BY <1>2, <3>1, Apart DEF PassInv, MarkInv, At
    <3>3. CASE Begins(b) > pass.to
      BY <3>1, <3>2, <3>3
    <3>4. CASE ~(Begins(b) > pass.to)
      <4>1. b \in Published
        BY <1>3, <2>2, <3>2, <3>4 DEF Published
      <4>2. ~Over(b)
        BY <1>3, <2>2, <4>1 DEF Answered
      <4>3. Begins(b) + PerBar > now
        BY <3>2, <4>2, ClockAssumption DEF Over
      <4>4. ~(b < c)
        <5> SUFFICES ASSUME b < c PROVE FALSE
          OBVIOUS
        <5>1. Begins(b) + PerBar <= Begins(c)
          BY <3>1, Apart
        <5>2. QED BY <3>1, <3>2, <4>3, <5>1, ClockAssumption
      <4>5. c <= b
        BY <3>1, <4>4
      <4>6. QED BY <3>1, <4>5, <3>2, Apart
    <3>5. QED BY <3>3, <3>4
  <2>3. Traded' = Traded /\ \A b : Begins(b)' = Begins(b)
    BY DEF Traded, Begins, BarOf
  <2>4. QED BY <2>1, <2>2, <2>3 DEF AnswerInReach
<1>6. PassShape'
  <2>1. Published \subseteq Int
    BY <1>4
  <2>2. QED BY <1>1, <2>1 DEF PassShape, Steps
<1>7. PassInv'
  BY <1>2, <1>3, <1>5 DEF PassInv, From, At
<1>8. MarkInv'
  BY <1>2 DEF MarkInv
<1>9. QED BY <1>6, <1>7, <1>8

LEMMA StoreKeeps ==
  ASSUME IngestInv, StoreBars PROVE IngestInv'
<1>1. UNCHANGED <<watermark, first, now>> /\ At("store") /\ offered \subseteq offered'
  BY DEF StoreBars
<1>2. MarkInv'
  BY <1>1 DEF IngestInv, MarkInv
<1>3. CASE Accepted = {}
  BY <1>2, <1>3, IdlePass DEF StoreBars
<1>4. CASE Accepted # {}
  <2>1. pass' = [pass EXCEPT !.step = "mark"]
    BY <1>4 DEF StoreBars
  <2>2. pass'.step = "mark" /\ Accepted' = Accepted /\ Answered' = Answered
        /\ pass'.to = pass.to /\ pass'.from = pass.from
    BY <2>1 DEF Accepted, Answered, IngestInv, PassShape
  <2>3. AnswerInReach'
    <3>1. AnswerInReach
      BY <1>1 DEF IngestInv, PassInv
    <3>2. Traded' = Traded /\ \A b : Begins(b)' = Begins(b)
      BY DEF Traded, Begins, BarOf
    <3>3. QED BY <2>2, <3>1, <3>2 DEF AnswerInReach, Begins
  <2>4. PassShape'
    BY <2>1 DEF IngestInv, PassShape, Steps
  <2>5. PassInv'
    BY <1>1, <1>4, <2>2, <2>3 DEF IngestInv, PassInv, At, From
  <2>6. QED BY <1>2, <2>4, <2>5 DEF IngestInv
<1>5. QED BY <1>3, <1>4

\* The new watermark is not past anything that is still missing: what the
\* range lacks is later, and what is before the range was not missing.
LEMMA MarkKeeps ==
  ASSUME IngestInv, WriteWatermark PROVE IngestInv'
<1> DEFINE top == LastOf(Accepted)
<1>1. /\ At("mark") /\ watermark' = Begins(top) /\ pass' = Idle /\ now' = now
      /\ offered' = offered \cup Answered
      /\ first' = IF first = NoMark THEN pass.from ELSE first
  BY DEF WriteWatermark, NextMark
<1>2. /\ AnswerInReach /\ Accepted # {} /\ pass.to \in Nat /\ pass.from \in Int
      /\ pass.from = From(watermark, pass.to)
  BY <1>1 DEF IngestInv, PassInv
<1>3. top \in Accepted /\ \A c \in Accepted : c <= top
  <2>1. \E b \in Accepted : \A c \in Accepted : c <= b
    BY <1>2, LastExists DEF AnswerInReach
  <2>2. QED BY <2>1 DEF LastOf
<1>4. top \in Nat /\ Begins(top) \in Nat
  <2>1. top \in 0..pass.to
    BY <1>2, <1>3 DEF AnswerInReach
  <2>2. QED BY <2>1, Apart
<1>5. ASSUME NEW b \in Traded \ offered', Begins(b) >= pass.from PROVE Begins(b) >= Begins(top)
  BY <1>1, <1>2, <1>3, <1>5 DEF AnswerInReach
<1>6. ASSUME NEW b \in Traded \ offered', first # NoMark, Begins(b) >= first
      PROVE  Begins(b) >= Begins(top)
  <2>1. watermark # NoMark /\ Begins(b) >= watermark /\ watermark \in Int
    BY <1>1, <1>6 DEF IngestInv, MarkInv
  <2>2. pass.from <= watermark
    BY <1>2, <2>1, IngestionAssumption DEF From, Earlier
  <2>3. b \in Nat /\ Begins(b) \in Nat
    BY TradedAreBars, Apart
  <2>4. Begins(b) >= pass.from
    BY <1>2, <2>1, <2>2, <2>3
  <2>5. QED BY <1>5, <2>4
<1>7. \A b \in Traded \ offered' : Begins(b) >= first' => Begins(b) >= watermark'
  BY <1>1, <1>5, <1>6
<1>8. MarkInv'
  <2>1. now' \in Nat /\ watermark' \in Int /\ first' \in Int /\ watermark' # NoMark
    BY <1>1, <1>2, <1>4 DEF IngestInv, MarkInv, NoMark
  <2>2. QED BY <1>7, <2>1 DEF MarkInv, Traded, Begins, BarOf
<1>9. QED BY <1>1, <1>8, IdlePass

LEMMA IngestKeeps == IngestInv /\ [Next]_dataVars => IngestInv'
<1> SUFFICES ASSUME IngestInv, [Next]_dataVars PROVE IngestInv'
  OBVIOUS
<1> USE DEF IngestInv
<1>1. CASE UNCHANGED <<ingestVars, now>>
  BY <1>1 DEF ingestVars, PassShape, PassInv, MarkInv, AnswerInReach, Accepted, Answered, At, From
<1>2. CASE Elapse
  <2>1. now' = now + 1 /\ UNCHANGED ingestVars
    BY <1>2 DEF Elapse
  <2>2. pass' = pass /\ UNCHANGED <<watermark, first, offered>>
    BY <2>1 DEF ingestVars
  <2>3. PassShape' /\ MarkInv'
    BY <2>1, <2>2 DEF PassShape, MarkInv, Traded, Begins
  <2>4. AnswerInReach' <=> AnswerInReach
    BY <2>2 DEF AnswerInReach, Accepted, Answered, Traded, Begins
  <2>5. PassInv'
    BY <2>1, <2>2, <2>4 DEF PassInv, MarkInv, At, Accepted
  <2>6. QED BY <2>3, <2>5
<1>3. CASE Pump
  <2>1. /\ pass' = [Idle EXCEPT !.step = "read", !.to = now]
        /\ UNCHANGED <<watermark, first, offered, now>>
    BY <1>3 DEF Pump
  <2>2. MarkInv'
    BY <2>1 DEF MarkInv
  <2>3. pass' = [step |-> "read", to |-> now, from |-> 0, settled |-> {}, forming |-> {}, bad |-> {}]
        /\ now \in Nat /\ now' = now
    BY <2>1 DEF Idle, MarkInv
  <2>4. PassShape'
    BY <2>3 DEF PassShape, Steps
  <2>5. pass'.step = "read" /\ pass'.to = now /\ pass'.from = 0 /\ now' = now
    BY <2>3
  <2>6. PassInv'
    BY <2>3, <2>5 DEF PassInv, At
  <2>7. QED BY <2>2, <2>4, <2>6
<1>4. CASE ReadWatermark
  <2>1. /\ pass' = [pass EXCEPT !.step = "fetch", !.from = From(watermark, pass.to)]
        /\ At("read") /\ UNCHANGED <<watermark, first, offered, now>>
    BY <1>4 DEF ReadWatermark
  <2>2. MarkInv'
    BY <2>1 DEF MarkInv
  <2>3. From(watermark, pass.to) \in Int
    BY IngestionAssumption DEF From, Earlier, PassInv, MarkInv
  <2>4. PassShape'
    BY <2>1, <2>3 DEF PassShape, Steps
  <2>5. pass'.step = "fetch" /\ pass'.to = pass.to /\ pass'.from = From(watermark, pass.to)
    BY <2>1 DEF PassShape
  <2>6. PassInv'
    BY <2>1, <2>3, <2>5 DEF PassInv, At, From
  <2>7. QED BY <2>2, <2>4, <2>6
<1>5. CASE Fetched
  BY <1>5, FetchedKeeps
<1>6. CASE StoreBars
  BY <1>6, StoreKeeps
<1>7. CASE WriteWatermark
  BY <1>7, MarkKeeps
<1>8. CASE SyncFails \/ Die
  <2>1. pass' = Idle /\ UNCHANGED <<watermark, first, offered, now>>
    BY <1>8 DEF SyncFails, Die, Crash
  <2>2. MarkInv'
    BY <2>1 DEF MarkInv
  <2>3. QED BY <2>1, <2>2, IdlePass
<1>9. QED
  <2>1. CASE FeedStep /\ UNCHANGED ingestVars
    <3>1. now' = now
      BY <2>1 DEF FeedStep, Tick, FlushTimer, FlushLands, FlushFails, Start, Stop
    <3>2. QED BY <1>1, <2>1, <3>1
  <2>2. CASE UNCHANGED dataVars
    BY <1>1, <2>2 DEF dataVars
  <2>3. CASE Ingest
    BY <1>3, <1>4, <1>5, <1>6, <1>7, <1>8, <2>3 DEF Ingest, IngestStep
  <2>4. QED BY <1>2, <1>8, <2>1, <2>2, <2>3 DEF Next

LEMMA MarkMeansReach == IngestInv => RepairReaches
<1> SUFFICES ASSUME IngestInv, first # NoMark, NEW b \in Traded \ offered, Begins(b) >= first
             PROVE  Begins(b) >= From(watermark, now)
  BY DEF RepairReaches
<1>1. watermark # NoMark /\ watermark \in Int /\ now \in Nat /\ Begins(b) >= watermark
  BY DEF IngestInv, MarkInv
<1>2. From(watermark, now) <= watermark /\ From(watermark, now) \in Int
  BY <1>1, IngestionAssumption DEF From, Earlier
<1>3. b \in Nat /\ Begins(b) \in Nat
  BY TradedAreBars, Apart
<1>4. QED BY <1>1, <1>2, <1>3

\* However long the outage and whatever fails: the next pass asks for every
\* bar, since the first watermark, that the ingestor was not yet given.
THEOREM MissedIsAskedFor == Spec => []RepairReaches
<1>1. Init => IngestInv
  BY IngestStarts DEF Init
<1>2. QED BY <1>1, IngestKeeps, MarkMeansReach, PTL DEF Spec

-----------------------------------------------------------------------------
(* The broker session.  What a call says is told only once it is over, and *)
(* an order that is placed was sent with a POST.                           *)

CallShape == [step : {"idle", "sent", "done"}, method : Methods, token : Tokens \cup {"none"},
              placed : BOOLEAN, result : Results]
CallHolds(k) == /\ k.step # "done" => k.result = "none"
                /\ k.placed => k.method = "POST"
                /\ k.result = "retry" => ~k.placed
CallInv    == call \in [Callers -> CallShape] /\ \A c \in Callers : CallHolds(call[c])
SessionInv == SessionTypeOK /\ \A c \in Callers : CallHolds(call[c])

\* A call is over, or goes on, as one that holds; so do all.
LEMMA CallChanges ==
  ASSUME CallInv, NEW c \in Callers, NEW k \in CallShape, CallHolds(k),
         call' = [call EXCEPT ![c] = k]
  PROVE  CallInv'
BY DEF CallInv

LEMMA QuietHolds == Quiet \in CallShape /\ CallHolds(Quiet)
BY DEF Quiet, CallShape, Methods, Results, CallHolds

\* An answer from Kite that is not "ok" leaves no order behind; trouble may, and
\* is then never classed as one to send again.
LEMMA ClassHolds ==
  ASSUME NEW k \in CallShape, k.step = "sent", CallHolds(k),
         NEW a, a \in Answers(k) \/ a \in Troubles
  PROVE  /\ ClassedAs(k.method, a) \in Results
         /\ ClassedAs(k.method, a) = "retry" => ~k.placed
<1>1. k.method \in {"GET", "POST"} /\ k.placed \in BOOLEAN /\ (k.placed => k.method = "POST")
  BY DEF CallShape, Methods, CallHolds
<1>2. CASE a \in Troubles
  BY <1>1, <1>2 DEF ClassedAs, Classed, Troubles, Thrown, Results
<1>3. CASE a \in Answers(k) /\ k.method = "GET"
  BY <1>1, <1>3 DEF Answers, ClassedAs, Classed, Thrown, Results, Troubles
<1>4. CASE a \in Answers(k) /\ k.method = "POST" /\ k.placed
  <2>1. a = "ok"
    BY <1>4 DEF Answers
  <2>2. QED BY <1>4, <2>1 DEF ClassedAs, Classed, Results, Troubles
<1>5. CASE a \in Answers(k) /\ k.method = "POST" /\ ~k.placed
  <2>1. k.method # "GET" /\ ~(k.method = "POST" /\ k.placed)
    BY <1>5
  <2>2. a \in {"refused", "limited", "token"}
    BY <1>5, <2>1 DEF Answers
  <2>3. QED BY <1>5, <2>2 DEF ClassedAs, Classed, Results, Troubles
<1>6. QED BY <1>1, <1>2, <1>3, <1>4, <1>5

LEMMA CallStep == SessionInv /\ [SessionNext]_sessionVars => CallInv'
<1> SUFFICES ASSUME SessionInv, [SessionNext]_sessionVars PROVE CallInv'
  OBVIOUS
<1>0. CallInv
  BY DEF SessionInv, SessionTypeOK, CallInv, CallShape
<1>1. ASSUME NEW c \in Callers
      PROVE  call[c] \in CallShape /\ CallHolds(call[c])
  BY <1>0 DEF CallInv
<1>2. ASSUME UNCHANGED call PROVE CallInv'
  BY <1>0, <1>2 DEF CallInv
<1>3. ASSUME LosesMemory PROVE CallInv'
  BY <1>3, QuietHolds DEF LosesMemory, CallInv
<1>4. CASE Boot
  BY <1>2, <1>4 DEF Boot
<1>5. CASE SessionDies
  BY <1>3, <1>5 DEF SessionDies
<1>6. CASE Passes
  BY <1>2, <1>6 DEF Passes
<1>7. ASSUME NEW t \in Tokens, Login(t) PROVE CallInv'
  BY <1>2, <1>7 DEF Login
<1>8. ASSUME NEW w \in writes, WriteLands(w) \/ WriteFails(w) PROVE CallInv'
  BY <1>2, <1>3, <1>8 DEF WriteLands, WriteFails, OnWriteFailure
<1>9. ASSUME NEW c \in Callers, Answer(c) PROVE CallInv'
  <2>1. PICK a : (a \in Answers(call[c]) \/ a \in Troubles) /\ CallAnswered(c, a)
    BY <1>9 DEF Answer
  <2> DEFINE r == ClassedAs(call[c].method, a)
             k == [call[c] EXCEPT !.step = "done", !.result = r]
  <2>2. call[c].step = "sent"
    BY <1>9 DEF Answer
  <2>3. r \in Results /\ (r = "retry" => ~call[c].placed)
    BY <1>1, <2>1, <2>2, ClassHolds
  <2>4. call' = [call EXCEPT ![c] = k]
    BY <2>1 DEF CallAnswered
  <2> HIDE DEF r
  <2>5. k \in CallShape /\ CallHolds(k)
    BY <1>1, <2>3 DEF CallShape, CallHolds
  <2> HIDE DEF k
  <2>6. QED BY <2>4, <2>5, <1>0, CallChanges
<1>10. ASSUME NEW c \in Callers, Arrives(c) PROVE CallInv'
  <2> DEFINE k == [call[c] EXCEPT !.placed = TRUE]
  <2>1. call[c].step = "sent" /\ call[c].method = "POST" /\ call' = [call EXCEPT ![c] = k]
    BY <1>10 DEF Arrives
  <2>2. k \in CallShape /\ CallHolds(k)
    BY <1>1, <2>1 DEF CallShape, CallHolds
  <2> HIDE DEF k
  <2>3. QED BY <2>1, <2>2, <1>0, CallChanges
<1>11. ASSUME NEW c \in Callers, Return(c) PROVE CallInv'
  BY <1>11, QuietHolds, <1>0, CallChanges DEF Return
<1>12. ASSUME NEW c \in Callers, NEW m \in Methods, Send(c, m) PROVE CallInv'
  <2> DEFINE thrown == [Quiet EXCEPT !.step = "done", !.method = m, !.result = Thrown(m)]
             sent   == [Quiet EXCEPT !.step = "sent", !.method = m, !.token = CurrentToken]
  <2>1. CASE CurrentToken = "none"
    <3>1. call' = [call EXCEPT ![c] = thrown]
      BY <1>12, <2>1 DEF Send
    <3>2. thrown \in CallShape /\ CallHolds(thrown)
      BY DEF Quiet, CallShape, CallHolds, Methods, Results, Thrown
    <3> HIDE DEF thrown
    <3>3. QED BY <3>1, <3>2, <1>0, CallChanges
  <2>2. CASE CurrentToken # "none"
    <3>1. call' = [call EXCEPT ![c] = sent]
      BY <1>12, <2>2 DEF Send
    <3>2. CurrentToken \in Tokens
      BY <2>2 DEF CurrentToken, Unexpired, SessionInv, SessionTypeOK, Held
    <3>3. sent \in CallShape /\ CallHolds(sent)
      BY <3>2 DEF Quiet, CallShape, CallHolds, Methods, Results
    <3> HIDE DEF sent
    <3>4. QED BY <3>1, <3>3, <1>0, CallChanges
  <2>3. QED BY <2>1, <2>2
<1>13. CASE UNCHANGED sessionVars
  BY <1>2, <1>13 DEF sessionVars
<1>14. QED
  BY <1>4, <1>5, <1>6, <1>7, <1>8, <1>9, <1>10, <1>11, <1>12, <1>13 DEF SessionNext

LEMMA SessionTypes == SessionInv /\ [SessionNext]_sessionVars => SessionTypeOK'
<1> SUFFICES ASSUME SessionInv, [SessionNext]_sessionVars PROVE SessionTypeOK'
  OBVIOUS
<1> DEFINE Memory  == alive' \in BOOLEAN /\ invalidated' \in BOOLEAN /\ alarmed' \in BOOLEAN
                      /\ session' \in Held
           Outside == /\ clock' \in 0..MaxClock /\ row' \in Held
                      /\ writes' \subseteq [value : Held, why : {"adopt", "invalidate"}]
                      /\ kite' \subseteq issued' /\ issued' \subseteq Tokens /\ faults' \in 0..MaxFaults
<1>1. ASSUME Memory, Outside PROVE SessionTypeOK'
  BY <1>1, CallStep DEF SessionTypeOK, CallInv, CallShape
<1> USE SessionAssumption DEF SessionInv, SessionTypeOK
<1>2. NoSession \in Held /\ \A t \in Tokens : [token |-> t, at |-> clock] \in Held
  BY DEF Held
<1>a. \A s \in Held : [value |-> s, why |-> "adopt"] \in [value : Held, why : {"adopt", "invalidate"}]
  OBVIOUS
<1>3. LosesMemory => Memory
  BY <1>2 DEF LosesMemory
<1>4. ASSUME Boot PROVE Memory /\ Outside
  <2>1. /\ session' \in Held /\ alive' \in BOOLEAN /\ invalidated' = FALSE /\ alarmed' = FALSE
        /\ writes' \subseteq writes \cup {[value |-> [token |-> Seed, at |-> clock], why |-> "adopt"]}
        /\ UNCHANGED <<clock, row, kite, issued, faults>>
    BY <1>2, <1>4 DEF Boot, Adopt, Write
  <2>2. writes' \subseteq [value : Held, why : {"adopt", "invalidate"}]
    BY <1>2, <1>a, <2>1, SessionAssumption
  <2>3. QED BY <1>2, <2>1, <2>2
<1>5. ASSUME SessionDies PROVE Memory /\ Outside
  BY <1>3, <1>5 DEF SessionDies
<1>6. ASSUME Passes PROVE Memory /\ Outside
  BY <1>6 DEF Passes
<1>7. ASSUME NEW t \in Tokens, Login(t) PROVE Memory /\ Outside
  <2>1. /\ session' \in Held /\ alive' \in BOOLEAN /\ invalidated' = FALSE /\ alarmed' = FALSE
        /\ writes' \subseteq writes \cup {[value |-> [token |-> t, at |-> clock], why |-> "adopt"]}
        /\ kite' = {t} /\ issued' = issued \cup {t} /\ UNCHANGED <<clock, row, faults>>
    BY <1>2, <1>7 DEF Login, Adopt, Write
  <2>2. writes' \subseteq [value : Held, why : {"adopt", "invalidate"}]
    BY <1>2, <1>a, <2>1
  <2>3. QED BY <1>2, <2>1, <2>2
<1>8. ASSUME NEW w \in writes, WriteLands(w) \/ WriteFails(w) PROVE Memory /\ Outside
  BY <1>3, <1>8 DEF WriteLands, WriteFails, OnWriteFailure
<1>9. ASSUME NEW c \in Callers, Answer(c) PROVE Memory /\ Outside
  <2>1. PICK a : CallAnswered(c, a) /\ (UNCHANGED faults \/ (faults < MaxFaults /\ faults' = faults + 1))
    BY <1>9 DEF Answer
  <2>2. /\ UNCHANGED <<clock, alive, session, alarmed, row, kite, issued>>
        /\ invalidated' \in BOOLEAN
        /\ writes' \subseteq writes \cup {[value |-> NoSession, why |-> "invalidate"]}
    BY <2>1 DEF CallAnswered, Invalidate, Write
  <2>3. QED BY <1>2, <2>1, <2>2
<1>10. ASSUME NEW c \in Callers, Arrives(c) \/ Return(c) \/ \E m \in Methods : Send(c, m)
       PROVE  Memory /\ Outside
  BY <1>10 DEF Arrives, Return, Send
<1>11. CASE UNCHANGED sessionVars
  BY <1>1, <1>11 DEF sessionVars
<1> HIDE DEF Memory, Outside
<1>12. QED
  BY <1>1, <1>4, <1>5, <1>6, <1>7, <1>8, <1>9, <1>10, <1>11 DEF SessionNext

\* What the order manager may send again is not at the exchange: for any number
\* of calls and tokens, whatever lapses, is lost, garbled or answered without data.
THEOREM RetryIsSafe == SessionSpec => []RetriedMeansNotPlaced
<1>1. SessionInit => SessionInv
  <2> SUFFICES ASSUME SessionInit PROVE SessionInv
    OBVIOUS
  <2>1. \A c \in Callers : call[c] \in CallShape /\ CallHolds(call[c])
    BY QuietHolds DEF SessionInit
  <2>2. SessionTypeOK
    <3>1. call \in [Callers -> CallShape] /\ NoSession \in Held
      BY <2>1 DEF SessionInit, Held
    <3>2. clock \in 0..MaxClock /\ faults \in 0..MaxFaults
      BY SessionAssumption DEF SessionInit
    <3>3. kite \subseteq issued /\ issued \subseteq Tokens
      BY SessionAssumption DEF SessionInit
    <3>4. alive \in BOOLEAN /\ invalidated \in BOOLEAN /\ alarmed \in BOOLEAN
      BY DEF SessionInit
    <3>5. session \in Held /\ row \in Held
      BY <3>1 DEF SessionInit
    <3>6. writes \subseteq [value : Held, why : {"adopt", "invalidate"}]
      BY DEF SessionInit
    <3>7. QED BY <3>1, <3>2, <3>3, <3>4, <3>5, <3>6 DEF SessionTypeOK, CallShape
  <2>3. QED BY <2>1, <2>2 DEF SessionInv
<1>2. SessionInv => RetriedMeansNotPlaced
  BY DEF SessionInv, CallHolds, RetriedMeansNotPlaced
<1>3. SessionInv /\ [SessionNext]_sessionVars => SessionInv'
  BY CallStep, SessionTypes DEF SessionInv, CallInv
<1>4. QED BY <1>1, <1>2, <1>3, PTL DEF SessionSpec

-----------------------------------------------------------------------------
(* The historical provider: division, windows, the order of the bars, the  *)
(* rate limit, and the fetches.                                            *)

\* And any numbers have a first one.
LEMMA LeastExists ==
  ASSUME NEW S \in SUBSET Nat, S # {}
  PROVE  \E b \in S : \A c \in S : b <= c
<1>1. PICK x \in S : \A y \in S : <<y, x>> \notin LessThan
  BY NaturalOrder, WFMin
<1>2. \A y \in S : ~(y < x)
  BY <1>1 DEF LessThan
<1>3. QED BY <1>2

\* Whole multiples, and what is left of them.
LEMMA Division ==
  ASSUME NEW t \in Nat, NEW d \in Nat \ {0}
  PROVE  /\ t \div d \in Nat /\ t % d \in Nat /\ t % d < d
         /\ t = d * (t \div d) + (t % d)
OBVIOUS

\* No multiple lies strictly between two neighbouring ones.
LEMMA NoRest ==
  ASSUME NEW d \in Nat \ {0}, NEW k \in Int, NEW r \in Nat, r < d, d * k = r
  PROVE  r = 0
<1>1. CASE k <= 0
  <2>1. -k \in Nat /\ d * (-k) >= 0
    BY <1>1
  <2>2. d * (-k) = -(d * k)
    OBVIOUS
  <2>3. QED BY <2>1, <2>2
<1>2. CASE k >= 1
  <2>1. k - 1 \in Nat /\ d * (k - 1) >= 0
    BY <1>2
  <2>2. d * (k - 1) = d * k - d
    OBVIOUS
  <2>3. QED BY <2>1, <2>2
<1>3. QED BY <1>1, <1>2

LEMMA Divides ==
  ASSUME NEW d \in Nat \ {0}, NEW e \in Nat \ {0}, NEW b \in Nat, e % d = 0, b % e = 0
  PROVE  b % d = 0
<1> DEFINE p == e \div d
           q == b \div e
           w == b \div d
<1>1. p \in Nat /\ q \in Nat /\ w \in Nat /\ b % d \in Nat /\ b % d < d
  BY Division
<1>2. e = d * p /\ b = e * q /\ b = d * w + (b % d)
  BY Division
<1> HIDE DEF p, q, w
<1>3. d * (p * q - w) = b % d
  <2>1. b = d * (p * q)
    BY <1>1, <1>2
  <2>2. d * (p * q - w) = d * (p * q) - d * w
    BY <1>1
  <2>3. QED BY <1>1, <1>2, <2>1, <2>2
<1>4. p * q - w \in Int
  BY <1>1
<1>5. QED BY <1>1, <1>3, <1>4, NoRest

LEMMA InOrder ==
  ASSUME NEW x \in Nat, NEW y \in Nat, NEW d \in Nat \ {0}, x <= y
  PROVE  x \div d <= y \div d
OBVIOUS

\* toKiteTime() rounds down, and keeps whole seconds.
LEMMA KiteTimeRounds ==
  ASSUME NEW t \in Nat
  PROVE  /\ KiteTime(t) \in Nat /\ KiteTime(t) <= t
         /\ \A u \in Nat : t <= u => KiteTime(t) <= KiteTime(u)
         /\ t % Second = 0 => KiteTime(t) = t
<1>1. Second \in Nat \ {0}
  BY HistoryAssumption
<1>2. QED BY <1>1 DEF KiteTime
\* A sequence is over any set that holds its elements.
LEMMA Widen ==
  ASSUME NEW A, NEW B, NEW s \in Seq(A), \A i \in DOMAIN s : s[i] \in B
  PROVE  s \in Seq(B)
OBVIOUS

\* A bar stands on a whole second, which Kite's clock keeps.
LEMMA BarsAreWhole ==
  ASSUME NEW b \in AllBars
  PROVE  b \in Nat /\ b <= Lengthy /\ KiteTime(b) = b
<1>1. b \in Nat /\ b <= Lengthy /\ b % BarSize = 0
  BY HistoryAssumption DEF AllBars
<1>2. b % Second = 0
  BY <1>1, HistoryAssumption, Divides
<1>3. QED BY <1>1, <1>2, KiteTimeRounds

\* The windows of a range reach its end.
LEMMA WindowsReach ==
  ASSUME NEW r \in Ranges
  PROVE  /\ r.from \in Nat /\ r.to \in Nat /\ Windows(r) \in Nat /\ Stride \in Nat
         /\ \A k \in Nat : WindowFrom(r, k + 1) \in Nat /\ WindowFrom(r, k + 1) >= r.from
                           /\ WindowFrom(r, k + 2) = WindowFrom(r, k + 1) + Stride
         /\ WindowFrom(r, 1) = r.from
         /\ WindowFrom(r, Windows(r) + 1) > r.to
<1>1. r.from \in Nat /\ r.to \in Nat /\ Stride \in Nat \ {0}
  BY HistoryAssumption DEF Stride
<1>2. Windows(r) \in Nat /\ Windows(r) * Stride > r.to - r.from
  <2>1. CASE r.from > r.to
    BY <1>1, <2>1 DEF Windows
  <2>2. CASE r.from <= r.to
    <3> DEFINE d == r.to - r.from
               q == d \div Stride
    <3>1. d \in Nat
      BY <1>1, <2>2
    <3>2. q \in Nat /\ d < Stride * q + Stride
      <4>1. q \in Nat /\ d % Stride \in Nat /\ d % Stride < Stride /\ d = Stride * q + (d % Stride)
        BY <1>1, <3>1, Division
      <4> HIDE DEF q, d
      <4>2. Stride * q \in Nat
        BY <1>1, <4>1
      <4>3. QED BY <1>1, <3>1, <4>1, <4>2
    <3>3. Windows(r) = q + 1
      BY <1>1, <2>2 DEF Windows
    <3> HIDE DEF q
    <3>4. (q + 1) * Stride = Stride * q + Stride
      BY <1>1, <3>2
    <3>5. QED BY <3>2, <3>3, <3>4
  <2>3. QED BY <1>1, <2>1, <2>2
<1>3. WindowFrom(r, 1) = r.from
  BY <1>1 DEF WindowFrom
<1>4. ASSUME NEW k \in Nat
      PROVE  /\ WindowFrom(r, k + 1) \in Nat /\ WindowFrom(r, k + 1) >= r.from
             /\ WindowFrom(r, k + 2) = WindowFrom(r, k + 1) + Stride
  <2>1. k * Stride \in Nat /\ (k + 1) * Stride = k * Stride + Stride
    BY <1>1
  <2>2. WindowFrom(r, k + 1) = r.from + k * Stride /\ WindowFrom(r, k + 2) = r.from + (k + 1) * Stride
    BY <1>1 DEF WindowFrom
  <2>3. QED BY <1>1, <2>1, <2>2
<1>5. WindowFrom(r, Windows(r) + 1) > r.to
  <2>1. WindowFrom(r, Windows(r) + 1) = r.from + Windows(r) * Stride
    BY <1>1, <1>2 DEF WindowFrom
  <2>2. Windows(r) * Stride \in Nat
    BY <1>1, <1>2
  <2>3. QED BY <1>1, <1>2, <2>1, <2>2
<1>6. QED BY <1>1, <1>2, <1>3, <1>4, <1>5

\* Kite's answer has the bars of its window, whatever their order.
LEMMA RowsAreBars ==
  ASSUME NEW from \in Nat, NEW to \in Int, NEW rows \in Rows(from, to)
  PROVE  /\ rows \in Seq(AllBars)
         /\ ToSet(rows) = BarsIn(KiteTime(from), KiteTime(to))
<1> DEFINE S == BarsIn(KiteTime(from), KiteTime(to))
           n == Cardinality(S)
<1>1. IsFiniteSet(S) /\ n \in Nat
  <2>1. IsFiniteSet(0 .. Lengthy) /\ S \in SUBSET (0 .. Lengthy)
    BY HistoryAssumption, FS_Interval DEF BarsIn, AllBars
  <2>2. QED BY <2>1, FS_Subset, FS_CardinalityType
<1>2. S \subseteq AllBars
  BY DEF BarsIn
<1>3. rows \in [1 .. n -> S] /\ \A i, j \in 1 .. n : i # j => rows[i] # rows[j]
  BY DEF Rows, SetToSeqs
<1> HIDE DEF S, n
<1>4. rows \in Injection(1 .. n, S)
  BY <1>3 DEF Injection, IsInjective
<1>5. IsFiniteSet(1 .. n) /\ Cardinality(1 .. n) = n
  BY <1>1, FS_Interval
<1>6. rows \in Surjection(1 .. n, S)
  BY <1>1, <1>4, <1>5, FS_Injection DEF n
<1>7. rows \in Seq(AllBars)
  BY <1>1, <1>2, <1>3
<1>8. ToSet(rows) = S
  BY <1>3, <1>6 DEF Surjection, ToSet
<1>9. QED BY <1>7, <1>8 DEF S

\* The rank of a bar among those brought.
LEMMA RankCounts ==
  ASSUME NEW s \in Seq(Nat), NEW v \in Int
  PROVE  /\ RankOf(s, v) \in Nat /\ RankOf(s, v) <= Len(s)
         /\ \A w \in Int : v <= w => RankOf(s, v) <= RankOf(s, w)
         /\ (\A i \in DOMAIN s : s[i] <= v) => RankOf(s, v) = Len(s)
         /\ \A w \in ToSet(s) : v < w => RankOf(s, v) < RankOf(s, w)
<1> DEFINE D == DOMAIN s
           J(w) == {j \in D : s[j] <= w}
<1>1. D = 1 .. Len(s) /\ Len(s) \in Nat /\ IsFiniteSet(D) /\ Cardinality(D) = Len(s)
  <2>1. D = 1 .. Len(s) /\ Len(s) \in Nat
    OBVIOUS
  <2>2. \A n \in Nat : IsFiniteSet(1 .. n) /\ Cardinality(1 .. n) = n
    BY FS_Interval
  <2>3. QED BY <2>1, <2>2
<1>2. \A w : /\ J(w) \in SUBSET D /\ IsFiniteSet(J(w)) /\ RankOf(s, w) = Cardinality(J(w))
             /\ RankOf(s, w) \in Nat /\ RankOf(s, w) <= Len(s)
  BY <1>1, FS_Subset, FS_CardinalityType DEF RankOf
<1>3. ASSUME NEW w \in Int, v <= w PROVE J(v) \subseteq J(w)
  <2>1. \A j \in D : s[j] \in Nat
    OBVIOUS
  <2>2. QED BY <1>3, <2>1
<1>4. ASSUME NEW w \in Int, v <= w PROVE RankOf(s, v) <= RankOf(s, w)
  <2>1. J(v) \in SUBSET J(w)
    BY <1>3, <1>4
  <2> HIDE DEF J
  <2>2. QED BY <1>2, <2>1, FS_Subset
<1>5. ASSUME \A i \in D : s[i] <= v PROVE RankOf(s, v) = Len(s)
  <2>1. J(v) = D
    BY <1>5
  <2>2. QED BY <1>1, <1>2, <2>1
<1>6. ASSUME NEW w \in ToSet(s), v < w PROVE RankOf(s, v) < RankOf(s, w)
  <2>1. PICK i \in D : w = s[i]
    BY DEF ToSet
  <2>2. w \in Int /\ i \in J(w) /\ i \notin J(v)
    BY <1>6, <2>1
  <2>3. J(v) \subseteq J(w) /\ J(v) # J(w)
    BY <1>3, <1>6, <2>2
  <2>4. Cardinality(J(v)) <= Cardinality(J(w)) /\ Cardinality(J(v)) # Cardinality(J(w))
    <3>1. J(v) \in SUBSET J(w)
      BY <2>3
    <3> HIDE DEF J
    <3>2. IsFiniteSet(J(w))
      BY <1>2
    <3>3. QED BY <2>3, <3>1, <3>2, FS_Subset
  <2> HIDE DEF J
  <2>5. RankOf(s, v) = Cardinality(J(v)) /\ RankOf(s, w) = Cardinality(J(w)) /\ RankOf(s, v) \in Nat /\ RankOf(s, w) \in Nat
    BY <1>2
  <2>6. QED BY <2>4, <2>5
<1>7. QED BY <1>2, <1>4, <1>5, <1>6

\* The bars are put in order, and stay the same.
LEMMA AscendingSorts ==
  ASSUME NEW n \in Nat, NEW s \in Seq(0 .. n)
  PROVE  LET t == Ascending(s)
         IN  /\ t \in Seq(0 .. n) /\ ToSet(t) = ToSet(s)
             /\ \A i \in 2 .. Len(t) : t[i - 1] <= t[i]
<1> DEFINE t == Ascending(s)
           Least(i, v) == /\ RankOf(s, v) >= i
                          /\ \A w \in ToSet(s) : RankOf(s, w) >= i => v <= w
<1>1. s \in Seq(Nat) /\ DOMAIN s = 1 .. Len(s) /\ Len(s) \in Nat /\ ToSet(s) \subseteq 0 .. n /\ \A i \in DOMAIN s : s[i] \in ToSet(s)
  BY DEF ToSet
<1>2. \A v \in Int : /\ RankOf(s, v) \in Nat /\ RankOf(s, v) <= Len(s)
                    /\ \A w \in ToSet(s) : v < w => RankOf(s, v) < RankOf(s, w)
  BY <1>1, RankCounts
<1>3. ASSUME NEW i \in DOMAIN s PROVE \E v \in ToSet(s) : Least(i, v)
  <2> DEFINE E == {v \in ToSet(s) : RankOf(s, v) >= i}
  <2>1. E \in SUBSET Nat
    BY <1>1
  <2>2. E # {}
    <3>1. PICK m \in ToSet(s) : \A w \in ToSet(s) : w <= m
      BY <1>1, LastExists
    <3>2. RankOf(s, m) = Len(s)
      <4>1. m \in Int /\ \A j \in DOMAIN s : s[j] <= m
        BY <1>1, <3>1
      <4>2. QED BY <1>1, <4>1, RankCounts
    <3>3. QED BY <1>1, <3>1, <3>2
  <2>3. PICK v \in E : \A w \in E : v <= w
    BY <2>1, <2>2, LeastExists
  <2>4. QED BY <2>3
<1>4. \A i \in DOMAIN s : t[i] \in ToSet(s) /\ Least(i, t[i])
  BY <1>3 DEF Ascending
<1>5. t \in Seq(0 .. n) /\ DOMAIN t = DOMAIN s /\ Len(t) = Len(s)
  <2>1. \A i \in 1 .. Len(s) : t[i] \in 0 .. n
    BY <1>1, <1>4
  <2>2. t = [i \in 1 .. Len(s) |-> t[i]]
    BY <1>1 DEF Ascending
  <2> HIDE DEF t
  <2>3. t \in [1 .. Len(s) -> 0 .. n]
    BY <2>1, <2>2
  <2>4. QED BY <1>1, <2>3
<1> HIDE DEF t
<1>6. ToSet(t) \subseteq ToSet(s)
  BY <1>4, <1>5 DEF ToSet
<1>7. ASSUME NEW b \in ToSet(s) PROVE b \in ToSet(t)
  <2> DEFINE i == RankOf(s, b)
  <2>1. i \in DOMAIN s
    <3> DEFINE below == -1
    <3>1. b \in Int /\ below \in Int /\ below < b
      BY <1>1
    <3> HIDE DEF below
    <3>2. i \in Nat /\ i <= Len(s) /\ RankOf(s, below) \in Nat /\ RankOf(s, below) < i
      BY <1>2, <3>1
    <3>3. QED BY <1>1, <3>2
  <2>2. t[i] \in ToSet(s) /\ RankOf(s, t[i]) >= i /\ t[i] <= b
    <3>1. i >= i
      BY <1>1, <2>1
    <3>2. QED BY <1>4, <2>1, <3>1
  <2>3. ~(t[i] < b)
    <3> DEFINE v == t[i]
    <3>1. v \in Int /\ RankOf(s, v) >= i
      BY <1>1, <2>2
    <3> HIDE DEF v
    <3>2. RankOf(s, v) \in Nat /\ (v < b => RankOf(s, v) < i)
      BY <1>2, <3>1
    <3>3. i \in Nat
      BY <1>1, <2>1
    <3> HIDE DEF i
    <3>4. ~(v < b)
      BY <3>1, <3>2, <3>3
    <3>5. QED BY <3>4 DEF v
  <2>4. t[i] = b
    BY <1>1, <2>2, <2>3
  <2>5. QED BY <1>5, <2>1, <2>4 DEF ToSet
<1>8. ASSUME NEW i \in 2 .. Len(t) PROVE t[i - 1] <= t[i]
  <2>1. i \in DOMAIN s /\ i - 1 \in DOMAIN s /\ i \in Nat
    BY <1>1, <1>5
  <2>2. RankOf(s, t[i]) >= i - 1
    <3> DEFINE v == t[i]
    <3>1. v \in Int /\ RankOf(s, v) >= i
      BY <1>1, <1>4, <2>1
    <3> HIDE DEF v
    <3>2. RankOf(s, v) \in Nat
      BY <1>2, <3>1
    <3>3. RankOf(s, v) >= i - 1
      BY <2>1, <3>1, <3>2
    <3>4. QED BY <3>3 DEF v
  <2>3. QED BY <1>4, <2>1, <2>2
<1>9. QED BY <1>5, <1>6, <1>7, <1>8 DEF t

\* The rate limit.  What was sent since a request, and what is left in the
\* bucket, is no more than a full bucket and what flowed in since.
Bucket == PerSecond * Second
Since(n, k) == Second * (n - k + 1)
BucketType == /\ bucket \in [tokens : Nat, filled : Nat] /\ time \in Nat /\ bucket.filled <= time
              /\ sentAt \in Seq(Nat) /\ bucket.tokens <= Bucket
              /\ \A k \in DOMAIN sentAt : sentAt[k] <= bucket.filled
Backed == \A k \in DOMAIN sentAt :
            Since(Len(sentAt), k) + bucket.tokens <= Bucket + (bucket.filled - sentAt[k]) * PerSecond
Spaced == \A n \in DOMAIN sentAt : \A k \in 1 .. n :
            Since(n, k) <= Bucket + (sentAt[n] - sentAt[k]) * PerSecond
BucketInv == BucketType /\ Backed /\ Spaced

\* A token taken leaves the books of the bucket right.
LEMMA AcquireKeeps ==
  ASSUME BucketInv, Acquire, UNCHANGED time
  PROVE  BucketInv'
<1> DEFINE r == Refilled
           n == Len(sentAt) + 1
<1>1. /\ Second \in Nat /\ PerSecond \in Nat /\ Bucket \in Nat /\ time \in Nat /\ n \in Nat
      /\ bucket.tokens \in Nat /\ bucket.filled \in Nat /\ bucket.filled <= time
      /\ sentAt \in Seq(Nat) /\ Len(sentAt) \in Nat
  BY HistoryAssumption DEF BucketInv, BucketType, Bucket
<1>2. (time - bucket.filled) * PerSecond \in Nat
  <2>1. time - bucket.filled \in Nat
    BY <1>1
  <2>2. QED BY <1>1, <2>1
<1>3. /\ r \in Nat /\ r >= Second /\ r <= Bucket
      /\ r <= bucket.tokens + (time - bucket.filled) * PerSecond
  <2> DEFINE x == bucket.tokens + (time - bucket.filled) * PerSecond
  <2>1. r = IF x > Bucket THEN Bucket ELSE x
    BY DEF Refilled, Bucket
  <2>2. x \in Nat
    BY <1>1, <1>2
  <2>3. r >= Second
    BY DEF Acquire
  <2> HIDE DEF r, x
  <2>4. QED BY <1>1, <2>1, <2>2, <2>3 DEF x
<1>4. /\ bucket'.tokens = r - Second /\ bucket'.filled = time /\ bucket' \in [tokens : Nat, filled : Nat]
      /\ sentAt' = Append(sentAt, time) /\ Len(sentAt') = n /\ DOMAIN sentAt' = 1 .. n
      /\ sentAt' \in Seq(Nat) /\ sentAt'[n] = time
      /\ \A k \in DOMAIN sentAt : sentAt'[k] = sentAt[k]
  BY <1>1, <1>3 DEF Acquire
<1> HIDE DEF r
<1>5. BucketType'
  <2>1. \A k \in 1 .. n : sentAt'[k] <= time
    <3>1. \A k \in DOMAIN sentAt : sentAt[k] \in Nat /\ sentAt[k] <= bucket.filled
      BY <1>1 DEF BucketInv, BucketType
    <3>2. \A k \in DOMAIN sentAt : sentAt'[k] <= time
      BY <1>1, <1>4, <3>1
    <3>3. \A k \in 1 .. n : k = n \/ k \in DOMAIN sentAt
      BY <1>1
    <3>4. QED BY <1>1, <1>4, <3>2, <3>3
  <2>2. bucket'.tokens <= Bucket
    BY <1>1, <1>3, <1>4
  <2>3. QED BY <1>1, <1>4, <2>1, <2>2 DEF BucketType, Bucket
<1>6. ASSUME NEW k \in 1 .. n
      PROVE  Since(n, k) + r - Second <= Bucket + (time - sentAt'[k]) * PerSecond
  <2>1. CASE k = n
    <3>1. Since(n, k) = Second
      BY <1>1, <2>1 DEF Since
    <3>2. (time - sentAt'[k]) * PerSecond = 0
      BY <1>1, <1>4, <2>1
    <3>3. QED BY <1>1, <1>3, <3>1, <3>2
  <2>2. CASE k < n
    <3>1. k \in DOMAIN sentAt /\ sentAt'[k] = sentAt[k] /\ sentAt[k] \in Nat /\ k \in Nat
      BY <1>1, <1>4, <2>2
    <3>2. Since(n, k) = Since(Len(sentAt), k) + Second /\ Since(Len(sentAt), k) \in Int
      BY <1>1, <3>1 DEF Since
    <3>3. Since(Len(sentAt), k) + bucket.tokens <= Bucket + (bucket.filled - sentAt[k]) * PerSecond
      BY <3>1 DEF BucketInv, Backed
    <3> DEFINE new == (time - bucket.filled) * PerSecond
               old == (bucket.filled - sentAt[k]) * PerSecond
               all == (time - sentAt[k]) * PerSecond
    <3>4. all = new + old /\ old \in Int /\ new \in Nat
      BY <1>1, <1>2, <3>1
    <3>5. r <= bucket.tokens + new /\ Since(Len(sentAt), k) + bucket.tokens <= Bucket + old
      BY <1>3, <3>3
    <3> HIDE DEF n, new, old, all
    <3>6. Since(n, k) + r - Second <= Bucket + all
      BY <1>1, <1>3, <3>2, <3>4, <3>5
    <3>7. QED BY <3>1, <3>6 DEF all
  <2>3. QED BY <1>1, <2>1, <2>2
<1>7. Backed'
  <2> SUFFICES ASSUME NEW k \in 1 .. n
               PROVE  Since(n, k) + bucket'.tokens <= Bucket + (bucket'.filled - sentAt'[k]) * PerSecond
    BY <1>4 DEF Backed, Since, Bucket
  <2>1. Since(n, k) \in Int
    BY <1>1 DEF Since
  <2>2. QED BY <1>1, <1>3, <1>4, <1>6, <2>1
<1>8. Spaced'
  <2> SUFFICES ASSUME NEW m \in 1 .. n, NEW k \in 1 .. m
               PROVE  Since(m, k) <= Bucket + (sentAt'[m] - sentAt'[k]) * PerSecond
    BY <1>4 DEF Spaced, Since, Bucket
  <2>1. CASE m = n
    <3>1. k \in 1 .. n /\ k \in Nat /\ sentAt'[k] \in Nat
      BY <1>1, <1>4, <2>1
    <3> DEFINE all == (time - sentAt'[k]) * PerSecond
    <3>2. Since(n, k) \in Int /\ all \in Int
      BY <1>1, <3>1 DEF Since
    <3>3. Since(n, k) + r - Second <= Bucket + all
      BY <1>6, <3>1
    <3> HIDE DEF n, all
    <3>4. Since(n, k) <= Bucket + all
      BY <1>1, <1>3, <3>2, <3>3
    <3>5. QED BY <1>4, <2>1, <3>4 DEF all
  <2>2. CASE m < n
    <3>1. m \in DOMAIN sentAt /\ k \in DOMAIN sentAt
      BY <1>1, <2>2
    <3>2. sentAt'[m] = sentAt[m] /\ sentAt'[k] = sentAt[k]
      BY <1>4, <3>1
    <3>3. QED BY <3>1, <3>2 DEF BucketInv, Spaced
  <2>3. QED BY <1>1, <2>1, <2>2
<1>9. QED BY <1>5, <1>7, <1>8 DEF BucketInv

\* c requests that fit into a bucket and what flows into it in a second.
LEMMA TwoBuckets ==
  ASSUME NEW d \in Nat \ {0}, NEW p \in Nat \ {0}, NEW c \in Int, NEW x \in Int,
         x <= d - 1, d * c <= p * d + x * p
  PROVE  c <= 2 * p
<1>1. x * p <= (d - 1) * p
  <2>1. d - 1 - x \in Nat
    OBVIOUS
  <2>2. (d - 1 - x) * p \in Nat
    BY <2>1
  <2>3. (d - 1 - x) * p = (d - 1) * p - x * p
    OBVIOUS
  <2>4. x * p \in Int /\ (d - 1) * p \in Int
    OBVIOUS
  <2>5. QED BY <2>2, <2>3, <2>4
<1>2. p * d + (d - 1) * p = d * (2 * p) - p
  OBVIOUS
<1>3. d * c < d * (2 * p)
  <2> DEFINE dc == d * c
             pd == p * d
             xp == x * p
             dp == (d - 1) * p
             dd == d * (2 * p)
  <2>1. dc \in Int /\ pd \in Int /\ xp \in Int /\ dp \in Int /\ dd \in Int
    OBVIOUS
  <2>2. dc <= pd + xp /\ xp <= dp /\ pd + dp = dd - p
    BY <1>1, <1>2
  <2> HIDE DEF dc, pd, xp, dp, dd
  <2>3. dc < dd
    BY <2>1, <2>2
  <2>4. QED BY <2>3 DEF dc, dd
<1>4. ASSUME c > 2 * p PROVE FALSE
  <2>1. c - 2 * p \in Nat
    BY <1>4
  <2>2. d * (c - 2 * p) \in Nat /\ d * (c - 2 * p) = d * c - d * (2 * p)
    BY <2>1
  <2>3. d * c \in Int /\ d * (2 * p) \in Int
    OBVIOUS
  <2>4. QED BY <1>3, <2>2, <2>3
<1>5. QED BY <1>4

\* So a second has room for two buckets at most.
LEMMA SpacedIsPaced == BucketInv => Paced
<1> SUFFICES ASSUME BucketInv, NEW i \in DOMAIN sentAt
             PROVE  Cardinality({j \in DOMAIN sentAt : sentAt[j] \in sentAt[i] .. sentAt[i] + Second - 1})
                      <= 2 * PerSecond
  BY DEF Paced
<1> DEFINE J == {j \in DOMAIN sentAt : sentAt[j] \in sentAt[i] .. sentAt[i] + Second - 1}
<1>1. /\ sentAt \in Seq(Nat) /\ Len(sentAt) \in Nat /\ DOMAIN sentAt = 1 .. Len(sentAt)
      /\ Second \in Nat \ {0} /\ PerSecond \in Nat \ {0}
  BY HistoryAssumption DEF BucketInv, BucketType
<1>2. J \in SUBSET (0 .. Len(sentAt)) /\ J \in SUBSET Nat /\ i \in J
  BY <1>1
<1>3. PICK k \in J : \A c \in J : k <= c
  BY <1>2, LeastExists
<1>4. PICK n \in J : \A c \in J : c <= n
  BY <1>1, <1>2, LastExists
<1>5. /\ k \in DOMAIN sentAt /\ n \in DOMAIN sentAt /\ k \in Nat /\ n \in Nat /\ k <= n
      /\ sentAt[k] \in Nat /\ sentAt[n] \in Nat /\ sentAt[n] - sentAt[k] <= Second - 1
  BY <1>1, <1>2, <1>3, <1>4
<1>6. Cardinality(J) <= n - k + 1
  <2>1. J \in SUBSET (k .. n)
    BY <1>2, <1>3, <1>4
  <2> HIDE DEF J
  <2>2. IsFiniteSet(k .. n) /\ Cardinality(k .. n) = n - k + 1
    BY <1>5, FS_Interval
  <2>3. QED BY <2>1, <2>2, FS_Subset
<1>7. n - k + 1 <= 2 * PerSecond
  <2> DEFINE c == n - k + 1
             x == sentAt[n] - sentAt[k]
  <2>1. Second * c <= PerSecond * Second + x * PerSecond
    BY <1>1, <1>5 DEF BucketInv, Spaced, Since, Bucket
  <2>2. c \in Int /\ x \in Int /\ x <= Second - 1
    BY <1>1, <1>5
  <2> HIDE DEF c, x
  <2>3. c <= 2 * PerSecond
    BY <1>1, <2>1, <2>2, TwoBuckets
  <2>4. QED BY <2>3 DEF c
<1>8. Cardinality(J) \in Nat
  <2>1. IsFiniteSet(0 .. Len(sentAt))
    BY <1>1, FS_Interval
  <2> HIDE DEF J
  <2>2. QED BY <1>2, <2>1, FS_Subset, FS_CardinalityType
<1> HIDE DEF J
<1>9. Cardinality(J) <= 2 * PerSecond
  BY <1>1, <1>5, <1>6, <1>7, <1>8
<1>10. QED BY <1>9 DEF J

\* The bars.  What the windows so far brought is of the range, and is all of it
\* up to where the next one begins.
Covers(bars, r, n, lacks) ==
  /\ ToSet(bars) \subseteq BarsIn(KiteTime(r.from), r.to)
  /\ \A b \in BarsIn(r.from, r.to) :
       b < WindowFrom(r, n + 1) => b \in ToSet(bars) \/ Lacked(r, lacks, b)
Brought(x) ==
  /\ x.at # "idle" => x.range \in Ranges
  /\ x.at \in {"instruments", "dump"} => x.window = 0 /\ x.bars = <<>>
  /\ x.at = "sent" => x.window > 0 /\ Covers(x.bars, x.range, x.window - 1, x.lacks)
  /\ x.at = "window" => Covers(x.bars, x.range, x.window, x.lacks)
FetchShape == [at : {"idle", "instruments", "dump", "window", "sent", "done"},
               range : [from : Nat, to : Nat], window : Nat, bars : Seq(AllBars), lacks : SUBSET Nat]
FetchInv == /\ fetch \in [Fetches -> FetchShape]
            /\ \A f \in Fetches : Brought(fetch[f]) /\ (Done(f) => Complete(f) /\ InTimeOrder(f))
HistoryInv == BucketInv /\ FetchInv

\* Before the first window nothing is owed.
LEMMA NothingYet ==
  ASSUME NEW r \in Ranges, NEW lacks
  PROVE  Covers(<<>>, r, 0, lacks)
BY WindowsReach DEF Covers, ToSet, BarsIn, AllBars

\* Appending rows adds them.
LEMMA BothParts ==
  ASSUME NEW S, NEW s \in Seq(S), NEW t \in Seq(S)
  PROVE  ToSet(s \o t) = ToSet(s) \cup ToSet(t)
<1>1. /\ Len(s) \in Nat /\ Len(t) \in Nat /\ Len(s \o t) = Len(s) + Len(t) /\ s \o t \in Seq(S)
      /\ DOMAIN s = 1 .. Len(s) /\ DOMAIN t = 1 .. Len(t) /\ DOMAIN (s \o t) = 1 .. Len(s) + Len(t)
  OBVIOUS
<1>2. ASSUME NEW i \in DOMAIN s PROVE i \in DOMAIN (s \o t) /\ (s \o t)[i] = s[i]
  BY <1>1
<1>3. ASSUME NEW j \in DOMAIN t
      PROVE  Len(s) + j \in DOMAIN (s \o t) /\ (s \o t)[Len(s) + j] = t[j]
  BY <1>1
<1>4. ASSUME NEW i \in DOMAIN (s \o t)
      PROVE  i \in DOMAIN s \/ (i - Len(s) \in DOMAIN t /\ i = Len(s) + (i - Len(s)))
  BY <1>1
<1>5. ToSet(s) \subseteq ToSet(s \o t)
  BY <1>2 DEF ToSet
<1>6. ToSet(t) \subseteq ToSet(s \o t)
  BY <1>3 DEF ToSet
<1>7. ASSUME NEW i \in DOMAIN (s \o t) PROVE (s \o t)[i] \in ToSet(s) \cup ToSet(t)
  <2>1. CASE i \in DOMAIN s
    BY <1>2, <2>1 DEF ToSet
  <2>2. CASE i - Len(s) \in DOMAIN t /\ i = Len(s) + (i - Len(s))
    <3>1. (s \o t)[i] = t[i - Len(s)]
      BY <1>3, <2>2
    <3>2. QED BY <2>2, <3>1 DEF ToSet
  <2>3. QED BY <1>4, <2>1, <2>2
<1>8. QED BY <1>5, <1>6, <1>7 DEF ToSet

\* An answered window moves the mark to the next one.
LEMMA OneWindowMore ==
  ASSUME NEW r \in Ranges, NEW n \in Nat, NEW lacks, NEW bars \in Seq(AllBars), Covers(bars, r, n, lacks),
         NEW rows \in Rows(WindowFrom(r, n + 1), WindowTo(r, n + 1))
  PROVE  bars \o rows \in Seq(AllBars) /\ Covers(bars \o rows, r, n + 1, lacks)
<1> DEFINE from == WindowFrom(r, n + 1)
           to == WindowTo(r, n + 1)
<1>1. /\ from \in Nat /\ r.from \in Nat /\ r.to \in Nat /\ r.from <= from
      /\ WindowFrom(r, n + 2) = from + Span + 1 /\ Span \in Nat
  <2>1. Span \in Nat
    BY HistoryAssumption
  <2>2. /\ WindowFrom(r, n + 1) \in Nat /\ WindowFrom(r, n + 1) >= r.from
        /\ WindowFrom(r, n + 2) = WindowFrom(r, n + 1) + Stride
        /\ r.from \in Nat /\ r.to \in Nat
    BY WindowsReach
  <2> HIDE DEF to
  <2>3. QED BY <2>1, <2>2 DEF Stride
<1>2. to \in Nat /\ to <= r.to /\ (to = from + Span \/ to = r.to)
  BY <1>1 DEF WindowTo
<1>3. rows \in Seq(AllBars) /\ ToSet(rows) = BarsIn(KiteTime(from), KiteTime(to))
  BY <1>1, <1>2, RowsAreBars
<1> HIDE DEF from, to
<1>4. bars \o rows \in Seq(AllBars)
  BY <1>3
<1>5. ToSet(bars \o rows) = ToSet(bars) \cup ToSet(rows)
  BY <1>3, BothParts
<1>6. ToSet(rows) \subseteq BarsIn(KiteTime(r.from), r.to)
  <2> SUFFICES ASSUME NEW b \in AllBars, KiteTime(from) <= b, b <= KiteTime(to)
               PROVE  KiteTime(r.from) <= b /\ b <= r.to
    BY <1>3 DEF BarsIn
  <2>1. /\ KiteTime(r.from) \in Nat /\ KiteTime(from) \in Nat /\ KiteTime(to) \in Nat
        /\ KiteTime(r.from) <= KiteTime(from) /\ KiteTime(to) <= to
    BY <1>1, <1>2, KiteTimeRounds
  <2>2. QED BY <1>1, <1>2, <2>1, BarsAreWhole
<1>7. ASSUME NEW b \in BarsIn(r.from, r.to), b < WindowFrom(r, n + 2)
      PROVE  b \in ToSet(bars \o rows) \/ Lacked(r, lacks, b)
  <2>1. b \in AllBars /\ b \in Nat /\ KiteTime(b) = b /\ r.from <= b /\ b <= r.to
    BY BarsAreWhole DEF BarsIn
  <2>2. CASE b < from
    BY <1>5, <2>2 DEF Covers, from
  <2>3. CASE b >= from
    <3>1. b <= to
      BY <1>1, <1>2, <1>7, <2>1
    <3>2. KiteTime(from) <= b /\ b <= KiteTime(to)
      <4>1. KiteTime(from) \in Nat /\ KiteTime(from) <= from /\ KiteTime(b) <= KiteTime(to)
        BY <1>1, <1>2, <2>1, <3>1, KiteTimeRounds
      <4>2. QED BY <1>1, <2>1, <2>3, <4>1
    <3>3. QED BY <1>3, <1>5, <2>1, <3>2 DEF BarsIn
  <2>4. QED BY <1>1, <2>1, <2>2, <2>3
<1>8. Covers(bars \o rows, r, n + 1, lacks)
  <2>1. n + 1 + 1 = n + 2
    OBVIOUS
  <2>2. QED BY <1>5, <1>6, <1>7, <2>1 DEF Covers
<1>9. QED BY <1>4, <1>8

\* A window without an answer moves it too, and is lacked.
LEMMA OneWindowLess ==
  ASSUME NEW r \in Ranges, NEW n \in Nat, NEW lacks, NEW bars, Covers(bars, r, n, lacks)
  PROVE  Covers(bars, r, n + 1, lacks \cup {n + 1})
<1>1. /\ WindowFrom(r, n + 1) \in Nat /\ r.to \in Nat /\ Span \in Nat
      /\ WindowFrom(r, n + 2) = WindowFrom(r, n + 1) + Span + 1
  <2>1. Span \in Nat
    BY HistoryAssumption
  <2>2. /\ WindowFrom(r, n + 1) \in Nat /\ r.to \in Nat
        /\ WindowFrom(r, n + 2) = WindowFrom(r, n + 1) + Stride
    BY WindowsReach
  <2>3. QED BY <2>1, <2>2 DEF Stride
<1>2. ASSUME NEW b \in BarsIn(r.from, r.to), b < WindowFrom(r, n + 2)
      PROVE  b \in ToSet(bars) \/ Lacked(r, lacks \cup {n + 1}, b)
  <2>1. b \in Nat /\ b <= r.to
    BY BarsAreWhole DEF BarsIn
  <2>2. CASE b < WindowFrom(r, n + 1)
    BY <2>2 DEF Covers, Lacked
  <2>3. CASE b >= WindowFrom(r, n + 1)
    <3>1. b <= WindowTo(r, n + 1)
      BY <1>1, <1>2, <2>1 DEF WindowTo
    <3>2. QED BY <2>3, <3>1 DEF Lacked
  <2>4. QED BY <1>1, <2>1, <2>2, <2>3
<1>3. n + 1 + 1 = n + 2
  OBVIOUS
<1>4. QED BY <1>2, <1>3 DEF Covers

\* A step of one fetch.
LEMMA FetchMoves ==
  ASSUME FetchInv, NEW f \in Fetches, NEW x \in FetchShape, fetch' = [fetch EXCEPT ![f] = x],
         Brought(x), x.at = "done" => Complete(f)' /\ InTimeOrder(f)'
  PROVE  FetchInv'
<1>1. fetch' \in [Fetches -> FetchShape] /\ fetch'[f] = x /\ \A g \in Fetches : g # f => fetch'[g] = fetch[g]
  BY DEF FetchInv
<1>2. \A g \in Fetches : Brought(fetch'[g])
  BY <1>1 DEF FetchInv
<1>3. ASSUME NEW g \in Fetches, Done(g)' PROVE Complete(g)' /\ InTimeOrder(g)'
  BY <1>1, <1>3 DEF FetchInv, Done, Complete, InTimeOrder
<1>4. QED BY <1>1, <1>2, <1>3 DEF FetchInv, Brought, Covers

LEMMA FetchStep ==
  ASSUME FetchInv, NEW f \in Fetches,
         \/ AskDump(f) \/ DumpArrives(f) \/ AskWindow(f) \/ WindowArrives(f) \/ WindowIsEmpty(f)
         \/ Finish(f) \/ RequestFails(f)
         \/ \E r \in Ranges : FetchCandles(f, r)
  PROVE  FetchInv'
<1>1. fetch[f] \in FetchShape /\ Brought(fetch[f]) /\ fetch \in [Fetches -> FetchShape]
  BY DEF FetchInv
<1>2. CASE AskDump(f)
  <2> DEFINE x == [fetch[f] EXCEPT !.at = "dump"]
  <2>1. x \in FetchShape /\ fetch' = [fetch EXCEPT ![f] = x] /\ x.at = "dump"
    BY <1>1, <1>2 DEF AskDump, Goes, FetchShape
  <2>2. Brought(x)
    BY <1>1, <1>2 DEF AskDump, Brought, FetchShape
  <2>3. QED BY <2>1, <2>2, FetchMoves
<1>3. CASE DumpArrives(f)
  <2> DEFINE x == [fetch[f] EXCEPT !.at = "window"]
  <2>1. x \in FetchShape /\ fetch' = [fetch EXCEPT ![f] = x] /\ x.at = "window"
    BY <1>1, <1>3 DEF DumpArrives, Goes, FetchShape
  <2>2. Brought(x)
    BY <1>1, <1>3, NothingYet DEF DumpArrives, Brought, FetchShape
  <2>3. QED BY <2>1, <2>2, FetchMoves
<1>4. CASE AskWindow(f)
  <2> DEFINE x == [fetch[f] EXCEPT !.at = "sent", !.window = fetch[f].window + 1]
  <2>1. x \in FetchShape /\ fetch' = [fetch EXCEPT ![f] = x] /\ x.at = "sent"
    <3>1. x \in FetchShape /\ x.at = "sent"
      <4>1. fetch[f].window + 1 \in Nat
        BY <1>1 DEF FetchShape
      <4> DEFINE k == fetch[f].window + 1
      <4> HIDE DEF k
      <4>2. [fetch[f] EXCEPT !.at = "sent", !.window = k] \in FetchShape
        BY <1>1, <4>1 DEF FetchShape, k
      <4>3. QED BY <1>1, <4>2 DEF FetchShape, k
    <3>2. fetch' = [fetch EXCEPT ![f].at = "sent", ![f].window = fetch[f].window + 1]
      BY <1>1, <1>4 DEF AskWindow
    <3>3. QED BY <1>1, <3>1, <3>2 DEF FetchShape
  <2>2. Brought(x)
    <3>1. x.window - 1 = fetch[f].window /\ x.window > 0 /\ x.range = fetch[f].range /\ x.bars = fetch[f].bars
      BY <1>1 DEF FetchShape
    <3>2. QED BY <1>1, <1>4, <2>1, <3>1 DEF AskWindow, Brought
  <2>3. QED BY <2>1, <2>2, FetchMoves
<1>5. CASE WindowArrives(f)
  <2> DEFINE r == fetch[f].range
             k == fetch[f].window
             n == k - 1
  <2>1. PICK rows \in Rows(WindowFrom(r, k), WindowTo(r, k)) :
          fetch' = [fetch EXCEPT ![f].at = "window", ![f].bars = fetch[f].bars \o rows]
    BY <1>1, <1>5 DEF WindowArrives
  <2>2. fetch[f].at = "sent"
    BY <1>5 DEF WindowArrives
  <2>3. r \in Ranges /\ k \in Nat /\ n \in Nat /\ n + 1 = k /\ fetch[f].bars \in Seq(AllBars) /\ Covers(fetch[f].bars, r, n, fetch[f].lacks)
    BY <1>1, <2>2 DEF Brought, FetchShape
  <2>4. fetch[f].bars \o rows \in Seq(AllBars) /\ Covers(fetch[f].bars \o rows, r, k, fetch[f].lacks)
    <3> HIDE DEF r, k, n
    <3> QED BY <2>1, <2>3, OneWindowMore
  <2> DEFINE x == [fetch[f] EXCEPT !.at = "window", !.bars = fetch[f].bars \o rows]
  <2>5. x \in FetchShape /\ fetch' = [fetch EXCEPT ![f] = x] /\ x.at = "window"
        /\ x.range = r /\ x.window = k /\ x.bars = fetch[f].bars \o rows /\ x.lacks = fetch[f].lacks
    BY <1>1, <2>1, <2>4 DEF FetchShape
  <2>6. Brought(x)
    BY <2>3, <2>4, <2>5 DEF Brought
  <2>7. QED BY <2>5, <2>6, FetchMoves
<1>6. CASE Finish(f)
  <2> DEFINE r == fetch[f].range
             s == fetch[f].bars
             x == [fetch[f] EXCEPT !.at = "done", !.bars = Ascending(s)]
  <2>1. /\ fetch[f].at = "window" /\ fetch[f].window = Windows(r) /\ r \in Ranges
        /\ s \in Seq(AllBars) /\ Covers(s, r, Windows(r), fetch[f].lacks)
    BY <1>1, <1>6 DEF Finish, Brought, FetchShape
  <2>2. AllBars \subseteq 0 .. Lengthy /\ Lengthy \in Nat
    BY HistoryAssumption DEF AllBars
  <2>3. s \in Seq(0 .. Lengthy)
    <3> HIDE DEF s
    <3>1. \A i \in DOMAIN s : s[i] \in 0 .. Lengthy
      <4>1. \A i \in DOMAIN s : s[i] \in AllBars
        BY <2>1
      <4>2. QED BY <2>2, <4>1
    <3>2. QED BY <2>1, <3>1, Widen
  <2>4. /\ Ascending(s) \in Seq(0 .. Lengthy) /\ ToSet(Ascending(s)) = ToSet(s)
        /\ \A i \in 2 .. Len(Ascending(s)) : Ascending(s)[i - 1] <= Ascending(s)[i]
    BY <2>2, <2>3, AscendingSorts
  <2>5. Ascending(s) \in Seq(AllBars)
    <3>1. \A i \in DOMAIN Ascending(s) : Ascending(s)[i] \in AllBars
      <4>1. \A b \in ToSet(s) : b \in AllBars
        <5> HIDE DEF s
        <5> QED BY <2>1 DEF ToSet
      <4> HIDE DEF s
      <4>2. QED BY <2>4, <4>1 DEF ToSet
    <3>2. QED BY <2>4, <3>1
  <2>6. x \in FetchShape /\ fetch' = [fetch EXCEPT ![f] = x] /\ fetch'[f] = x
        /\ x.at = "done" /\ x.range = r /\ x.bars = Ascending(s) /\ x.lacks = fetch[f].lacks
    BY <1>1, <1>6, <2>5 DEF Finish, FetchShape
  <2>7. Brought(x)
    BY <2>1, <2>6 DEF Brought
  <2>8. InTimeOrder(f)'
    BY <2>4, <2>6 DEF InTimeOrder
  <2>9. Complete(f)'
    <3>1. \A b \in BarsIn(r.from, r.to) : b < WindowFrom(r, Windows(r) + 1)
      <4>1. r.to \in Nat /\ WindowFrom(r, Windows(r) + 1) \in Nat /\ WindowFrom(r, Windows(r) + 1) > r.to
        BY <2>1, WindowsReach
      <4>2. \A b \in BarsIn(r.from, r.to) : b \in Nat /\ b <= r.to
        BY BarsAreWhole DEF BarsIn
      <4> HIDE DEF r
      <4>3. QED BY <4>1, <4>2
    <3>2. /\ \A b \in BarsIn(r.from, r.to) : b \in ToSet(s) \/ Lacked(r, fetch[f].lacks, b)
          /\ ToSet(s) \subseteq BarsIn(KiteTime(r.from), r.to)
      BY <2>1, <3>1 DEF Covers
    <3>3. QED BY <2>4, <2>6, <3>2 DEF Complete
  <2>10. QED BY <2>6, <2>7, <2>8, <2>9, FetchMoves
<1>7. CASE RequestFails(f)
  <2>1. Unasked \in FetchShape /\ Brought(Unasked) /\ Unasked.at = "idle"
    BY DEF Unasked, FetchShape, Brought
  <2>2. QED BY <1>7, <2>1, FetchMoves DEF RequestFails
<1>8. ASSUME NEW r \in Ranges, FetchCandles(f, r) PROVE FetchInv'
  <2>1. PICK at \in {"window", "instruments"} :
          fetch' = [fetch EXCEPT ![f] = [Unasked EXCEPT !.at = at, !.range = r]]
    BY <1>8 DEF FetchCandles
  <2> DEFINE x == [Unasked EXCEPT !.at = at, !.range = r]
  <2>2. x \in FetchShape /\ x.at = at /\ x.range = r /\ x.window = 0 /\ x.bars = <<>>
    <3>1. r \in [from : Nat, to : Nat]
      BY HistoryAssumption
    <3>2. <<>> \in Seq(AllBars)
      OBVIOUS
    <3>3. QED BY <3>1, <3>2 DEF Unasked, FetchShape
  <2>3. Brought(x)
    BY <2>2, NothingYet DEF Brought
  <2>4. QED BY <2>1, <2>2, <2>3, FetchMoves
<1>9. CASE WindowIsEmpty(f)
  <2> DEFINE r == fetch[f].range
             k == fetch[f].window
             n == k - 1
             x == [fetch[f] EXCEPT !.at = "window", !.lacks = fetch[f].lacks \cup {k}]
  <2>1. fetch[f].at = "sent" /\ fetch' = [fetch EXCEPT ![f].at = "window", ![f].lacks = fetch[f].lacks \cup {k}]
    BY <1>1, <1>9 DEF WindowIsEmpty
  <2>2. r \in Ranges /\ k \in Nat /\ n \in Nat /\ n + 1 = k /\ Covers(fetch[f].bars, r, n, fetch[f].lacks)
    BY <1>1, <2>1 DEF Brought, FetchShape
  <2>3. Covers(fetch[f].bars, r, k, fetch[f].lacks \cup {k})
    <3> HIDE DEF r, k, n
    <3> QED BY <2>2, OneWindowLess
  <2>4. x \in FetchShape /\ fetch' = [fetch EXCEPT ![f] = x] /\ x.at = "window"
        /\ x.range = r /\ x.window = k /\ x.bars = fetch[f].bars /\ x.lacks = fetch[f].lacks \cup {k}
    BY <1>1, <2>1, <2>2 DEF FetchShape
  <2>5. Brought(x)
    BY <2>2, <2>3, <2>4 DEF Brought
  <2>6. QED BY <2>4, <2>5, FetchMoves
<1>10. QED BY <1>2, <1>3, <1>4, <1>5, <1>6, <1>7, <1>8, <1>9

LEMMA HistoryStep == HistoryInv /\ [HistoryNext]_historyVars => HistoryInv'
<1> SUFFICES ASSUME HistoryInv, [HistoryNext]_historyVars PROVE HistoryInv'
  OBVIOUS
<1>1. ASSUME UNCHANGED fetch PROVE FetchInv'
  BY <1>1 DEF HistoryInv, FetchInv, Brought, Covers, Done, Complete, InTimeOrder
<1>2. ASSUME UNCHANGED <<bucket, sentAt>>, time' \in Nat, time' >= time PROVE BucketInv'
  BY <1>2 DEF HistoryInv, BucketInv, BucketType, Backed, Spaced
<1>3. time \in Nat /\ bucket.filled \in Nat
  BY DEF HistoryInv, BucketInv, BucketType
<1>4. CASE Waits
  BY <1>1, <1>2, <1>3, <1>4 DEF Waits, HistoryInv
<1>5. ASSUME NEW f \in Fetches,
             \/ AskDump(f) \/ DumpArrives(f) \/ AskWindow(f) \/ WindowArrives(f) \/ WindowIsEmpty(f)
             \/ Finish(f) \/ RequestFails(f)
             \/ \E r \in Ranges : FetchCandles(f, r)
      PROVE  HistoryInv'
  <2>1. FetchInv'
    BY <1>5, FetchStep DEF HistoryInv
  <2>2. CASE AskDump(f) \/ AskWindow(f)
    BY <2>1, <2>2, AcquireKeeps DEF AskDump, AskWindow, HistoryInv
  <2>3. CASE UNCHANGED <<bucket, time, sentAt>>
    BY <1>2, <1>3, <2>1, <2>3 DEF HistoryInv
  <2>4. QED BY <1>5, <2>2, <2>3 DEF DumpArrives, WindowArrives, WindowIsEmpty, Finish, RequestFails, FetchCandles
<1>6. CASE UNCHANGED historyVars
  BY <1>1, <1>2, <1>3, <1>6 DEF historyVars, HistoryInv
<1>7. QED BY <1>4, <1>5, <1>6 DEF HistoryNext

\* A fetch that succeeds has brought in order every bar of its range, but for windows
\* that were answered without data, for any range and size of window; and no second
\* saw more requests than two buckets.
THEOREM HistoryIsComplete == HistorySpec => []HistoryIsWhole
<1>1. HistoryInit => HistoryInv
  <2> SUFFICES ASSUME HistoryInit PROVE HistoryInv
    OBVIOUS
  <2>1. FetchInv
    BY DEF HistoryInit, FetchInv, FetchShape, Unasked, Brought, Done
  <2>2. PerSecond * Second \in Nat
    BY HistoryAssumption
  <2>3. BucketInv
    BY <2>2 DEF HistoryInit, BucketInv, BucketType, Backed, Spaced, Bucket
  <2>4. QED BY <2>1, <2>3 DEF HistoryInv
<1>2. HistoryInv => HistoryIsWhole
  BY SpacedIsPaced DEF HistoryInv, FetchInv, HistoryIsWhole
<1>3. QED BY <1>1, <1>2, HistoryStep, PTL DEF HistorySpec
=============================================================================
