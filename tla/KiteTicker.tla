------------------------------ MODULE KiteTicker ------------------------------
(***************************************************************************)
(* The streaming connection to Kite (src/marketdata/kiteTicker.ts): one    *)
(* socket, the backoff timer that replaces it, and the watchdog that       *)
(* notices an open socket which delivers nothing.  An action is one        *)
(* callback of the event loop: a socket event, a timer, or a call of       *)
(* start(), stop() and subscribe().  The length of the backoff and the     *)
(* contents of the frames are left out (TickerFrame reads frames).         *)
(***************************************************************************)
EXTENDS Integers, FiniteSets

CONSTANTS
  Sockets,     \* identities of sockets; reused once a socket is gone
  NoSocket,    \* this.socket is null
  Instruments, \* instrument tokens
  MaxTrouble   \* bound: sockets that fail or fall silent, and logouts

ASSUME SocketsAssumption == NoSocket \notin Sockets
ASSUME TroubleAssumption == MaxTrouble \in Nat

VARIABLES
  running,   \* start() was called, and stop() was not called since
  socket,    \* this.socket
  sockets,   \* what became of each socket, and who listens to it
  retry,     \* reconnectTimer is set
  connected, \* the socket reported "open"
  watchdog,  \* the watchdog interval is set
  tokens,    \* the subscription: the set that is re-sent in full
  loggedIn,  \* KiteSession has a current token
  trouble

tickerVars == <<running, socket, sockets, retry, connected, watchdog, tokens, loggedIn, trouble>>

\* "hung": the handshake got no answer and never will.  "failed": the connection
\* is over, its events may still be under way.  "closing": stop() asked the other
\* end to close, which nobody waits for.
Up           == {"opening", "hung", "open", "silent"}
SocketStates == Up \cup {"none", "failed", "closing"}
Socket       == [state : SocketStates, heard : BOOLEAN, told : SUBSET Instruments]
Unused       == [state |-> "none", heard |-> FALSE, told |-> {}]
Opening      == [state |-> "opening", heard |-> TRUE, told |-> {}]

TickerTypeOK ==
  /\ running \in BOOLEAN /\ retry \in BOOLEAN /\ connected \in BOOLEAN
  /\ watchdog \in BOOLEAN /\ loggedIn \in BOOLEAN
  /\ socket \in Sockets \cup {NoSocket} /\ sockets \in [Sockets -> Socket]
  /\ tokens \subseteq Instruments /\ trouble \in 0..MaxTrouble

TickerInit ==
  /\ running = FALSE /\ socket = NoSocket /\ sockets = [s \in Sockets |-> Unused]
  /\ retry = FALSE /\ connected = FALSE /\ watchdog = FALSE
  /\ tokens = {} /\ loggedIn \in BOOLEAN /\ trouble = 0

-----------------------------------------------------------------------------
\* A socket is let go of: its listeners are removed and it is terminated.
KeptListening(r) == [r EXCEPT !.state = "failed"]   \* mutant: its listeners stay
Dropped(r) == [r EXCEPT !.state = "failed", !.heard = FALSE]
LetGo      == IF socket = NoSocket THEN sockets
                                   ELSE [sockets EXCEPT ![socket] = Dropped(@)]

\* stop() closes where onDisconnect() terminates: a socket that is open lingers.
Closed(r)  == [r EXCEPT !.state = IF @ \in {"open", "silent"} THEN "closing" ELSE "failed", !.heard = FALSE]
Closing    == IF socket = NoSocket THEN sockets
                                   ELSE [sockets EXCEPT ![socket] = Closed(@)]

\* open(): without a token url() throws, and the backoff timer is set again.
Open ==
  IF loggedIn
  THEN \E s \in Sockets : /\ sockets[s] = Unused
                          /\ socket' = s /\ sockets' = [sockets EXCEPT ![s] = Opening]
                          /\ retry' = FALSE
  ELSE retry' = TRUE /\ UNCHANGED <<socket, sockets>>

StartTicker ==
  /\ running' = TRUE
  /\ IF running THEN UNCHANGED <<socket, sockets, retry>> ELSE Open
  /\ UNCHANGED <<connected, watchdog, tokens, loggedIn, trouble>>

StopTicker ==
  /\ running' = FALSE /\ retry' = FALSE /\ watchdog' = FALSE /\ connected' = FALSE
  /\ socket' = NoSocket /\ sockets' = Closing
  /\ UNCHANGED <<tokens, loggedIn, trouble>>

\* The set is the source of truth; it is sent now if there is a connection.
Subscribe(i) ==
  /\ tokens' = tokens \cup {i}
  /\ sockets' = IF connected /\ socket # NoSocket
                THEN [sockets EXCEPT ![socket].told = @ \cup {i}] ELSE sockets
  /\ UNCHANGED <<running, socket, retry, connected, watchdog, loggedIn, trouble>>

RetryFires ==
  /\ retry
  /\ IF running THEN Open ELSE retry' = FALSE /\ UNCHANGED <<socket, sockets>>
  /\ UNCHANGED <<running, connected, watchdog, tokens, loggedIn, trouble>>

\* The listener of "open" re-sends the whole subscription.
Resubscribed == tokens
SocketOpens(s) ==
  /\ sockets[s].state = "opening" /\ sockets[s].heard
  /\ connected' = TRUE /\ watchdog' = TRUE
  /\ sockets' = [sockets EXCEPT ![s].state = "open", ![s].told = Resubscribed]
  /\ UNCHANGED <<running, socket, retry, tokens, loggedIn, trouble>>

\* scheduleReconnect(): one timer at most, and only while running.
NotRescheduled == retry   \* mutant: no timer is set
Rescheduled == retry \/ running

\* onDisconnect(), whoever calls it.
OnDisconnect ==
  /\ socket' = NoSocket /\ sockets' = LetGo /\ watchdog' = FALSE
  /\ IF ~connected /\ retry
     THEN UNCHANGED <<connected, retry>>
     ELSE connected' = FALSE /\ retry' = Rescheduled
  /\ UNCHANGED <<running, tokens, loggedIn, trouble>>

\* "close" or "error": whichever comes first; the other finds no listener.
SocketEnds(s)  == sockets[s].state = "failed" /\ sockets[s].heard /\ OnDisconnect
WatchdogMissesSilence ==   \* mutant: looks at the socket, not at its frames
  /\ watchdog /\ socket # NoSocket /\ sockets[socket].state = "failed"
  /\ OnDisconnect
WatchdogFires  ==
  /\ watchdog /\ socket # NoSocket
  /\ sockets[socket].state \in {"silent", "failed"}
  /\ OnDisconnect

-----------------------------------------------------------------------------
\* The other end, and the sockets nobody listens to.
Trouble == trouble < MaxTrouble /\ trouble' = trouble + 1
Fails(s) ==
  /\ sockets[s].state \in Up /\ Trouble
  /\ sockets' = [sockets EXCEPT ![s].state = "failed"]
  /\ UNCHANGED <<running, socket, retry, connected, watchdog, tokens, loggedIn>>
Hangs(s) ==
  /\ sockets[s].state = "opening" /\ Trouble
  /\ sockets' = [sockets EXCEPT ![s].state = "hung"]
  /\ UNCHANGED <<running, socket, retry, connected, watchdog, tokens, loggedIn>>
FallsSilent(s) ==
  /\ sockets[s].state = "open" /\ Trouble
  /\ sockets' = [sockets EXCEPT ![s].state = "silent"]
  /\ UNCHANGED <<running, socket, retry, connected, watchdog, tokens, loggedIn>>
Gone(s) ==
  /\ sockets[s].state \in {"failed", "closing"} /\ ~sockets[s].heard
  /\ sockets' = [sockets EXCEPT ![s] = Unused]
  /\ UNCHANGED <<running, socket, retry, connected, watchdog, tokens, loggedIn, trouble>>
\* A token expires or is supplied; an open connection does not notice.
LogIn  == /\ ~loggedIn /\ loggedIn' = TRUE
          /\ UNCHANGED <<running, socket, sockets, retry, connected, watchdog, tokens, trouble>>
LogOut == /\ loggedIn /\ Trouble /\ loggedIn' = FALSE
          /\ UNCHANGED <<running, socket, sockets, retry, connected, watchdog, tokens>>

\* What happens by itself; start() and stop() belong to whoever uses it.
TickerStep ==
  \/ RetryFires \/ WatchdogFires \/ LogIn \/ LogOut
  \/ \E s \in Sockets : SocketOpens(s) \/ SocketEnds(s) \/ Fails(s) \/ Hangs(s) \/ FallsSilent(s) \/ Gone(s)
  \/ \E i \in Instruments : Subscribe(i)

TickerNext == StartTicker \/ StopTicker \/ TickerStep
TickerSpec == TickerInit /\ [][TickerNext]_tickerVars

\* Timers fire, an operator logs in; a handshake that does not hang is answered,
\* and what has failed is reported.  Nothing ends a handshake that hangs.
TickerFairness ==
  /\ WF_tickerVars(RetryFires) /\ WF_tickerVars(WatchdogFires) /\ WF_tickerVars(LogIn)
  /\ \A s \in Sockets : WF_tickerVars(SocketOpens(s)) /\ WF_tickerVars(SocketEnds(s))
                        /\ WF_tickerVars(Gone(s))

-----------------------------------------------------------------------------
(* Properties                                                              *)

\* A running ticker has a socket or is going to get one, never both and
\* never neither; a stopped one leaves nothing behind that starts it again.
OneWayBack ==
  /\ running => (socket # NoSocket) # retry
  /\ ~running => socket = NoSocket /\ ~retry /\ ~connected
  /\ watchdog => connected

\* "Kite caps concurrent ticker connections": no connection but the current
\* one is alive or listened to, apart from one that stop() is closing.
OneConnection ==
  \A s \in Sockets : sockets[s].heard \/ sockets[s].state \in Up => s = socket

\* "A subscription can never be left behind by a connection drop."
Subscribed ==
  connected => socket # NoSocket /\ (sockets[socket].state = "open"
                                     => sockets[socket].told = tokens)

\* An open socket that stopped delivering is replaced too.
Watched == connected => watchdog

OneStream == OneWayBack /\ OneConnection /\ Subscribed /\ Watched

\* A connection that delivers is dropped by stop() only: nothing that happens
\* to an earlier socket takes it down.
Delivering == connected /\ socket # NoSocket /\ sockets[socket].state = "open"
KeepsWhatWorks ==
  [][Delivering /\ running' => socket' = socket /\ connected']_tickerVars

\* Quotes stream again, whatever failed, until somebody stops the ticker or a
\* handshake hangs: connect has no timeout and the watchdog starts at "open"
\* (kiteTicker.ts open, startWatchdog), so nothing notices that.
Hanging == socket # NoSocket /\ sockets[socket].state = "hung"
StreamsAgain == running ~> (Delivering \/ Hanging \/ ~running)
=============================================================================
