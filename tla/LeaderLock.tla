------------------------------ MODULE LeaderLock ------------------------------
(***************************************************************************)
(* Which process may trade: the advisory lock of                           *)
(* src/persistence/leaderLock.ts under the processes of src/main.ts, their *)
(* trading loop (src/runtime/runner.ts) and their shutdown.                *)
(*                                                                         *)
(* Postgres gives the lock to a session and takes it back when the session *)
(* ends.  A process knows its sessions as pooled connections, and learns   *)
(* of the end of one later than the server does, when the socket reports   *)
(* it or a heartbeat fails; in between it believes what is no longer so.   *)
(* An action is the code between two awaits, or a step of the server.      *)
(***************************************************************************)
EXTENDS Integers, FiniteSets

CONSTANTS
  Processes,  \* instances of the service
  Slots,      \* connections a process's pool may open
  NoSession,  \* "no connection"
  MaxAttempts,\* bound: attempts of one process in flight; the timer sets none
  MaxLosses,  \* bound: connections dropped, and queries failed without cause
  MaxSignals  \* bound: shutdowns and crashes

Sessions == Processes \X Slots
Owner(c) == c[1]

ASSUME NoSessionAssumption == NoSession \notin Sessions
ASSUME BoundsAssumption    == MaxLosses \in Nat /\ MaxSignals \in Nat /\ MaxAttempts \in Nat

VARIABLES
  lock,     \* server: the session that holds the advisory lock
  conn,     \* session -> what its owner uses it for, and whether the server has it
  phase,    \* process -> how far its main() has come
  held,     \* process -> LeaderLock.held, what isLeader answers
  client,   \* process -> LeaderLock.client
  retry,    \* process -> how many retry timers are running
  tick,     \* process -> the tick in flight
  losses, signals,
  timedOut  \* some drain gave up on a tick

vars    == <<lock, conn, phase, held, client, retry, tick, losses, signals, timedOut>>
belief  == <<held, client, retry>>
history == <<losses, signals, timedOut>>

Uses   == {"free", "pooled", "asking", "granted", "denied", "lock", "unlocking",
           "leaked", "closing"}
\* Checked out of the pool without a listener for the connection's errors.
Unheard    == {"asking", "granted", "denied", "unlocking"}
CheckedOut == Unheard \cup {"lock", "leaked"}
Phases == {"down", "booting", "starting", "live", "draining", "closing"}

TypeOK ==
  /\ lock \in Sessions \cup {NoSession}
  /\ conn \in [Sessions -> [use : Uses, alive : BOOLEAN]]
  /\ phase \in [Processes -> Phases]
  /\ held \in [Processes -> BOOLEAN] /\ retry \in [Processes -> 0..1]
  /\ client \in [Processes -> Sessions \cup {NoSession}]
  /\ tick \in [Processes -> {"idle", "working", "sending"}]
  /\ losses \in 0..MaxLosses /\ signals \in 0..MaxSignals /\ timedOut \in BOOLEAN

Unopened == [use |-> "free", alive |-> FALSE]

Init ==
  /\ lock = NoSession
  /\ conn = [c \in Sessions |-> Unopened]
  /\ phase = [p \in Processes |-> "down"]
  /\ held = [p \in Processes |-> FALSE] /\ retry = [p \in Processes |-> 0]
  /\ client = [p \in Processes |-> NoSession]
  /\ tick = [p \in Processes |-> "idle"]
  /\ losses = 0 /\ signals = 0 /\ timedOut = FALSE

Use(c, use)   == [conn EXCEPT ![c].use = use]
\* The server takes the lock back with the session that had it.
Freed(c)      == IF lock = c THEN NoSession ELSE lock
\* release() has been called.
Stopped(p)    == phase[p] = "closing"
\* Ends a session from the client's side; the server follows when it hears of it.
Destroyed(cn) == IF cn.alive THEN [cn EXCEPT !.use = "closing"] ELSE Unopened

-----------------------------------------------------------------------------
(* tryAcquire                                                              *)

\* pool.connect() and the query, on a new connection or one from the pool.
Ask(c) ==
  /\ conn[c].use = "free" \/ (conn[c].use = "pooled" /\ conn[c].alive)
  /\ conn' = [conn EXCEPT ![c] = [use |-> "asking", alive |-> TRUE]]

Start(p) ==
  /\ phase[p] = "down"
  /\ phase' = [phase EXCEPT ![p] = "booting"]
  /\ \E s \in Slots : Ask(<<p, s>>)
  /\ UNCHANGED <<lock, belief, tick, history>>

InFlight(p) == {s \in Slots : conn[<<p, s>>].use \in {"asking", "granted", "denied"}}
RetryFires(p) ==
  /\ retry[p] > 0 /\ ~held[p] /\ ~Stopped(p)
  /\ Cardinality(InFlight(p)) < MaxAttempts
  /\ \E s \in Slots : Ask(<<p, s>>)
  /\ UNCHANGED <<lock, phase, belief, tick, history>>

ServerAnswers(c) ==
  /\ conn[c].use = "asking" /\ conn[c].alive
  /\ \/ lock = NoSession /\ lock' = c /\ conn' = Use(c, "granted")
     \/ lock # NoSession /\ lock' = lock /\ conn' = Use(c, "denied")
  /\ UNCHANGED <<phase, belief, tick, history>>

\* The boot attempt is awaited by main(), a retry by nobody.
Booted(p) == IF phase[p] = "booting" THEN [phase EXCEPT ![p] = "starting"] ELSE phase

\* Nothing is looked at again: not `held', not `stopped', not `client'.
IgnoreAnswer(c) == conn[c].use \in {"granted", "denied"}  \* mutant: rows[0].locked not looked at
Granted(c) == conn[c].use = "granted"
Acquired(c) ==
  /\ Granted(c)
  /\ conn' = Use(c, "lock")
  /\ held' = [held EXCEPT ![Owner(c)] = TRUE]
  /\ client' = [client EXCEPT ![Owner(c)] = c]
  /\ retry' = [retry EXCEPT ![Owner(c)] = 0]
  /\ phase' = Booted(Owner(c))
  /\ UNCHANGED <<lock, tick, history>>

GivesUp(p)     == retry                  \* mutant: one attempt only
SecondTimer(p) == [retry EXCEPT ![p] = IF Stopped(p) THEN @ ELSE @ + 1]  \* mutant: no guard
StartRetry(p)  == [retry EXCEPT ![p] = IF Stopped(p) THEN @ ELSE 1]
Refused(c) ==
  /\ conn[c].use = "denied"
  /\ conn' = Use(c, "pooled")
  /\ retry' = StartRetry(Owner(c))
  /\ phase' = Booted(Owner(c))
  /\ UNCHANGED <<lock, held, client, tick, history>>

\* The query fails on a connection that is up.  In main() that is fatal, see Die.
AttemptThrows(c) ==
  /\ losses < MaxLosses /\ losses' = losses + 1
  /\ conn[c].use = "asking" /\ conn[c].alive /\ phase[Owner(c)] # "booting"
  /\ conn' = Use(c, "pooled")
  /\ UNCHANGED <<lock, phase, belief, tick, signals, timedOut>>

-----------------------------------------------------------------------------
(* Losing the lock.                                                        *)

\* lose(): `cs' is conn, or conn with what else the event changed.
ReturnedToPool(cn) == [cn EXCEPT !.use = "pooled"]   \* mutant: release() for release(true)
DestroyClient(cn)  == Destroyed(cn)
Lose(p, cs) ==
  IF held[p]
  THEN /\ conn' = [cs EXCEPT ![client[p]] = DestroyClient(@)]
       /\ held' = [held EXCEPT ![p] = FALSE]
       /\ client' = [client EXCEPT ![p] = NoSession]
       /\ retry' = StartRetry(p)
  ELSE conn' = cs /\ UNCHANGED belief

\* The server ends a session: failover, maintenance, an operator, the network.
ServerDrops(c) ==
  /\ losses < MaxLosses /\ losses' = losses + 1
  /\ conn[c].alive
  /\ conn' = [conn EXCEPT ![c].alive = FALSE]
  /\ lock' = Freed(c)
  /\ UNCHANGED <<phase, belief, tick, signals, timedOut>>

ServerCloses(c) ==
  /\ conn[c].use = "closing"
  /\ conn' = [conn EXCEPT ![c] = Unopened]
  /\ lock' = Freed(c)
  /\ UNCHANGED <<phase, belief, tick, history>>

\* The error event of a connection that has held the lock.  One that is no
\* longer the client, another attempt having replaced it, is never released.
ErrorEvent(c) ==
  /\ conn[c].use = "lock" /\ ~conn[c].alive
  /\ Lose(Owner(c), IF client[Owner(c)] = c THEN conn ELSE Use(c, "leaked"))
  /\ UNCHANGED <<lock, phase, tick, history>>

\* The pool listens to its idle connections and discards the dead ones.
PoolDiscards(c) ==
  /\ conn[c].use = "pooled" /\ ~conn[c].alive
  /\ conn' = [conn EXCEPT ![c] = Unopened]
  /\ UNCHANGED <<lock, phase, belief, tick, history>>

\* A check still in flight when the client is replaced, and a query error on
\* a connection that is up, lose a lock that is held.
AlwaysHeld(p)     == TRUE                \* mutant: the pg_locks row is matched too widely
HeartbeatHears(p) == conn[client[p]].alive /\ lock = client[p]
Heartbeat(p) ==
  /\ client[p] # NoSession /\ ~HeartbeatHears(p)
  /\ Lose(p, conn)
  /\ UNCHANGED <<lock, phase, tick, history>>
HeartbeatFails(p) ==
  /\ losses < MaxLosses /\ losses' = losses + 1
  /\ client[p] # NoSession
  /\ Lose(p, conn)
  /\ UNCHANGED <<lock, phase, tick, signals, timedOut>>

-----------------------------------------------------------------------------
(* The process: boot, the loop, shutdown.                                  *)

\* service.start() is done and the loop starts, whoever is leader.
Ready(p) ==
  /\ phase[p] = "starting"
  /\ phase' = [phase EXCEPT ![p] = "live"]
  /\ UNCHANGED <<lock, conn, belief, tick, history>>

\* canTrade is asked once, when a tick starts.
TickStarts(p) ==
  /\ phase[p] = "live" /\ tick[p] = "idle" /\ held[p]
  /\ tick' = [tick EXCEPT ![p] = "working"]
  /\ UNCHANGED <<lock, conn, phase, belief, history>>
TickSends(p) ==
  /\ tick[p] = "working"
  /\ tick' = [tick EXCEPT ![p] = "sending"]
  /\ UNCHANGED <<lock, conn, phase, belief, history>>
TickProceeds(p) ==
  /\ \/ tick[p] = "sending" /\ tick' = [tick EXCEPT ![p] = "working"]
     \/ tick[p] = "working" /\ tick' = [tick EXCEPT ![p] = "idle"]
  /\ UNCHANGED <<lock, conn, phase, belief, history>>

Shutdown(p) ==
  /\ signals < MaxSignals /\ signals' = signals + 1
  /\ phase[p] = "live"
  /\ phase' = [phase EXCEPT ![p] = "draining"]
  /\ UNCHANGED <<lock, conn, belief, tick, losses, timedOut>>

\* release(): what happens up to the unlock query.
Release(p) ==
  /\ phase' = [phase EXCEPT ![p] = "closing"]
  /\ conn' = IF client[p] = NoSession THEN conn ELSE Use(client[p], "unlocking")
  /\ held' = [held EXCEPT ![p] = FALSE]
  /\ client' = [client EXCEPT ![p] = NoSession]
  /\ retry' = [retry EXCEPT ![p] = 0]

NotAwaited(p) == TRUE                    \* mutant: the tick in flight is not waited for
Quiet(p)      == tick[p] = "idle"
Drained(p) ==
  /\ phase[p] = "draining" /\ Quiet(p)
  /\ Release(p)
  /\ UNCHANGED <<lock, tick, history>>
DrainTimesOut(p) ==
  /\ phase[p] = "draining" /\ tick[p] # "idle"
  /\ timedOut' = TRUE
  /\ Release(p)
  /\ UNCHANGED <<lock, tick, losses, signals>>

Unlocked(c) ==
  /\ conn[c].use = "unlocking" /\ conn[c].alive
  /\ \/ lock' = Freed(c) /\ conn' = Use(c, "pooled")
     \/ lock' = lock /\ conn' = Use(c, "closing")
  /\ UNCHANGED <<phase, belief, tick, history>>

\* The process is gone; its sockets are closed behind it.
Gone(p) ==
  /\ phase' = [phase EXCEPT ![p] = "down"]
  /\ conn' = [c \in Sessions |-> IF Owner(c) = p THEN Destroyed(conn[c]) ELSE conn[c]]
  /\ held' = [held EXCEPT ![p] = FALSE]
  /\ client' = [client EXCEPT ![p] = NoSession]
  /\ retry' = [retry EXCEPT ![p] = 0]
  /\ tick' = [tick EXCEPT ![p] = "idle"]

\* pool.end() waits for every connection that is checked out; exit follows.
Exit(p) ==
  /\ phase[p] = "closing"
  /\ \A s \in Slots : conn[<<p, s>>].use \notin CheckedOut
  /\ Gone(p)
  /\ UNCHANGED <<lock, history>>

Die(p) ==
  /\ signals < MaxSignals /\ signals' = signals + 1
  /\ phase[p] # "down"
  /\ Gone(p)
  /\ UNCHANGED <<lock, losses, timedOut>>

\* The orchestrator kills what does not exit in its grace period.
Killed(p) ==
  /\ phase[p] = "closing"
  /\ Gone(p)
  /\ UNCHANGED <<lock, history>>

\* "A checked-out client with no listener of its own emits an unhandled
\* 'error'", which "kills the whole process".
UnheardError(c) ==
  /\ conn[c].use \in Unheard /\ ~conn[c].alive
  /\ Gone(Owner(c))
  /\ UNCHANGED <<lock, history>>

-----------------------------------------------------------------------------
Attempt(c)  == Acquired(c) \/ Refused(c)
Ending(c)   == ServerCloses(c) \/ Unlocked(c) \/ PoolDiscards(c) \/ UnheardError(c)
OfSession(c) == \/ ServerAnswers(c) \/ Attempt(c) \/ AttemptThrows(c)
                \/ ServerDrops(c) \/ ErrorEvent(c) \/ Ending(c)
OfProcess(p) == \/ Start(p) \/ RetryFires(p) \/ Heartbeat(p) \/ HeartbeatFails(p) \/ Ready(p)
                \/ TickStarts(p) \/ TickSends(p) \/ TickProceeds(p)
                \/ Shutdown(p) \/ Drained(p) \/ DrainTimesOut(p)
                \/ Exit(p) \/ Die(p) \/ Killed(p)
Next == (\E c \in Sessions : OfSession(c)) \/ (\E p \in Processes : OfProcess(p))

Spec == Init /\ [][Next]_vars

\* Timers fire, the server answers, sockets report their end in time, ticks
\* are bounded by the timeouts of what they call, a drain by its own, and a process that is gone
\* is started again.  Nothing makes a socket report promptly: the error event
\* of the lock's connection may never come, the heartbeat's failure does.
FairSpec ==
  /\ Spec
  /\ \A c \in Sessions : /\ WF_vars(ServerAnswers(c)) /\ WF_vars(Attempt(c))
                         /\ WF_vars(Ending(c))
  /\ \A p \in Processes : /\ WF_vars(Start(p)) /\ WF_vars(RetryFires(p))
                          /\ WF_vars(Heartbeat(p)) /\ WF_vars(Ready(p))
                          /\ WF_vars(TickProceeds(p))
                          /\ WF_vars(Drained(p) \/ DrainTimesOut(p))
                          /\ WF_vars(Exit(p)) /\ WF_vars(Killed(p))

-----------------------------------------------------------------------------
(* Properties                                                              *)

\* What a process believes has a ground: the session it calls its own holds
\* the lock, or has ended and the news is on its way.
BeliefIsGrounded ==
  \A p \in Processes : held[p] =>
    /\ client[p] # NoSession
    /\ lock = client[p] \/ ~conn[client[p]].alive

\* Of two processes that believe they lead, one at most has a session left.
OneLiveLeader ==
  \A p, q \in Processes :
    held[p] /\ held[q] /\ conn[client[p]].alive /\ conn[client[q]].alive => p = q

\* The lock is never left with a connection nobody watches, from which no
\* process could win it: not in a pool, not with a client that was replaced.
LockIsWatched ==
  lock # NoSession =>
    \/ conn[lock].use \in {"granted", "unlocking", "closing"}
    \/ conn[lock].use = "lock" /\ client[Owner(lock)] = lock

\* A rolling deploy never has two loops at work: when no connection was lost
\* and every drain came to its end, ticks of two processes do not overlap.
HandOverIsClean ==
  losses = 0 /\ ~timedOut =>
    \A p, q \in Processes : tick[p] # "idle" /\ tick[q] # "idle" => p = q

\* A leader whose session has ended stands down, even when no error event comes.
LossIsNoticed ==
  \A p \in Processes :
    held[p] /\ ~conn[client[p]].alive ~> ~held[p] \/ conn[client[p]].alive

\* When deploys, crashes and dropped connections are over, some process trades.
SomebodyLeads == <>[](\E p \in Processes : phase[p] = "live" /\ held[p])

\* "The loop must go quiet the moment it is no longer the single writer": no
\* order is sent by a process that knows it does not lead.
QuietWhenLost ==
  [][\A p \in Processes : tick[p] = "working" /\ tick'[p] = "sending" => held[p]]_vars

\* release() is "terminal": a process on its way out never leads again.
StoppedNeverLeads == \A p \in Processes : Stopped(p) => ~held[p]
=============================================================================
