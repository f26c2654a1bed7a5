--------------------------- MODULE LeaderLockProofs ---------------------------
(***************************************************************************)
(* Theorems about LeaderLock for every number of processes, connections,   *)
(* attempts in flight and failures: a process that believes it leads holds *)
(* the lock or has lost its session, so that two of them never both have   *)
(* one.  The argument is Grounded: a session whose owner thinks it was     *)
(* given the lock has it for as long as it lives, and the client of a      *)
(* process is such a session of its own.  A hand-over waits for the tick   *)
(* that runs, and where attempts do not overlap the process that holds the *)
(* lock watches its session.                                               *)
(***************************************************************************)
EXTENDS LeaderLock, FiniteSetTheorems, TLAPS

Typed ==
  /\ conn \in [Sessions -> [use : Uses, alive : BOOLEAN]]
  /\ held \in [Processes -> BOOLEAN]
  /\ client \in [Processes -> Sessions \cup {NoSession}]
  /\ lock \in Sessions \cup {NoSession}

Given == {"granted", "lock", "unlocking"}
HasIt(c) == conn[c].use \in Given /\ conn[c].alive => lock = c
OwnsClient(p) ==
  /\ held[p] <=> client[p] # NoSession
  /\ held[p] => Owner(client[p]) = p /\ conn[client[p]].use = "lock"
Grounded == Typed /\ (\A c \in Sessions : HasIt(c)) /\ (\A p \in Processes : OwnsClient(p))

LEMMA GroundedInit == Init => Grounded
BY NoSessionAssumption
   DEF Init, Grounded, Typed, HasIt, OwnsClient, Unopened, Uses, Given

\* A session is a process and one of its slots.
LEMMA OwnerIs == \A p \in Processes, s \in Slots : <<p, s>> \in Sessions /\ Owner(<<p, s>>) = p
BY DEF Sessions, Owner

LEMMA OwnerType == \A c \in Sessions : Owner(c) \in Processes
BY DEF Sessions, Owner

\* A connection that is neither a client nor given the lock is put to another
\* use, or a new one is opened.
LEMMA GroundedUse ==
  ASSUME Grounded, NEW c \in Sessions, conn[c].use \notin Given,
         NEW cn \in [use : Uses, alive : BOOLEAN], cn.use \notin Given,
         conn' = [conn EXCEPT ![c] = cn],
         lock' \in {lock, Freed(c)}, held' = held, client' = client
  PROVE  Grounded'
<1> USE NoSessionAssumption
<1>1. Typed'
  BY DEF Grounded, Typed, Freed
<1>2. \A d \in Sessions : HasIt(d)'
  BY DEF Grounded, Typed, HasIt, Freed
<1>3. \A p \in Processes : OwnsClient(p)'
  BY DEF Grounded, Typed, OwnsClient, Given
<1>4. QED BY <1>1, <1>2, <1>3 DEF Grounded

\* lose(), whatever else has become of one other connection.
LEMMA GroundedLose ==
  ASSUME Grounded, NEW p \in Processes, NEW cs,
         cs \in [Sessions -> [use : Uses, alive : BOOLEAN]],
         \A d \in Sessions : cs[d] = conn[d] \/ (cs[d].use \notin Given /\ d # client[p]),
         \A d \in Sessions : cs[d] # conn[d] => \A q \in Processes : client[q] # d,
         Lose(p, cs), lock' = lock
  PROVE  Grounded'
<1> USE NoSessionAssumption DEF Grounded, Typed
<1>1. CASE held[p]
  <2>1. client[p] \in Sessions
    BY <1>1 DEF OwnsClient
  <2> DEFINE gone == Destroyed(cs[client[p]])
  <2>2. gone \in [use : Uses, alive : BOOLEAN] /\ gone.use \notin Given
    BY <2>1 DEF Destroyed, Unopened, Uses, Given
  <2>3. conn' = [cs EXCEPT ![client[p]] = gone]
    BY <1>1, <2>1 DEF Lose, DestroyClient
  <2>4. held' = [held EXCEPT ![p] = FALSE] /\ client' = [client EXCEPT ![p] = NoSession]
    BY <1>1 DEF Lose
  <2> HIDE DEF gone
  <2>5. Typed'
    BY <2>1, <2>2, <2>3, <2>4
  <2>6. \A d \in Sessions : HasIt(d)'
    BY <2>1, <2>2, <2>3 DEF HasIt
  <2>7. ASSUME NEW q \in Processes PROVE OwnsClient(q)'
    BY <2>1, <2>3, <2>4, <2>7 DEF OwnsClient
  <2>8. QED BY <2>5, <2>6, <2>7
<1>2. CASE ~held[p]
  <2>1. conn' = cs /\ held' = held /\ client' = client
    BY <1>2 DEF Lose, belief
  <2>2. Typed' /\ \A d \in Sessions : HasIt(d)'
    BY <2>1 DEF HasIt
  <2>3. \A q \in Processes : OwnsClient(q)'
    BY <2>1 DEF OwnsClient
  <2>4. QED BY <2>2, <2>3
<1>3. QED BY <1>1, <1>2

\* A process that ends, in whichever way, leaves nothing behind that is given.
LEMMA GroundedGone ==
  ASSUME Grounded, NEW p \in Processes, Gone(p), lock' = lock
  PROVE  Grounded'
<1> USE NoSessionAssumption DEF Grounded, Typed
<1>1. \A c \in Sessions : /\ Destroyed(conn[c]) \in [use : Uses, alive : BOOLEAN]
                          /\ Destroyed(conn[c]).use \notin Given
  BY DEF Destroyed, Unopened, Uses, Given
<1>2. conn' = [c \in Sessions |-> IF Owner(c) = p THEN Destroyed(conn[c]) ELSE conn[c]]
  BY DEF Gone
<1>3. held' = [held EXCEPT ![p] = FALSE] /\ client' = [client EXCEPT ![p] = NoSession]
  BY DEF Gone
<1>4. Typed'
  BY <1>1, <1>2, <1>3
<1>5. \A c \in Sessions : HasIt(c)'
  BY <1>1, <1>2 DEF HasIt
<1>6. ASSUME NEW q \in Processes PROVE OwnsClient(q)'
  BY <1>2, <1>3, <1>6 DEF OwnsClient
<1>7. QED BY <1>4, <1>5, <1>6

\* release(): the client, if there is one, is about to be unlocked.
LEMMA GroundedRelease ==
  ASSUME Grounded, NEW p \in Processes, Release(p), lock' = lock
  PROVE  Grounded'
<1> USE NoSessionAssumption DEF Grounded, Typed
<1>1. held' = [held EXCEPT ![p] = FALSE] /\ client' = [client EXCEPT ![p] = NoSession]
  BY DEF Release
<1>2. CASE client[p] = NoSession
  BY <1>1, <1>2 DEF Release, HasIt, OwnsClient
<1>3. CASE client[p] # NoSession
  <2>1. conn' = Use(client[p], "unlocking") /\ conn[client[p]].use = "lock"
    BY <1>3 DEF Release, OwnsClient
  <2>2. Typed' /\ \A c \in Sessions : HasIt(c)'
    BY <1>1, <1>3, <2>1 DEF Use, Uses, HasIt, Given
  <2>3. ASSUME NEW q \in Processes PROVE OwnsClient(q)'
    BY <1>1, <1>3, <2>1, <2>3 DEF Use, OwnsClient
  <2>4. QED BY <2>2, <2>3
<1>4. QED BY <1>2, <1>3

LEMMA GroundedSession ==
  ASSUME Grounded, NEW c \in Sessions, OfSession(c)
  PROVE  Grounded'
<1> USE NoSessionAssumption, OwnerType
<1>0. conn[c] \in [use : Uses, alive : BOOLEAN] /\ Owner(c) \in Processes
  BY DEF Grounded, Typed
<1>1. CASE ServerAnswers(c)
  <2>1. conn[c].use = "asking" /\ held' = held /\ client' = client
    BY <1>1 DEF ServerAnswers, belief
  <2>2. \A p \in Processes : client[p] # c
    BY <2>1 DEF Grounded, OwnsClient
  <2>3. CASE lock = NoSession /\ lock' = c /\ conn' = Use(c, "granted")
    BY <2>1, <2>2, <2>3 DEF Grounded, Typed, HasIt, OwnsClient, Use, Uses
  <2>4. CASE lock' = lock /\ conn' = Use(c, "denied")
    BY <2>1, <2>2, <2>4 DEF Grounded, Typed, HasIt, OwnsClient, Use, Uses, Given
  <2>5. QED BY <1>1, <2>3, <2>4 DEF ServerAnswers
<1>2. CASE Acquired(c)
  <2>1. /\ conn[c].use = "granted" /\ lock' = lock
        /\ conn' = Use(c, "lock")
        /\ held' = [held EXCEPT ![Owner(c)] = TRUE]
        /\ client' = [client EXCEPT ![Owner(c)] = c]
    BY <1>2 DEF Acquired, Granted
  <2>2. Typed' /\ \A d \in Sessions : HasIt(d)'
    BY <1>0, <2>1 DEF Grounded, Typed, HasIt, Use, Uses, Given
  <2>3. ASSUME NEW q \in Processes PROVE OwnsClient(q)'
    BY <1>0, <2>1, <2>3 DEF Grounded, Typed, OwnsClient, Use
  <2>4. QED BY <2>2, <2>3 DEF Grounded
<1>3. CASE Refused(c) \/ AttemptThrows(c)
  <2> DEFINE cn == [conn[c] EXCEPT !.use = "pooled"]
  <2>1. cn \in [use : Uses, alive : BOOLEAN] /\ cn.use \notin Given
    BY <1>0 DEF Uses, Given
  <2>2. /\ conn[c].use \notin Given /\ lock' = lock /\ held' = held /\ client' = client
        /\ conn' = [conn EXCEPT ![c] = cn]
    BY <1>3 DEF Refused, AttemptThrows, Use, belief, Given, Grounded, Typed
  <2> HIDE DEF cn
  <2>3. QED BY <2>1, <2>2, GroundedUse
<1>4. CASE ServerDrops(c)
  <2>1. /\ conn' = [conn EXCEPT ![c].alive = FALSE] /\ lock' = Freed(c)
        /\ held' = held /\ client' = client
    BY <1>4 DEF ServerDrops, belief
  <2>2. Typed' /\ \A d \in Sessions : conn'[d].use = conn[d].use
    BY <1>0, <2>1 DEF Grounded, Typed, Freed
  <2>3. \A d \in Sessions : HasIt(d)'
    BY <1>0, <2>1, <2>2 DEF Grounded, Typed, HasIt, Freed
  <2>4. \A p \in Processes : OwnsClient(p)'
    BY <2>1, <2>2 DEF Grounded, Typed, OwnsClient
  <2>5. QED BY <2>2, <2>3, <2>4 DEF Grounded
<1>5. CASE ErrorEvent(c)
  <2> DEFINE cs == IF client[Owner(c)] = c THEN conn ELSE Use(c, "leaked")
  <2>1. conn[c].use = "lock" /\ Lose(Owner(c), cs) /\ lock' = lock
    BY <1>5 DEF ErrorEvent
  <2>2. \A q \in Processes : client[q] = c => q = Owner(c)
    BY DEF Grounded, OwnsClient
  <2>3. cs \in [Sessions -> [use : Uses, alive : BOOLEAN]]
    BY <1>0 DEF Grounded, Typed, Use, Uses
  <2>4. \A d \in Sessions : cs[d] = conn[d]
          \/ (cs[d].use \notin Given /\ d # client[Owner(c)] /\ d = c)
    BY <1>0 DEF Grounded, Typed, Use, Given
  <2>5. \A d \in Sessions : cs[d] # conn[d] => \A q \in Processes : client[q] # d
    BY <2>2, <2>4
  <2> HIDE DEF cs
  <2>6. QED BY <1>0, <2>1, <2>3, <2>4, <2>5, GroundedLose
<1>6. CASE ServerCloses(c) \/ PoolDiscards(c)
  <2>1. Unopened \in [use : Uses, alive : BOOLEAN] /\ Unopened.use \notin Given
    BY DEF Unopened, Uses, Given
  <2>2. /\ conn[c].use \notin Given /\ lock' \in {lock, Freed(c)}
        /\ held' = held /\ client' = client /\ conn' = [conn EXCEPT ![c] = Unopened]
    BY <1>6 DEF ServerCloses, PoolDiscards, belief, Given
  <2>3. QED BY <2>1, <2>2, GroundedUse
<1>7. CASE Unlocked(c)
  <2>1. /\ conn[c].use = "unlocking" /\ lock' \in {lock, Freed(c)}
        /\ held' = held /\ client' = client
        /\ conn' = Use(c, "pooled") \/ conn' = Use(c, "closing")
    BY <1>7 DEF Unlocked, belief
  <2>2. Typed' /\ \A d \in Sessions : HasIt(d)'
    BY <1>0, <2>1 DEF Grounded, Typed, HasIt, Use, Uses, Given, Freed
  <2>3. \A p \in Processes : OwnsClient(p)'
    BY <2>1 DEF Grounded, Typed, OwnsClient, Use
  <2>4. QED BY <2>2, <2>3 DEF Grounded
<1>8. CASE UnheardError(c)
  BY <1>0, <1>8, GroundedGone DEF UnheardError
<1>9. QED BY <1>1, <1>2, <1>3, <1>4, <1>5, <1>6, <1>7, <1>8 DEF OfSession, Attempt, Ending

LEMMA GroundedAsk ==
  ASSUME Grounded, NEW c \in Sessions, Ask(c), lock' = lock, held' = held, client' = client
  PROVE  Grounded'
<1> DEFINE cn == [use |-> "asking", alive |-> TRUE]
<1>1. cn \in [use : Uses, alive : BOOLEAN] /\ cn.use \notin Given
  BY DEF Uses, Given
<1>2. conn[c].use \notin Given /\ conn' = [conn EXCEPT ![c] = cn]
  BY DEF Ask, Given
<1> HIDE DEF cn
<1>3. QED BY <1>1, <1>2, GroundedUse

LEMMA GroundedSame ==
  ASSUME Grounded, lock' = lock, conn' = conn, held' = held, client' = client
  PROVE  Grounded'
BY DEF Grounded, Typed, HasIt, OwnsClient

LEMMA GroundedProcess ==
  ASSUME Grounded, NEW p \in Processes, OfProcess(p)
  PROVE  Grounded'
<1>1. CASE Start(p) \/ RetryFires(p)
  BY <1>1, OwnerIs, GroundedAsk DEF Start, RetryFires, belief
<1>2. CASE Heartbeat(p) \/ HeartbeatFails(p)
  <2>1. Lose(p, conn) /\ lock' = lock
    BY <1>2 DEF Heartbeat, HeartbeatFails
  <2>2. conn \in [Sessions -> [use : Uses, alive : BOOLEAN]]
    BY DEF Grounded, Typed
  <2>3. QED BY <2>1, <2>2, GroundedLose
<1>3. CASE Ready(p) \/ TickStarts(p) \/ TickSends(p) \/ TickProceeds(p) \/ Shutdown(p)
  BY <1>3, GroundedSame DEF Ready, TickStarts, TickSends, TickProceeds, Shutdown, belief
<1>4. CASE Drained(p) \/ DrainTimesOut(p)
  BY <1>4, GroundedRelease DEF Drained, DrainTimesOut
<1>5. CASE Exit(p) \/ Die(p) \/ Killed(p)
  BY <1>5, GroundedGone DEF Exit, Die, Killed
<1>6. QED BY <1>1, <1>2, <1>3, <1>4, <1>5 DEF OfProcess

LEMMA GroundedStep == Grounded /\ [Next]_vars => Grounded'
<1> SUFFICES ASSUME Grounded, [Next]_vars PROVE Grounded'
  OBVIOUS
<1>1. CASE UNCHANGED vars
  BY <1>1, GroundedSame DEF vars
<1>2. QED BY <1>1, GroundedSession, GroundedProcess DEF Next

LEMMA GroundedMeans == Grounded => BeliefIsGrounded /\ OneLiveLeader
<1> SUFFICES ASSUME Grounded PROVE BeliefIsGrounded /\ OneLiveLeader
  OBVIOUS
<1>1. \A p \in Processes : held[p] => /\ client[p] \in Sessions /\ Owner(client[p]) = p
                                      /\ conn[client[p]].alive => lock = client[p]
  BY DEF Grounded, Typed, OwnsClient, HasIt, Given
<1>2. QED BY <1>1, NoSessionAssumption DEF BeliefIsGrounded, OneLiveLeader

\* What a process believes about its leadership has a ground, in every state.
THEOREM BeliefGrounded == Spec => []BeliefIsGrounded
BY GroundedInit, GroundedStep, GroundedMeans, PTL DEF Spec

\* Two processes that believe they lead never both have a live session.
THEOREM NeverTwoLiveLeaders == Spec => []OneLiveLeader
BY GroundedInit, GroundedStep, GroundedMeans, PTL DEF Spec

-----------------------------------------------------------------------------
(* Handing over                                                            *)

\* As long as no connection was lost, every session that is in use is there,
\* and a tick in flight belongs to a process that still leads.
Smooth ==
  /\ losses \in Nat /\ tick \in [Processes -> {"idle", "working", "sending"}]
  /\ losses = 0 =>
       /\ \A c \in Sessions : conn[c].use # "free" => conn[c].alive
       /\ ~timedOut => \A p \in Processes : tick[p] # "idle" => held[p]

\* A step that loses nothing and interrupts no leader.
LEMMA SmoothKept ==
  ASSUME Smooth, UNCHANGED <<losses, timedOut>>,
         tick' \in [Processes -> {"idle", "working", "sending"}],
         losses = 0 => \A c \in Sessions : conn'[c].use # "free" =>
                         conn'[c].alive \/ (conn'[c].alive = conn[c].alive /\ conn[c].use # "free"),
         losses = 0 /\ ~timedOut => \A p \in Processes :
           tick'[p] # "idle" => held'[p] \/ (tick[p] # "idle" /\ held'[p] = held[p])
  PROVE  Smooth'
BY DEF Smooth

LEMMA SmoothGone ==
  ASSUME Grounded, Smooth, NEW p \in Processes, Gone(p), UNCHANGED <<losses, timedOut>>
  PROVE  Smooth'
<1>1. tick' = [tick EXCEPT ![p] = "idle"] /\ held' = [held EXCEPT ![p] = FALSE]
  BY DEF Gone
<1>2. conn' = [c \in Sessions |-> IF Owner(c) = p THEN Destroyed(conn[c]) ELSE conn[c]]
  BY DEF Gone
<1>3. \A c \in Sessions : Destroyed(conn[c]).use # "free" => Destroyed(conn[c]).alive
  BY DEF Destroyed, Unopened, Grounded, Typed
<1>4. \A q \in Processes : q # p => tick'[q] = tick[q] /\ held'[q] = held[q]
  BY <1>1 DEF Smooth, Grounded, Typed
<1>5. tick'[p] = "idle" /\ tick' \in [Processes -> {"idle", "working", "sending"}]
  BY <1>1 DEF Smooth
<1>6. QED BY <1>2, <1>3, <1>4, <1>5 DEF Smooth

LEMMA SmoothSession ==
  ASSUME Grounded, Smooth, NEW c \in Sessions, OfSession(c)
  PROVE  Smooth'
<1>0. conn \in [Sessions -> [use : Uses, alive : BOOLEAN]] /\ Owner(c) \in Processes
  BY OwnerType DEF Grounded, Typed
<1> USE DEF Use
<1>1. CASE ServerAnswers(c)
  BY <1>0, <1>1, SmoothKept DEF ServerAnswers, Smooth, belief, history
<1>2. CASE Acquired(c)
  BY <1>0, <1>2, SmoothKept DEF Acquired, Granted, Smooth, Grounded, Typed, history
<1>3. CASE Refused(c)
  BY <1>0, <1>3, SmoothKept DEF Refused, Smooth, history
<1>4. CASE AttemptThrows(c) \/ ServerDrops(c)
  BY <1>4 DEF AttemptThrows, ServerDrops, Smooth
<1>5. CASE ErrorEvent(c)
  <2>1. losses # 0 /\ UNCHANGED <<losses, timedOut, tick>>
    BY <1>5 DEF ErrorEvent, Smooth, history
  <2>2. QED BY <2>1 DEF Smooth
<1>6. CASE ServerCloses(c) \/ PoolDiscards(c)
  BY <1>0, <1>6, SmoothKept DEF ServerCloses, PoolDiscards, Unopened, Smooth, belief, history
<1>7. CASE Unlocked(c)
  BY <1>0, <1>7, SmoothKept DEF Unlocked, Smooth, belief, history
<1>8. CASE UnheardError(c)
  BY <1>0, <1>8, SmoothGone DEF UnheardError, history
<1>9. QED BY <1>1, <1>2, <1>3, <1>4, <1>5, <1>6, <1>7, <1>8 DEF OfSession, Attempt, Ending

LEMMA SmoothProcess ==
  ASSUME Grounded, Smooth, NEW p \in Processes, OfProcess(p)
  PROVE  Smooth'
<1>0. conn \in [Sessions -> [use : Uses, alive : BOOLEAN]] /\ held \in [Processes -> BOOLEAN]
  BY DEF Grounded, Typed
<1>1. CASE Start(p) \/ RetryFires(p)
  <2>1. PICK c \in Sessions : Ask(c)
    BY <1>1, OwnerIs DEF Start, RetryFires
  <2>2. UNCHANGED <<held, tick, losses, timedOut>>
    BY <1>1 DEF Start, RetryFires, belief, history
  <2>3. QED BY <1>0, <2>1, <2>2, SmoothKept DEF Ask, Smooth
<1>2. CASE Heartbeat(p)
  <2>1. client[p] # NoSession /\ held[p] /\ conn[client[p]].use = "lock" /\ client[p] \in Sessions
    BY <1>2 DEF Heartbeat, Grounded, Typed, OwnsClient
  <2>2. ~conn[client[p]].alive
    BY <1>2, <2>1 DEF Heartbeat, HeartbeatHears, Grounded, HasIt, Given
  <2>3. losses # 0 /\ UNCHANGED <<losses, timedOut, tick>>
    BY <1>2, <2>1, <2>2 DEF Heartbeat, Smooth, history
  <2>4. QED BY <2>3 DEF Smooth
<1>3. CASE HeartbeatFails(p)
  BY <1>3 DEF HeartbeatFails, Smooth
<1>4. CASE Ready(p) \/ Shutdown(p) \/ TickStarts(p) \/ TickSends(p) \/ TickProceeds(p)
  <2>1. UNCHANGED <<conn, held, losses, timedOut>>
    BY <1>4 DEF Ready, Shutdown, TickStarts, TickSends, TickProceeds, belief, history
  <2>2. tick' \in [Processes -> {"idle", "working", "sending"}]
    BY <1>4 DEF Ready, Shutdown, TickStarts, TickSends, TickProceeds, Smooth
  <2>3. \A q \in Processes : tick'[q] # "idle" => held[q] \/ tick[q] # "idle"
    BY <1>4 DEF Ready, Shutdown, TickStarts, TickSends, TickProceeds, Smooth
  <2>4. QED BY <2>1, <2>2, <2>3 DEF Smooth
<1>5. CASE Drained(p)
  <2>1. /\ tick[p] = "idle" /\ UNCHANGED <<tick, losses, timedOut>>
        /\ held' = [held EXCEPT ![p] = FALSE]
        /\ conn' = conn \/ (client[p] # NoSession /\ conn' = Use(client[p], "unlocking"))
    BY <1>5 DEF Drained, Quiet, Release, history
  <2>2. client[p] # NoSession => client[p] \in Sessions /\ conn[client[p]].use = "lock"
    BY DEF Grounded, Typed, OwnsClient
  <2>3. \A c \in Sessions : conn'[c].alive = conn[c].alive
                              /\ (conn'[c].use # "free" => conn[c].use # "free")
    BY <1>0, <2>1, <2>2 DEF Use
  <2>4. QED BY <1>0, <2>1, <2>3 DEF Smooth
<1>6. CASE DrainTimesOut(p)
  <2>1. /\ timedOut' = TRUE /\ UNCHANGED <<tick, losses>>
        /\ conn' = conn \/ (client[p] # NoSession /\ conn' = Use(client[p], "unlocking"))
    BY <1>6 DEF DrainTimesOut, Release
  <2>2. client[p] # NoSession => client[p] \in Sessions /\ conn[client[p]].use = "lock"
    BY DEF Grounded, Typed, OwnsClient
  <2>3. \A c \in Sessions : conn'[c].alive = conn[c].alive
                              /\ (conn'[c].use # "free" => conn[c].use # "free")
    BY <1>0, <2>1, <2>2 DEF Use
  <2>4. QED BY <2>1, <2>3 DEF Smooth
<1>7. CASE Exit(p) \/ Die(p) \/ Killed(p)
  BY <1>7, SmoothGone DEF Exit, Die, Killed, history
<1>8. QED BY <1>1, <1>2, <1>3, <1>4, <1>5, <1>6, <1>7 DEF OfProcess

\* A deploy never has two loops at work: unless a connection is lost or a
\* drain gives up, the ticks of two processes do not overlap, for any number
\* of processes, connections, overlapping attempts, deploys and crashes.
THEOREM HandsOverClean == Spec => []HandOverIsClean
<1>1. Init => Smooth
  BY DEF Init, Smooth, Unopened
<1>2. Grounded /\ Smooth /\ [Next]_vars => Smooth'
  <2>1. UNCHANGED vars /\ Smooth => Smooth'
    BY DEF vars, Smooth
  <2>2. QED BY <2>1, SmoothSession, SmoothProcess DEF Next
<1>3. Grounded /\ Smooth => HandOverIsClean
  <2> SUFFICES ASSUME Grounded, Smooth, losses = 0, ~timedOut,
                      NEW p \in Processes, NEW q \in Processes, tick[p] # "idle", tick[q] # "idle"
               PROVE  p = q
    BY DEF HandOverIsClean
  <2>1. held[p] /\ held[q]
    BY DEF Smooth
  <2>2. \A r \in {p, q} : /\ client[r] \in Sessions /\ conn[client[r]].use = "lock"
                          /\ conn[client[r]].alive
    BY <2>1 DEF Grounded, Typed, OwnsClient, Smooth
  <2>3. QED BY <2>1, <2>2, GroundedMeans DEF OneLiveLeader
<1>4. QED BY <1>1, <1>2, <1>3, GroundedInit, GroundedStep, PTL DEF Spec

-----------------------------------------------------------------------------
(* Watching the lock                                                       *)

\* The session that holds the lock was told so, and a session kept for the
\* lock is the client of its process: with one attempt at a time, a client is
\* never replaced, since a process that leads has none in flight.
Told    == lock # NoSession => conn[lock].alive /\ conn[lock].use \in Given \cup {"closing"}
Clients == \A c \in Sessions : conn[c].use = "lock" => client[Owner(c)] = c
OneAttempt ==
  /\ phase \in [Processes -> Phases]
  /\ \A p \in Processes : /\ \A s, t \in InFlight(p) : s = t
                          /\ held[p] \/ phase[p] = "down" => InFlight(p) = {}
                          /\ phase[p] = "down" => ~held[p]
Watched == Told /\ Clients /\ OneAttempt

\* A process that is not there has no timer running.
Resting == /\ retry \in [Processes -> 0..1]
           /\ \A p \in Processes : phase[p] = "down" => retry[p] = 0

Attempting == {"asking", "granted", "denied"}
LEMMA WatchedKept ==
  ASSUME Grounded, OneAttempt, phase' \in [Processes -> Phases],
         \A c \in Sessions : conn'[c].use \in Attempting => conn[c].use \in Attempting,
         \A p \in Processes : /\ held'[p] => held[p]
                              /\ phase'[p] = "down" => phase[p] = "down"
  PROVE  OneAttempt'
<1>1. \A p \in Processes : InFlight(p)' \subseteq InFlight(p)
  BY OwnerIs DEF InFlight, Attempting
<1>2. QED BY <1>1 DEF OneAttempt

LEMMA WatchedGone ==
  ASSUME Grounded, Watched, NEW p \in Processes, Gone(p), lock' = lock
  PROVE  Watched'
<1> USE NoSessionAssumption DEF Grounded, Typed
<1>1. /\ conn' = [c \in Sessions |-> IF Owner(c) = p THEN Destroyed(conn[c]) ELSE conn[c]]
      /\ client' = [client EXCEPT ![p] = NoSession]
      /\ held' = [held EXCEPT ![p] = FALSE]
      /\ phase' = [phase EXCEPT ![p] = "down"]
  BY DEF Gone
<1>2. \A c \in Sessions : /\ Destroyed(conn[c]).use \in {"closing", "free"}
                          /\ conn[c].alive => /\ Destroyed(conn[c]).alive
                                              /\ Destroyed(conn[c]).use = "closing"
  BY DEF Destroyed, Unopened
<1>3. Told'
  BY <1>1, <1>2 DEF Watched, Told
<1>4. Clients'
  <2>1. \A c \in Sessions : conn'[c].use = "lock" => Owner(c) # p /\ conn[c].use = "lock"
    BY <1>1, <1>2
  <2>2. QED BY <1>1, <2>1, OwnerType DEF Watched, Clients
<1>5. OneAttempt'
  <2>1. InFlight(p)' = {}
    BY <1>1, <1>2, OwnerIs DEF InFlight
  <2>2. \A q \in Processes \ {p} : InFlight(q)' = InFlight(q)
    BY <1>1, OwnerIs DEF InFlight
  <2>3. phase' \in [Processes -> Phases] /\ held'[p] = FALSE
    BY <1>1 DEF Watched, OneAttempt, Phases
  <2>4. \A q \in Processes \ {p} : held'[q] = held[q] /\ phase'[q] = phase[q]
    BY <1>1 DEF Watched, OneAttempt
  <2>5. QED BY <2>1, <2>2, <2>3, <2>4 DEF Watched, OneAttempt
<1>6. QED BY <1>3, <1>4, <1>5 DEF Watched

LEMMA WatchedLose ==
  ASSUME Grounded, Watched, NEW p \in Processes, Lose(p, conn), UNCHANGED <<lock, phase>>
  PROVE  Watched'
<1> USE NoSessionAssumption DEF Grounded, Typed
<1>1. CASE held[p]
  <2>1. /\ client[p] \in Sessions /\ Owner(client[p]) = p
        /\ conn' = [conn EXCEPT ![client[p]] = Destroyed(conn[client[p]])]
        /\ held' = [held EXCEPT ![p] = FALSE] /\ client' = [client EXCEPT ![p] = NoSession]
    BY <1>1 DEF OwnsClient, Lose, DestroyClient
  <2>2. /\ conn'[client[p]].use \in {"closing", "free"}
        /\ conn[client[p]].alive => /\ conn'[client[p]].alive
                                    /\ conn'[client[p]].use = "closing"
        /\ \A c \in Sessions \ {client[p]} : conn'[c] = conn[c]
    BY <2>1 DEF Destroyed, Unopened
  <2>3. Told'
    BY <2>2 DEF Watched, Told
  <2>4. Clients'
    <3>1. \A c \in Sessions : conn'[c].use = "lock" => conn[c].use = "lock" /\ c # client[p]
      BY <2>2
    <3>2. \A c \in Sessions : conn'[c].use = "lock" => Owner(c) # p
      BY <3>1 DEF Watched, Clients
    <3>3. QED BY <2>1, <3>1, <3>2, OwnerType DEF Watched, Clients
  <2>5. OneAttempt'
    <3>1. \A c \in Sessions : conn'[c].use \in Attempting => conn[c].use \in Attempting
      BY <2>2 DEF Attempting
    <3>2. \A q \in Processes : held'[q] => held[q]
      BY <2>1
    <3>3. QED BY <3>1, <3>2, WatchedKept DEF Watched, OneAttempt
  <2>6. QED BY <2>3, <2>4, <2>5 DEF Watched
<1>2. CASE ~held[p]
  <2>1. UNCHANGED <<conn, held, client>>
    BY <1>2 DEF Lose, belief
  <2>2. QED BY <2>1 DEF Watched, Told, Clients, OneAttempt, InFlight
<1>3. QED BY <1>1, <1>2

LEMMA WatchedRelease ==
  ASSUME Grounded, Watched, NEW p \in Processes, Release(p), lock' = lock
  PROVE  Watched'
<1> USE NoSessionAssumption DEF Grounded, Typed
<1>1. /\ held' = [held EXCEPT ![p] = FALSE] /\ client' = [client EXCEPT ![p] = NoSession]
      /\ phase' = [phase EXCEPT ![p] = "closing"]
      /\ conn' = IF client[p] = NoSession THEN conn ELSE Use(client[p], "unlocking")
  BY DEF Release
<1>2. client[p] # NoSession => /\ client[p] \in Sessions /\ Owner(client[p]) = p
                               /\ conn[client[p]].use = "lock"
  BY DEF OwnsClient
<1>3. /\ \A c \in Sessions : /\ conn'[c].alive = conn[c].alive
                             /\ \/ conn'[c].use = conn[c].use /\ (client[p] # c \/ client[p] = NoSession)
                                \/ c = client[p] /\ conn'[c].use = "unlocking"
  BY <1>1, <1>2 DEF Use
<1>4. Told'
  BY <1>3 DEF Watched, Told, Given
<1>5. Clients'
  <2>1. \A c \in Sessions : conn'[c].use = "lock" => conn[c].use = "lock" /\ c # client[p]
    BY <1>3
  <2>2. \A c \in Sessions : conn'[c].use = "lock" => Owner(c) # p
    BY <2>1 DEF Watched, Clients
  <2>3. QED BY <1>1, <2>1, <2>2, OwnerType DEF Watched, Clients
<1>6. OneAttempt'
  <2>1. \A c \in Sessions : conn'[c].use \in Attempting => conn[c].use \in Attempting
    BY <1>3 DEF Attempting
  <2>2. /\ \A q \in Processes : held'[q] => held[q]
        /\ phase' \in [Processes -> Phases]
        /\ \A q \in Processes : phase'[q] = "down" => phase[q] = "down"
    BY <1>1 DEF Watched, OneAttempt, Phases
  <2>3. QED BY <2>1, <2>2, WatchedKept DEF Watched
<1>7. QED BY <1>4, <1>5, <1>6 DEF Watched

LEMMA WatchedSession ==
  ASSUME Grounded, Watched, NEW c \in Sessions, OfSession(c)
  PROVE  Watched'
<1> USE NoSessionAssumption, OwnerType DEF Grounded, Typed
<1>0. conn[c] \in [use : Uses, alive : BOOLEAN] /\ Owner(c) \in Processes
  OBVIOUS
<1>1. CASE ServerAnswers(c)
  <2>1. /\ conn[c].use = "asking" /\ conn[c].alive /\ UNCHANGED <<held, client, phase>>
        /\ \/ lock = NoSession /\ lock' = c /\ conn' = Use(c, "granted")
           \/ lock # NoSession /\ lock' = lock /\ conn' = Use(c, "denied")
    BY <1>1 DEF ServerAnswers, belief
  <2>2. Told'
    BY <2>1 DEF Watched, Told, Use, Given
  <2>3. Clients'
    BY <2>1 DEF Watched, Clients, Use
  <2>4. \A d \in Sessions : conn'[d].use \in Attempting => conn[d].use \in Attempting
    BY <2>1 DEF Attempting, Use
  <2>5. QED BY <2>1, <2>2, <2>3, <2>4, WatchedKept DEF Watched, OneAttempt
<1>2. CASE Acquired(c)
  <2>1. /\ conn[c].use = "granted" /\ conn' = Use(c, "lock") /\ lock' = lock
        /\ held' = [held EXCEPT ![Owner(c)] = TRUE]
        /\ client' = [client EXCEPT ![Owner(c)] = c]
        /\ phase' = Booted(Owner(c))
    BY <1>2 DEF Acquired, Granted
  <2>2. PICK p \in Processes, s \in Slots : c = <<p, s>> /\ Owner(c) = p
    BY DEF Sessions, Owner
  <2>3. s \in InFlight(p)
    BY <2>1, <2>2 DEF InFlight
  <2>4. ~held[p] /\ phase[p] # "down" /\ client[p] = NoSession
    BY <2>3 DEF Watched, OneAttempt, OwnsClient
  <2>5. Told'
    BY <2>1 DEF Watched, Told, Use, Given
  <2>6. Clients'
    <3>1. \A d \in Sessions : conn[d].use = "lock" => Owner(d) # p
      BY <2>4 DEF Watched, Clients
    <3>2. QED BY <2>1, <2>2, <3>1 DEF Watched, Clients, Use
  <2>7. OneAttempt'
    <3>1. InFlight(p)' = {}
      <4>1. \A t \in Slots : t # s => t \notin InFlight(p)
        BY <2>3 DEF Watched, OneAttempt
      <4>2. QED BY <2>1, <2>2, <4>1, OwnerIs DEF InFlight, Use
    <3>2. \A q \in Processes \ {p} : InFlight(q)' = InFlight(q)
      BY <2>1, <2>2, OwnerIs DEF InFlight, Use
    <3>3. phase' \in [Processes -> Phases] /\ phase'[p] # "down"
      BY <2>1, <2>2, <2>4 DEF Booted, Phases, Watched, OneAttempt
    <3>4. \A q \in Processes \ {p} : held'[q] = held[q] /\ phase'[q] = phase[q]
      BY <2>1, <2>2 DEF Booted, Watched, OneAttempt
    <3>5. QED BY <3>1, <3>2, <3>3, <3>4 DEF Watched, OneAttempt
  <2>8. QED BY <2>5, <2>6, <2>7 DEF Watched
<1>3. ASSUME conn[c].use \notin Given \cup {"closing"}, conn'[c].use \notin Attempting \cup {"lock"},
             \A d \in Sessions \ {c} : conn'[d] = conn[d],
             lock' = lock, UNCHANGED <<held, client>>, phase' \in [Processes -> Phases],
             \A q \in Processes : phase'[q] = "down" => phase[q] = "down"
      PROVE  Watched'
  <2>1. Told' /\ Clients'
    BY <1>3 DEF Watched, Told, Clients
  <2>2. OneAttempt'
    BY <1>3, WatchedKept DEF Watched
  <2>3. QED BY <2>1, <2>2 DEF Watched
<1>4. CASE Refused(c) \/ AttemptThrows(c)
  <2>1. /\ conn[c].use \in {"asking", "denied"} /\ conn' = Use(c, "pooled")
        /\ UNCHANGED <<lock, held, client>>
        /\ phase' = phase \/ phase' = Booted(Owner(c))
    BY <1>4 DEF Refused, AttemptThrows, belief
  <2>2. /\ conn'[c].use = "pooled" /\ \A d \in Sessions \ {c} : conn'[d] = conn[d]
    BY <2>1 DEF Use
  <2>3. /\ phase' \in [Processes -> Phases]
        /\ \A q \in Processes : phase'[q] = "down" => phase[q] = "down"
    BY <2>1 DEF Booted, Phases, Watched, OneAttempt
  <2>4. QED BY <1>3, <2>1, <2>2, <2>3 DEF Given, Attempting
<1>5. CASE PoolDiscards(c)
  BY <1>3, <1>5 DEF PoolDiscards, Unopened, belief, Given, Attempting, Watched, OneAttempt
<1>6. CASE ServerDrops(c)
  <2>1. /\ conn' = [conn EXCEPT ![c].alive = FALSE] /\ lock' = Freed(c)
        /\ UNCHANGED <<held, client, phase>>
    BY <1>6 DEF ServerDrops, belief
  <2>2. \A d \in Sessions : conn'[d].use = conn[d].use /\ (d # c => conn'[d] = conn[d])
    BY <2>1
  <2>3. Told' /\ Clients'
    BY <2>1, <2>2 DEF Watched, Told, Clients, Freed
  <2>4. OneAttempt'
    BY <2>1, <2>2, WatchedKept DEF Watched, OneAttempt
  <2>5. QED BY <2>3, <2>4 DEF Watched
<1>7. CASE ErrorEvent(c)
  <2>1. client[Owner(c)] = c
    BY <1>7 DEF ErrorEvent, Watched, Clients
  <2>2. QED BY <1>7, <2>1, WatchedLose DEF ErrorEvent
<1>8. CASE ServerCloses(c) \/ Unlocked(c)
  <2>1. /\ conn[c].use \in {"closing", "unlocking"} /\ UNCHANGED <<held, client, phase>>
        /\ \/ lock' = Freed(c) /\ conn'[c].use \in {"free", "pooled"}
           \/ lock' = lock /\ conn'[c].use = "closing" /\ conn'[c].alive = conn[c].alive
        /\ \A d \in Sessions \ {c} : conn'[d] = conn[d]
    BY <1>8 DEF ServerCloses, Unlocked, Use, Unopened, belief
  <2>2. Told' /\ Clients'
    BY <2>1 DEF Watched, Told, Clients, Freed
  <2>3. OneAttempt'
    BY <2>1, WatchedKept DEF Watched, OneAttempt, Attempting
  <2>4. QED BY <2>2, <2>3 DEF Watched
<1>9. CASE UnheardError(c)
  BY <1>9, WatchedGone DEF UnheardError
<1>10. QED
  BY <1>1, <1>2, <1>4, <1>5, <1>6, <1>7, <1>8, <1>9 DEF OfSession, Attempt, Ending

LEMMA WatchedProcess ==
  ASSUME MaxAttempts <= 1, Grounded, Watched, Resting, NEW p \in Processes, OfProcess(p)
  PROVE  Watched'
<1> USE NoSessionAssumption, OwnerType DEF Grounded, Typed
<1>1. CASE Start(p) \/ RetryFires(p)
  <2>1. PICK s \in Slots : Ask(<<p, s>>)
    BY <1>1 DEF Start, RetryFires
  <2>2. InFlight(p) = {} /\ ~held[p]
    <3>1. CASE Start(p)
      BY <3>1 DEF Start, Watched, OneAttempt
    <3>2. CASE RetryFires(p)
      <4>1. ~held[p] /\ Cardinality(InFlight(p)) < MaxAttempts
        BY <3>2 DEF RetryFires
      <4>2. ASSUME NEW t \in InFlight(p) PROVE FALSE
        <5>1. InFlight(p) = {t}
          BY <4>2 DEF Watched, OneAttempt
        <5>2. Cardinality(InFlight(p)) = 1
          BY <5>1, FS_Singleton
        <5>3. QED BY <4>1, <5>2, BoundsAssumption
      <4>3. QED BY <4>1, <4>2
    <3>3. QED BY <1>1, <3>1, <3>2
  <2>3. UNCHANGED <<lock, held, client>>
    BY <1>1 DEF Start, RetryFires, belief
  <2>4. /\ phase' \in [Processes -> Phases] /\ phase'[p] # "down"
        /\ \A q \in Processes \ {p} : phase'[q] = phase[q]
    <3>1. CASE Start(p)
      BY <3>1 DEF Start, Phases, Watched, OneAttempt
    <3>2. CASE RetryFires(p)
      <4>1. UNCHANGED phase /\ retry[p] > 0
        BY <3>2 DEF RetryFires
      <4>2. phase[p] # "down"
        BY <4>1 DEF Resting
      <4>3. QED BY <4>1, <4>2 DEF Watched, OneAttempt
    <3>3. QED BY <1>1, <3>1, <3>2
  <2> DEFINE c == <<p, s>>
  <2>5. c \in Sessions /\ Owner(c) = p /\ conn[c].use \in {"free", "pooled"}
        /\ conn' = [conn EXCEPT ![c] = [use |-> "asking", alive |-> TRUE]]
    BY <2>1, OwnerIs DEF Ask
  <2>6. Told' /\ Clients'
    BY <2>3, <2>5 DEF Watched, Told, Clients, Given
  <2>7. OneAttempt'
    <3>1. InFlight(p)' = {s}
      BY <2>2, <2>5, OwnerIs DEF InFlight
    <3>2. \A q \in Processes \ {p} : InFlight(q)' = InFlight(q)
      BY <2>5, OwnerIs DEF InFlight
    <3>3. QED BY <2>2, <2>3, <2>4, <3>1, <3>2 DEF Watched, OneAttempt
  <2>8. QED BY <2>6, <2>7 DEF Watched
<1>2. CASE Heartbeat(p) \/ HeartbeatFails(p)
  BY <1>2, WatchedLose DEF Heartbeat, HeartbeatFails
<1>3. CASE Ready(p) \/ TickStarts(p) \/ TickSends(p) \/ TickProceeds(p) \/ Shutdown(p)
  <2>1. UNCHANGED <<lock, conn, held, client>>
    BY <1>3 DEF Ready, TickStarts, TickSends, TickProceeds, Shutdown, belief
  <2>2. /\ phase' \in [Processes -> Phases]
        /\ \A q \in Processes : phase'[q] = "down" => phase[q] = "down"
    BY <1>3 DEF Ready, TickStarts, TickSends, TickProceeds, Shutdown, Phases, Watched, OneAttempt
  <2>3. QED BY <2>1, <2>2, WatchedKept DEF Watched, Told, Clients
<1>4. CASE Drained(p) \/ DrainTimesOut(p)
  BY <1>4, WatchedRelease DEF Drained, DrainTimesOut
<1>5. CASE Exit(p) \/ Die(p) \/ Killed(p)
  BY <1>5, WatchedGone DEF Exit, Die, Killed
<1>6. QED BY <1>1, <1>2, <1>3, <1>4, <1>5 DEF OfProcess

LEMMA RestingStep ==
  ASSUME Grounded, Watched, Resting, [Next]_vars
  PROVE  Resting'
<1> USE NoSessionAssumption, OwnerType DEF Watched, OneAttempt, Resting
<1>1. ASSUME NEW p \in Processes, retry' = [retry EXCEPT ![p] = 0],
             \A q \in Processes \ {p} : phase'[q] = phase[q]
      PROVE  Resting'
  BY <1>1
<1>2. ASSUME NEW p \in Processes, retry' = StartRetry(p), phase'[p] # "down",
             \A q \in Processes \ {p} : phase'[q] = phase[q]
      PROVE  Resting'
  BY <1>2 DEF StartRetry
<1>3. ASSUME UNCHANGED retry, \A q \in Processes : phase'[q] = "down" => phase[q] = "down"
      PROVE  Resting'
  BY <1>3
<1>4. ASSUME NEW p \in Processes, NEW cs, Lose(p, cs), UNCHANGED phase PROVE Resting'
  <2>1. CASE held[p]
    BY <1>2, <1>4, <2>1 DEF Lose
  <2>2. CASE ~held[p]
    BY <1>4, <2>2 DEF Lose, belief
  <2>3. QED BY <2>1, <2>2
<1>5. ASSUME NEW p \in Processes, Gone(p) PROVE Resting'
  BY <1>1, <1>5 DEF Gone
<1>6. ASSUME NEW p \in Processes, Release(p) PROVE Resting'
  BY <1>1, <1>6 DEF Release
<1>7. ASSUME NEW c \in Sessions, Acquired(c) PROVE Resting'
  BY <1>1, <1>7 DEF Acquired, Booted
<1>8. ASSUME NEW c \in Sessions, Refused(c) PROVE Resting'
  <2>1. PICK p \in Processes, s \in Slots : c = <<p, s>> /\ Owner(c) = p
    BY DEF Sessions, Owner
  <2>2. phase[p] # "down"
    BY <1>8, <2>1 DEF Refused, InFlight
  <2>3. phase'[p] # "down" /\ \A q \in Processes \ {p} : phase'[q] = phase[q]
    BY <1>8, <2>1, <2>2 DEF Refused, Booted
  <2>4. QED BY <1>2, <1>8, <2>1, <2>3 DEF Refused
<1>9. ASSUME NEW c \in Sessions, OfSession(c) PROVE Resting'
  <2>1. CASE ErrorEvent(c)
    BY <1>4, <2>1 DEF ErrorEvent
  <2>2. CASE UnheardError(c)
    BY <1>5, <2>2 DEF UnheardError
  <2>3. CASE \/ ServerAnswers(c) \/ AttemptThrows(c) \/ ServerDrops(c) \/ ServerCloses(c)
             \/ Unlocked(c) \/ PoolDiscards(c)
    BY <1>3, <2>3 DEF ServerAnswers, AttemptThrows, ServerDrops, ServerCloses, Unlocked,
                      PoolDiscards, belief
  <2>4. QED BY <1>7, <1>8, <1>9, <2>1, <2>2, <2>3 DEF OfSession, Attempt, Ending
<1>10. ASSUME NEW p \in Processes, OfProcess(p) PROVE Resting'
  <2>1. CASE Heartbeat(p) \/ HeartbeatFails(p)
    BY <1>4, <2>1 DEF Heartbeat, HeartbeatFails
  <2>2. CASE Drained(p) \/ DrainTimesOut(p)
    BY <1>6, <2>2 DEF Drained, DrainTimesOut
  <2>3. CASE Exit(p) \/ Die(p) \/ Killed(p)
    BY <1>5, <2>3 DEF Exit, Die, Killed
  <2>4. CASE \/ Start(p) \/ RetryFires(p) \/ Ready(p) \/ TickStarts(p) \/ TickSends(p)
             \/ TickProceeds(p) \/ Shutdown(p)
    BY <1>3, <2>4 DEF Start, RetryFires, Ready, TickStarts, TickSends, TickProceeds, Shutdown, belief
  <2>5. QED BY <1>10, <2>1, <2>2, <2>3, <2>4 DEF OfProcess
<1>11. QED BY <1>3, <1>9, <1>10 DEF Next, vars

\* While no process has two attempts in flight, the lock is never left with a
\* connection that nobody watches, whatever is lost, killed or replaced.
THEOREM LockHasAWatcher == MaxAttempts <= 1 => (Spec => []LockIsWatched)
<1> SUFFICES ASSUME MaxAttempts <= 1 PROVE Spec => []LockIsWatched
  OBVIOUS
<1>1. Init => Watched /\ Resting
  BY DEF Init, Watched, Told, Clients, OneAttempt, Resting, InFlight, Unopened, Phases, Sessions
<1>2. Grounded /\ Watched /\ Resting /\ [Next]_vars => Watched'
  <2>1. UNCHANGED vars /\ Watched => Watched'
    BY DEF vars, Watched, Told, Clients, OneAttempt, InFlight
  <2>2. QED BY <2>1, WatchedSession, WatchedProcess DEF Next
<1>3. Grounded /\ Watched => LockIsWatched
  BY DEF Grounded, Typed, Watched, Told, Clients, Given, LockIsWatched
<1>4. QED BY <1>1, <1>2, <1>3, GroundedInit, GroundedStep, RestingStep, PTL DEF Spec
=============================================================================
