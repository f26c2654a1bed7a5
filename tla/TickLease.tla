------------------------------ MODULE TickLease ------------------------------
(***************************************************************************)
(* The lease under which serverless invocations take turns                 *)
(* (src/persistence/tickLease.ts): cron ticks and manual exits each run    *)
(* withLease() under an owner id of their own, on containers whose clocks  *)
(* may differ, and are ended by the platform when they exceed their        *)
(* maximum duration.                                                       *)
(*                                                                         *)
(* Every method samples the local clock, then sends one SQL statement.     *)
(* The statement takes effect later, at one instant, whether or not the    *)
(* invocation that sent it still runs.                                     *)
(***************************************************************************)
EXTENDS Integers, FiniteSets

CONSTANTS
  Invocations, \* every invocation ever made, each with its own random owner id
  NoOwner,     \* the lease row does not exist yet
  TTL,         \* LeaseOptions.ttlMs
  MaxDuration, \* vercel.json: how long the platform lets an invocation run
  Skew,        \* how far apart the clocks of two containers may be
  MaxClock     \* bound: when the run ends

ASSUME DurationsAssumption ==
  TTL \in Nat /\ MaxDuration \in Nat /\ Skew \in Nat /\ MaxClock \in Nat
ASSUME NoOwnerAssumption == NoOwner \notin Invocations
\* The lease outlasts every invocation, on whatever container's clock: 120 s
\* against 60 s as deployed.
LeaseOutlastsWork == MaxDuration + Skew < TTL

VARIABLES
  clock, \* real time
  skew,  \* invocation -> how far its container's clock is ahead
  born,  \* invocation -> when it was started
  at,    \* invocation -> where it is in withLease
  stmt,  \* invocation -> its statement in flight, with the time it sampled
  lease  \* the row of trading.job_lease

vars == <<clock, skew, born, at, stmt, lease>>

Stages    == {"new", "started", "asking", "working", "leaving", "done"}
Running   == {"started", "asking", "working", "leaving"}
Statement == [op : {"none", "acquire", "renew", "release"}, now : Nat]
NoStmt    == [op |-> "none", now |-> 0]

TypeOK ==
  /\ clock \in 0..MaxClock
  /\ skew \in [Invocations -> 0..Skew]
  /\ born \in [Invocations -> 0..MaxClock]
  /\ at \in [Invocations -> Stages]
  /\ stmt \in [Invocations -> Statement]
  /\ lease \in [owner : Invocations \cup {NoOwner}, expires : Nat]

Init ==
  /\ clock = 0
  /\ skew \in [Invocations -> 0..Skew]
  /\ born = [i \in Invocations |-> 0]
  /\ at = [i \in Invocations |-> "new"]
  /\ stmt = [i \in Invocations |-> NoStmt]
  /\ lease = [owner |-> NoOwner, expires |-> 0]

Now(i)      == clock + skew[i]
Move(i, to) == at' = [at EXCEPT ![i] = to]
Sends(i, op) == stmt' = [stmt EXCEPT ![i] = [op |-> op, now |-> Now(i)]]
Landed(i)   == stmt' = [stmt EXCEPT ![i] = NoStmt]

\* The platform ends an invocation at its deadline at the latest.
Deadline(i) == born[i] + MaxDuration
Elapse ==
  /\ clock < MaxClock
  /\ \A i \in Invocations : at[i] \in Running => clock < Deadline(i)
  /\ clock' = clock + 1
  /\ UNCHANGED <<skew, born, at, stmt, lease>>

Invoke(i) ==
  /\ at[i] = "new"
  /\ Move(i, "started")
  /\ born' = [born EXCEPT ![i] = clock]
  /\ UNCHANGED <<clock, skew, stmt, lease>>

Kill(i) ==
  /\ at[i] \in Running
  /\ Move(i, "done")
  /\ UNCHANGED <<clock, skew, born, stmt, lease>>

-----------------------------------------------------------------------------
(* acquire                                                                 *)

AcquireSends(i) ==
  /\ at[i] = "started"
  /\ Move(i, "asking")
  /\ Sends(i, "acquire")
  /\ UNCHANGED <<clock, skew, born, lease>>

\* INSERT ... ON CONFLICT DO UPDATE ... WHERE expires_at <= now.
Until(now) == now + TTL
Stale(now) == lease.expires <= now + TTL \div 2  \* mutant: a lease past its half is taken
Free(now)  == lease.owner = NoOwner \/ lease.expires <= now

AcquireLands(i) ==
  /\ stmt[i].op = "acquire"
  /\ lease' = IF Free(stmt[i].now) THEN [owner |-> i, expires |-> Until(stmt[i].now)] ELSE lease
  /\ at' = [at EXCEPT ![i] = IF @ # "asking" THEN @
                             ELSE IF Free(stmt[i].now) THEN "working" ELSE "done"]
  /\ Landed(i)
  /\ UNCHANGED <<clock, skew, born>>

\* The query throws before or after it took effect: withLease throws.
AcquireThrows(i) ==
  /\ stmt[i].op = "acquire" /\ at[i] = "asking"
  /\ Move(i, "done")
  /\ UNCHANGED <<clock, skew, born, stmt, lease>>

-----------------------------------------------------------------------------
(* renew and release                                                       *)

RenewSends(i) ==
  /\ at[i] = "working" /\ stmt[i].op = "none"
  /\ Sends(i, "renew")
  /\ UNCHANGED <<clock, skew, born, at, lease>>

Stacked(now)  == lease.expires + TTL     \* mutant: added to what is left
Extended(now) == now + TTL
RenewLands(i) ==
  /\ stmt[i].op = "renew"
  /\ lease' = IF lease.owner = i /\ lease.expires > stmt[i].now
              THEN [lease EXCEPT !.expires = Extended(stmt[i].now)] ELSE lease
  /\ Landed(i)
  /\ UNCHANGED <<clock, skew, born, at>>

\* The finally block of withLease, however the work ended.
ReleaseSends(i) ==
  /\ at[i] = "working" /\ stmt[i].op = "none"
  /\ Move(i, "leaving")
  /\ Sends(i, "release")
  /\ UNCHANGED <<clock, skew, born, lease>>

Whoever(i) == TRUE                       \* mutant: no owner in the WHERE clause
Own(i)     == lease.owner = i
BackDated(now) == now - TTL              \* mutant: expired by a whole ttl
Ended(now)     == now
ReleaseLands(i) ==
  /\ stmt[i].op = "release"
  /\ lease' = IF Own(i) THEN [lease EXCEPT !.expires = Ended(stmt[i].now)] ELSE lease
  /\ at' = [at EXCEPT ![i] = "done"]
  /\ Landed(i)
  /\ UNCHANGED <<clock, skew, born>>

\* A statement that never reaches the database.
Lost(i) ==
  /\ at[i] = "done" /\ stmt[i].op # "none"
  /\ Landed(i)
  /\ UNCHANGED <<clock, skew, born, at, lease>>

-----------------------------------------------------------------------------
Step(i) == \/ Invoke(i) \/ Kill(i) \/ AcquireSends(i) \/ AcquireLands(i) \/ AcquireThrows(i)
           \/ RenewSends(i) \/ RenewLands(i) \/ ReleaseSends(i) \/ ReleaseLands(i) \/ Lost(i)
Next == Elapse \/ \E i \in Invocations : Step(i)
Spec == Init /\ [][Next]_vars

-----------------------------------------------------------------------------
(* Properties                                                              *)

\* Two overlapping invocations never both work, however late their statements
\* land, whichever is ended when, and whatever their clocks say.
NoTwoWorkers ==
  \A i, j \in Invocations : at[i] = "working" /\ at[j] = "working" => i = j

\* Why: the lease of an invocation that works is its own, and lasts until
\* after the platform has ended it, by the clock of any container.
WorkerHolds ==
  \A i \in Invocations : at[i] = "working" =>
    lease.owner = i /\ lease.expires >= born[i] + skew[i] + TTL
WithinLimits ==
  \A i \in Invocations :
    /\ at[i] # "new" => born[i] <= clock
    /\ at[i] \in Running => clock <= Deadline(i)
Sequential ==
  \A i \in Invocations :
    /\ stmt[i].now <= Now(i)
    /\ stmt[i].op \in {"acquire", "renew"} => stmt[i].now >= born[i] + skew[i]
    /\ stmt[i].op # "none" => at[i] \notin {"new", "started"}
    /\ at[i] = "asking" => stmt[i].op = "acquire"
    /\ at[i] = "working" => stmt[i].op \in {"none", "renew"}
TakenInTurns == WorkerHolds /\ WithinLimits /\ Sequential

\* A lease whose holder is dead is free again after TTL, by the fastest clock.
NeverBlockedLonger == lease.expires <= clock + Skew + TTL
=============================================================================
