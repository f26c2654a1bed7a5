----------------------------- MODULE AlertQueue -----------------------------
(***************************************************************************)
(* Durable delivery of alerts: RedisQueue (messaging/queue.ts) and the     *)
(* worker that drains it (AlertDelivery, monitoring/alertDelivery.ts).     *)
(* Every call to Redis is a step of its own, so two processes (a deploy    *)
(* overlaps), a process's pump and its recovery pass, and a death between  *)
(* two calls interleave as they can.                                       *)
(*                                                                         *)
(* A job is the JSON text in the lists: the alert (payload and id) and the *)
(* number of attempts.  The ready and processing lists hold a job any      *)
(* number of times; their order is left open.  Time is two nondeterministic*)
(* steps: a claim outlives the visibility timeout, a backoff ends.         *)
(***************************************************************************)
EXTENDS Integers, FiniteSets

CONSTANTS
  Alerts,       \* what AlertManager raises; also the id of the job
  Processes,    \* processes that run an AlertDelivery
  NoJob,        \* null
  MaxAttempts,  \* QueueConfig.maxAttempts
  MaxEvents     \* bound: starts, plus Redis calls that throw and POSTs cut off by the timeout

ASSUME AttemptsAssumption == MaxAttempts \in Nat \ {0}
ASSUME EventsAssumption   == MaxEvents \in Nat

VARIABLES
  ready,       \* queue:alerts:ready, how often each job is in it
  delayed,     \* queue:alerts:delayed, a sorted set
  processing,  \* queue:alerts:processing
  claimed,     \* queue:alerts:processing:claimed: the ids with a claim that is recent
  dead,        \* queue:alerts:dead
  pump,        \* per process: where deliverBatch is
  recovery,    \* per process: where recoverAbandoned is
  up,          \* the processes that run
  starts, errors,
  raised,      \* history: alerts that were enqueued
  posts,       \* history: POSTs made, per alert
  accepted,    \* history: POSTs the webhook accepted, per alert
  returned,    \* history: alerts a recovery pass put back
  dropped      \* history: alerts a process had in hand, and in no list, when it stopped

lists    == <<ready, delayed, processing, claimed, dead>>
counters == <<up, starts, errors>>
history  == <<raised, posts, accepted, returned, dropped>>
vars     == <<lists, pump, recovery, counters, history>>

Job == [alert : Alerts, attempts : 0..MaxAttempts - 1]
ASSUME NoJobAssumption == NoJob \notin Job

\* One more, one less (LREM with count 1; nothing happens when there is none).
Push(list, j) == [list EXCEPT ![j] = @ + 1]
SureDrop(list, j) == [list EXCEPT ![j] = @ - 1]   \* mutant: the job is taken to be there
Drop(list, j) == [list EXCEPT ![j] = IF @ = 0 THEN 0 ELSE @ - 1]

Resting == [at |-> "idle", job |-> NoJob, due |-> {}]
Ended   == [at |-> "idle", job |-> NoJob, known |-> {}, todo |-> {}]

MayHappen == starts + errors < MaxEvents

PumpAt(p, at) == p \in up /\ pump[p].at = at
RecAt(p, at)  == p \in up /\ recovery[p].at = at

\* The pump of p goes on at another place, with the job it has.
PumpTo(p, at) == pump' = [pump EXCEPT ![p].at = at]
PumpRests(p)  == pump' = [pump EXCEPT ![p] = Resting]
RecTo(p, at)  == recovery' = [recovery EXCEPT ![p].at = at]

-----------------------------------------------------------------------------
(* enqueue: AlertDelivery.sink                                             *)

\* A sink that cannot reach Redis swallows the error: the alert is then not in
\* the queue and this module says nothing of it.
Enqueue(a) ==
  /\ a \notin raised
  /\ up # {}
  /\ raised' = raised \cup {a}
  /\ ready' = Push(ready, [alert |-> a, attempts |-> 0])
  /\ UNCHANGED <<delayed, processing, claimed, dead, pump, recovery, counters,
                 posts, accepted, returned, dropped>>

-----------------------------------------------------------------------------
(* pump, deliverBatch and claim                                            *)

\* The first call of a claim reads the delayed jobs whose time has come; when
\* there are none it goes on to the second at once.  A pump that is due while
\* one is running returns at once.
Due == {j \in Job : delayed[j] = "due"}

PumpReads(p) ==
  /\ PumpAt(p, "idle")
  /\ Due # {}
  /\ pump' = [pump EXCEPT ![p].at = "promote", ![p].due = Due]
  /\ UNCHANGED <<lists, recovery, counters, history>>

\* One MULTI: what was read goes to the ready list, whether or not another
\* process has promoted it meanwhile (the result of ZREM is not looked at).
PromoteAgain(due) == UNCHANGED delayed     \* mutant: ZREM is forgotten
Promoted(due) == delayed' = [j \in Job |-> IF j \in due THEN "absent" ELSE delayed[j]]

Promote(p) ==
  /\ PumpAt(p, "promote")
  /\ ready' = [j \in Job |-> ready[j] + (IF j \in pump[p].due THEN 1 ELSE 0)]
  /\ Promoted(pump[p].due)
  /\ PumpRests(p)
  /\ UNCHANGED <<processing, claimed, dead, recovery, counters, history>>

\* RPOPLPUSH: from ready to processing in one step.  With nothing ready the
\* batch ends, which changes nothing.
PopOnly(j) == UNCHANGED processing         \* mutant: RPOP, the list is left out
Processing(j) == processing' = Push(processing, j)

Claim(p, j) ==
  /\ PumpAt(p, "idle")
  /\ ready[j] > 0
  /\ ready' = Drop(ready, j)
  /\ Processing(j)
  /\ pump' = [pump EXCEPT ![p].at = "note", ![p].job = j]
  /\ UNCHANGED <<delayed, claimed, dead, recovery, counters, history>>

\* HSET of the time of the claim.
NoteClaim(p) ==
  /\ PumpAt(p, "note")
  /\ claimed' = claimed \cup {pump[p].job.alert}
  /\ PumpTo(p, "post")
  /\ UNCHANGED <<ready, delayed, processing, dead, recovery, counters, history>>

\* claim() throws: the batch ends.  A job that was popped stays in processing.
ClaimThrows(p) ==
  /\ MayHappen
  /\ PumpAt(p, "promote") \/ PumpAt(p, "note")
  /\ errors' = errors + 1
  /\ PumpRests(p)
  /\ UNCHANGED <<lists, recovery, up, starts, history>>

-----------------------------------------------------------------------------
(* deliver, complete and fail                                              *)

\* The histories count no further than the properties look.
UpTo(n, most) == IF n < most THEN n + 1 ELSE n
Posted(p)   == posts' = [posts EXCEPT ![pump[p].job.alert] = UpTo(@, MaxAttempts)]
Received(p) == accepted' = [accepted EXCEPT ![pump[p].job.alert] = UpTo(@, 2)]

\* The webhook answers 2xx.
PostAccepted(p) ==
  /\ PumpAt(p, "post")
  /\ Posted(p) /\ Received(p)
  /\ PumpTo(p, "complete")
  /\ UNCHANGED <<lists, recovery, counters, raised, returned, dropped>>

\* It answers otherwise, or not at all.
PostFails(p) ==
  /\ PumpAt(p, "post")
  /\ Posted(p)
  /\ PumpTo(p, "fail")
  /\ UNCHANGED <<lists, recovery, counters, raised, accepted, returned, dropped>>

\* It takes the alert but its answer comes after the timeout.
PostTimesOut(p) ==
  /\ PumpAt(p, "post")
  /\ MayHappen
  /\ errors' = errors + 1
  /\ Posted(p) /\ Received(p)
  /\ PumpTo(p, "fail")
  /\ UNCHANGED <<lists, recovery, up, starts, raised, returned, dropped>>

Forget(a) == claimed' = claimed \ {a}

\* complete(): LREM, then HDEL.
CompleteRemoves(p) ==
  /\ PumpAt(p, "complete")
  /\ processing' = Drop(processing, pump[p].job)
  /\ PumpTo(p, "completed")
  /\ UNCHANGED <<ready, delayed, claimed, dead, recovery, counters, history>>

CompleteForgets(p) ==
  /\ PumpAt(p, "completed")
  /\ Forget(pump[p].job.alert)
  /\ PumpRests(p)
  /\ UNCHANGED <<ready, delayed, processing, dead, recovery, counters, history>>

\* complete() throws inside the try: the delivered job is treated as failed.
CompleteThrows(p) ==
  /\ MayHappen
  /\ PumpAt(p, "complete") \/ PumpAt(p, "completed")
  /\ errors' = errors + 1
  /\ PumpTo(p, "fail")
  /\ UNCHANGED <<lists, recovery, up, starts, history>>

\* fail(): LREM, HDEL, and only then the retry or the dead letter.
FailRemoves(p) ==
  /\ PumpAt(p, "fail")
  /\ processing' = Drop(processing, pump[p].job)
  /\ PumpTo(p, "failed")
  /\ UNCHANGED <<ready, delayed, claimed, dead, recovery, counters, history>>

FailForgets(p) ==
  /\ PumpAt(p, "failed")
  /\ Forget(pump[p].job.alert)
  /\ PumpTo(p, "retry")
  /\ UNCHANGED <<ready, delayed, processing, dead, recovery, counters, history>>

OneTooFew(j)  == j.attempts + 2 >= MaxAttempts   \* mutant: gives up one attempt early
Exhausted(j)  == j.attempts + 1 >= MaxAttempts

Retry(p) ==
  /\ PumpAt(p, "retry")
  /\ LET j == pump[p].job
     IN  IF Exhausted(j)
           THEN dead' = dead \cup {j} /\ UNCHANGED delayed
           ELSE /\ delayed' = [delayed EXCEPT ![[j EXCEPT !.attempts = @ + 1]] = "waiting"]
                /\ UNCHANGED dead
  /\ PumpRests(p)
  /\ UNCHANGED <<ready, processing, claimed, recovery, counters, history>>

-----------------------------------------------------------------------------
(* recoverAbandoned                                                        *)

\* It runs beside the pump, once, when the process starts.  HGETALL reads the
\* claims, LRANGE the jobs; each is then looked at with the claims as read.
ReadClaims(p) ==
  /\ RecAt(p, "claims")
  /\ recovery' = [recovery EXCEPT ![p].at = "jobs",
                                  ![p].known = claimed]
  /\ UNCHANGED <<lists, pump, counters, history>>

ReadJobs(p) ==
  /\ RecAt(p, "jobs")
  /\ recovery' = [recovery EXCEPT ![p].at = "walk",
                                  ![p].todo = {j \in Job : processing[j] > 0}]
  /\ UNCHANGED <<lists, pump, counters, history>>

\* A claim younger than the visibility timeout is left alone.
Claimed(p, j) == j.alert \in recovery[p].known

Skip(p, j) ==
  /\ RecAt(p, "walk")
  /\ j \in recovery[p].todo
  /\ Claimed(p, j)
  /\ recovery' = [recovery EXCEPT ![p].todo = @ \ {j}]
  /\ UNCHANGED <<lists, pump, counters, history>>

\* LREM, HDEL, LPUSH.  The job is pushed whether or not LREM found it.
RecoverRemoves(p, j) ==
  /\ RecAt(p, "walk")
  /\ j \in recovery[p].todo
  /\ ~Claimed(p, j)
  /\ processing' = Drop(processing, j)
  /\ recovery' = [recovery EXCEPT ![p].at = "removed", ![p].job = j, ![p].todo = @ \ {j}]
  /\ UNCHANGED <<ready, delayed, claimed, dead, pump, counters, history>>

RecoverForgets(p) ==
  /\ RecAt(p, "removed")
  /\ Forget(recovery[p].job.alert)
  /\ RecTo(p, "return")
  /\ UNCHANGED <<ready, delayed, processing, dead, pump, counters, history>>

RecoverReturns(p) ==
  /\ RecAt(p, "return")
  /\ ready' = Push(ready, recovery[p].job)
  /\ recovery' = [recovery EXCEPT ![p].at = "walk", ![p].job = NoJob]
  /\ returned' = returned \cup {recovery[p].job.alert}
  /\ UNCHANGED <<delayed, processing, claimed, dead, pump, counters, raised, posts, accepted,
                 dropped>>

RecoveryEnds(p) ==
  /\ RecAt(p, "walk")
  /\ recovery[p].todo = {}
  /\ recovery' = [recovery EXCEPT ![p] = Ended]
  /\ UNCHANGED <<lists, pump, counters, history>>

\* What a process holds that is in no list.
InHandPump(p) == IF pump[p].at \in {"failed", "retry"} THEN {pump[p].job.alert} ELSE {}
InHandRec(p)  == IF recovery[p].at \in {"removed", "return"} THEN {recovery[p].job.alert} ELSE {}
InHand(p)     == InHandPump(p) \cup InHandRec(p)

\* start() ignores an error of the recovery pass, which ends.
RecoveryThrows(p) ==
  /\ MayHappen
  /\ p \in up /\ recovery[p].at # "idle"
  /\ errors' = errors + 1
  /\ dropped' = dropped \cup InHandRec(p)
  /\ recovery' = [recovery EXCEPT ![p] = Ended]
  /\ UNCHANGED <<lists, pump, up, starts, raised, posts, accepted, returned>>

-----------------------------------------------------------------------------
(* Processes and time                                                      *)

Start(p) ==
  /\ p \notin up
  /\ MayHappen
  /\ up' = up \cup {p}
  /\ starts' = starts + 1
  /\ recovery' = [recovery EXCEPT ![p] = [Ended EXCEPT !.at = "claims"]]
  /\ UNCHANGED <<lists, pump, errors, history>>

Gone(p) ==
  /\ up' = up \ {p}
  /\ dropped' = dropped \cup InHand(p)
  /\ pump' = [pump EXCEPT ![p] = Resting]
  /\ recovery' = [recovery EXCEPT ![p] = Ended]
  /\ UNCHANGED <<lists, starts, errors, raised, posts, accepted, returned>>

\* drain() and the end of the process: it waits for the pump, not for recovery.
Stop(p) ==
  /\ PumpAt(p, "idle")
  /\ Gone(p)

\* A death.  An error inside fail() is one too: pump() is not awaited, and
\* nothing handles its rejection.
Crash(p) ==
  /\ p \in up
  /\ Gone(p)

\* A claim outlives the visibility timeout (and then counts as none); the
\* backoff of a job ends.
ClaimAges(a) ==
  /\ a \in claimed
  /\ claimed' = claimed \ {a}
  /\ UNCHANGED <<ready, delayed, processing, dead, pump, recovery, counters, history>>

BackoffEnds(j) ==
  /\ delayed[j] = "waiting"
  /\ delayed' = [delayed EXCEPT ![j] = "due"]
  /\ UNCHANGED <<ready, processing, claimed, dead, pump, recovery, counters, history>>

-----------------------------------------------------------------------------
Init ==
  /\ ready = [j \in Job |-> 0]
  /\ delayed = [j \in Job |-> "absent"]
  /\ processing = [j \in Job |-> 0]
  /\ claimed = {}
  /\ dead = {}
  /\ pump = [p \in Processes |-> Resting]
  /\ recovery = [p \in Processes |-> Ended]
  /\ up = {} /\ starts = 0 /\ errors = 0
  /\ raised = {} /\ returned = {} /\ dropped = {}
  /\ posts = [a \in Alerts |-> 0]
  /\ accepted = [a \in Alerts |-> 0]

PumpStep(p) ==
  \/ PumpReads(p) \/ Promote(p) \/ NoteClaim(p)
  \/ \E j \in Job : Claim(p, j)
  \/ PostAccepted(p) \/ PostFails(p)
  \/ CompleteRemoves(p) \/ CompleteForgets(p)
  \/ FailRemoves(p) \/ FailForgets(p) \/ Retry(p)

RecoveryStep(p) ==
  \/ ReadClaims(p) \/ ReadJobs(p)
  \/ \E j \in Job : Skip(p, j) \/ RecoverRemoves(p, j)
  \/ RecoverForgets(p) \/ RecoverReturns(p) \/ RecoveryEnds(p)

Trouble(p) ==
  \/ ClaimThrows(p) \/ PostTimesOut(p) \/ CompleteThrows(p) \/ RecoveryThrows(p)
  \/ Stop(p) \/ Crash(p)

Next ==
  \/ \E a \in Alerts : Enqueue(a) \/ ClaimAges(a)
  \/ \E j \in Job : BackoffEnds(j)
  \/ \E p \in Processes : Start(p) \/ PumpStep(p) \/ RecoveryStep(p) \/ Trouble(p)

Spec == Init /\ [][Next]_vars

-----------------------------------------------------------------------------
(* Properties                                                              *)

PumpState ==
  [at  : {"idle", "promote", "note", "post", "complete", "completed", "fail", "failed", "retry"},
   job : Job \cup {NoJob}, due : SUBSET Job]
RecoveryState ==
  [at  : {"idle", "claims", "jobs", "walk", "removed", "return"},
   job : Job \cup {NoJob}, known : SUBSET Alerts, todo : SUBSET Job]

TypeOK ==
  /\ ready \in [Job -> Nat] /\ processing \in [Job -> Nat]
  /\ delayed \in [Job -> {"absent", "waiting", "due"}]
  /\ claimed \subseteq Alerts
  /\ dead \subseteq Job
  /\ pump \in [Processes -> PumpState]
  /\ recovery \in [Processes -> RecoveryState]
  /\ up \subseteq Processes
  /\ starts \in Nat /\ errors \in Nat /\ starts + errors <= MaxEvents
  /\ raised \subseteq Alerts /\ returned \subseteq Alerts /\ dropped \subseteq Alerts
  /\ posts \in [Alerts -> 0..MaxAttempts] /\ accepted \in [Alerts -> 0..2]

InList(j) == ready[j] > 0 \/ processing[j] > 0 \/ delayed[j] # "absent" \/ j \in dead
Listed(a) == \E j \in Job : j.alert = a /\ InList(j)
Carried(a) == \E p \in up : a \in InHand(p)

\* At-least-once: an alert that was enqueued and never accepted by the webhook
\* is in one of the lists, or a live process is about to put it back; unless a
\* process stopped, or gave up its recovery pass, in exactly that gap.
Kept(a) == accepted[a] > 0 \/ Listed(a) \/ Carried(a)
LostOnlyInTheGap == \A a \in raised : Kept(a) \/ a \in dropped

\* "a crash mid-job does not lose it": the same without the exception.
NeverLost == \A a \in raised : Kept(a)

\* An alert is given up only after MaxAttempts deliveries were tried, whatever
\* is recovered, promoted twice or handed over in between.
DeadMeansTried == \A j \in dead : posts[j.alert] >= MaxAttempts

\* The webhook takes an alert once as long as one process runs, nothing fails
\* and recovery has not put the alert back.
OnceInQuietTimes ==
  errors = 0 /\ starts <= 1 => \A a \in Alerts \ returned : accepted[a] <= 1
=============================================================================
