--------------------------- MODULE ServicesProofs ---------------------------
(***************************************************************************)
(* Theorems about the components around the core.  AlertQueue, for any     *)
(* number of alerts, processes, attempts, starts and errors: an alert      *)
(* leaves the queue undelivered only when a process stops between taking   *)
(* it out of one list and putting it into the next, is given up only after *)
(* MaxAttempts deliveries, and is delivered once where one process runs    *)
(* and nothing fails.  PaperBroker and Backtest, for any orders, prices,   *)
(* volumes, schedules, bars and signals: the two sets of books balance, no *)
(* fill is worse than its limit, and the engine fills where it says.       *)
(***************************************************************************)
EXTENDS AlertQueue, Backtest, FiniteSetTheorems, WellFoundedInduction, TLAPS

\* What the walk of a job through a process adds to the types: a job is in hand
\* where one is used, and only an accepted one is completed.
HasJob == {"note", "post", "complete", "completed", "fail", "failed", "retry"}

PumpHolds(r, acc) == /\ r.at \in HasJob => r.job \in Job
                     /\ r.at \in {"complete", "completed"} => acc[r.job.alert] > 0
RecoveryHolds(r)  == r.at \in {"removed", "return"} => r.job \in Job

Holding == \A p \in Processes : PumpHolds(pump[p], accepted) /\ RecoveryHolds(recovery[p])

Inv == TypeOK /\ Holding

LEMMA JobFields == \A j \in Job : j.alert \in Alerts /\ j.attempts \in 0..MaxAttempts - 1
  BY DEF Job

LEMMA NextJob ==
  ASSUME NEW j \in Job, ~Exhausted(j)
  PROVE  [j EXCEPT !.attempts = @ + 1] \in Job
  BY AttemptsAssumption DEF Job, Exhausted

LEMMA ListType ==
  ASSUME NEW list \in [Job -> Nat], NEW j \in Job
  PROVE  /\ Push(list, j) \in [Job -> Nat]
         /\ Drop(list, j) \in [Job -> Nat]
         /\ Push(list, j)[j] > 0
         /\ \A i \in Job : list[i] > 0 => Push(list, j)[i] > 0
         /\ \A i \in Job \ {j} : Drop(list, j)[i] = list[i]
  BY DEF Push, Drop

-----------------------------------------------------------------------------
(* Types                                                                   *)

\* The two kinds of record, changed at one process.
LEMMA PumpChange ==
  ASSUME Inv, NEW p \in Processes, NEW r \in PumpState, PumpHolds(r, accepted'),
         pump' = [pump EXCEPT ![p] = r],
         \A a \in Alerts : accepted[a] > 0 => accepted'[a] > 0
  PROVE  /\ pump' \in [Processes -> PumpState]
         /\ \A q \in Processes : PumpHolds(pump'[q], accepted')
<1>1. pump' \in [Processes -> PumpState] /\ pump'[p] = r
  BY DEF Inv, TypeOK
<1>2. ASSUME NEW q \in Processes, q # p PROVE PumpHolds(pump'[q], accepted')
  <2>1. pump'[q] = pump[q] /\ PumpHolds(pump[q], accepted)
    BY <1>2 DEF Inv, TypeOK, Holding
  <2>2. QED BY <2>1, JobFields DEF PumpHolds, HasJob
<1>3. QED BY <1>1, <1>2

LEMMA RecoveryChange ==
  ASSUME Inv, NEW p \in Processes, NEW r \in RecoveryState, RecoveryHolds(r),
         recovery' = [recovery EXCEPT ![p] = r]
  PROVE  /\ recovery' \in [Processes -> RecoveryState]
         /\ \A q \in Processes : RecoveryHolds(recovery'[q])
<1>1. recovery' \in [Processes -> RecoveryState] /\ recovery'[p] = r
  BY DEF Inv, TypeOK
<1>2. ASSUME NEW q \in Processes, q # p PROVE RecoveryHolds(recovery'[q])
  BY <1>2 DEF Inv, TypeOK, Holding
<1>3. QED BY <1>1, <1>2

\* The records a process has, has next, and starts with.
LEMMA RestingType ==
  /\ Resting \in PumpState /\ \A acc : PumpHolds(Resting, acc)
  /\ Ended \in RecoveryState /\ RecoveryHolds(Ended)
  BY DEF Resting, Ended, PumpState, RecoveryState, PumpHolds, RecoveryHolds, HasJob

LEMMA PumpGoesOn ==
  ASSUME Inv, NEW p \in Processes,
         NEW at \in {"post", "complete", "completed", "fail", "failed", "retry"},
         pump[p].at \in HasJob, PumpTo(p, at),
         \A a \in Alerts : accepted[a] > 0 => accepted'[a] > 0,
         at \in {"complete", "completed"} => accepted'[pump[p].job.alert] > 0
  PROVE  /\ pump' \in [Processes -> PumpState]
         /\ \A q \in Processes : PumpHolds(pump'[q], accepted')
<1> DEFINE r == [pump[p] EXCEPT !.at = at]
<1>1. pump[p] \in PumpState /\ pump[p].job \in Job
  BY DEF Inv, TypeOK, Holding, PumpHolds
<1>2. r \in PumpState /\ r.at = at /\ r.job = pump[p].job
  BY <1>1 DEF PumpState
<1>3. PumpHolds(r, accepted')
  BY <1>1, <1>2 DEF PumpHolds, HasJob
<1>4. pump' = [pump EXCEPT ![p] = r]
  BY DEF PumpTo
<1> HIDE DEF r
<1>5. QED BY <1>2, <1>3, <1>4, PumpChange

LEMMA InitInv == Init => Inv
<1> SUFFICES ASSUME Init PROVE Inv
  OBVIOUS
<1>1. /\ ready \in [Job -> Nat] /\ processing \in [Job -> Nat]
      /\ delayed \in [Job -> {"absent", "waiting", "due"}]
  BY DEF Init
<1>2. /\ claimed \subseteq Alerts /\ dead \subseteq Job /\ up \subseteq Processes
      /\ starts \in Nat /\ errors \in Nat /\ starts + errors <= MaxEvents
      /\ raised \subseteq Alerts /\ returned \subseteq Alerts /\ dropped \subseteq Alerts
      /\ posts \in [Alerts -> 0..MaxAttempts] /\ accepted \in [Alerts -> 0..2]
  BY EventsAssumption, AttemptsAssumption DEF Init
<1>3. pump \in [Processes -> PumpState] /\ recovery \in [Processes -> RecoveryState]
  BY RestingType DEF Init
<1>4. Holding
  BY RestingType DEF Init, Holding
<1>5. QED BY <1>1, <1>2, <1>3, <1>4 DEF Inv, TypeOK

LEMMA InvStep == Inv /\ [Next]_vars => Inv'
<1> SUFFICES ASSUME Inv, [Next]_vars PROVE Inv'
  OBVIOUS
<1> DEFINE PumpOK     == /\ pump' \in [Processes -> PumpState]
                         /\ \A q \in Processes : PumpHolds(pump'[q], accepted')
           RecoveryOK == /\ recovery' \in [Processes -> RecoveryState]
                         /\ \A q \in Processes : RecoveryHolds(recovery'[q])
           RestOK     == /\ ready' \in [Job -> Nat] /\ processing' \in [Job -> Nat]
                         /\ delayed' \in [Job -> {"absent", "waiting", "due"}]
                         /\ claimed' \subseteq Alerts /\ dead' \subseteq Job
                         /\ up' \subseteq Processes
                         /\ starts' \in Nat /\ errors' \in Nat /\ starts' + errors' <= MaxEvents
                         /\ raised' \subseteq Alerts /\ returned' \subseteq Alerts
                         /\ dropped' \subseteq Alerts
                         /\ posts' \in [Alerts -> 0..MaxAttempts]
                         /\ accepted' \in [Alerts -> 0..2]
<1>0. ASSUME PumpOK, RecoveryOK, RestOK PROVE Inv'
  BY <1>0 DEF Inv, TypeOK, Holding
<1>a. (UNCHANGED <<pump, accepted>> => PumpOK) /\ (UNCHANGED recovery => RecoveryOK)
  BY DEF Inv, TypeOK, Holding
<1>b. UNCHANGED accepted => \A a \in Alerts : accepted[a] > 0 => accepted'[a] > 0
  OBVIOUS
<1>c. ASSUME NEW p \in Processes, PumpRests(p), UNCHANGED accepted PROVE PumpOK
  BY <1>c, <1>b, RestingType, PumpChange DEF PumpRests
<1>d. ASSUME NEW p \in Processes, pump[p].at \in HasJob
      PROVE  pump[p].job \in Job /\ pump[p].job.alert \in Alerts
  BY <1>d, JobFields DEF Inv, Holding, PumpHolds
<1>e. ASSUME NEW p \in Processes PROVE InHand(p) \subseteq Alerts /\ InHandRec(p) \subseteq Alerts
  BY JobFields DEF Inv, Holding, PumpHolds, RecoveryHolds, HasJob, InHand, InHandPump, InHandRec
<1> USE DEF lists, counters, history, MayHappen
<1>1. ASSUME NEW a \in Alerts, Enqueue(a) PROVE Inv'
  <2>1. [alert |-> a, attempts |-> 0] \in Job
    BY AttemptsAssumption DEF Job
  <2>2. RestOK
    BY <1>1, <2>1, ListType DEF Enqueue, Inv, TypeOK
  <2>3. QED BY <1>0, <1>1, <1>a, <2>2 DEF Enqueue
<1>2. ASSUME NEW a \in Alerts, ClaimAges(a) PROVE Inv'
  <2>1. RestOK
    BY <1>2 DEF ClaimAges, Inv, TypeOK
  <2>2. QED BY <1>0, <1>2, <1>a, <2>1 DEF ClaimAges
<1>3. ASSUME NEW j \in Job, BackoffEnds(j) PROVE Inv'
  <2>1. RestOK
    BY <1>3 DEF BackoffEnds, Inv, TypeOK
  <2>2. QED BY <1>0, <1>3, <1>a, <2>1 DEF BackoffEnds
<1>4. ASSUME NEW p \in Processes, Start(p) PROVE Inv'
  <2>1. [Ended EXCEPT !.at = "claims"] \in RecoveryState
        /\ RecoveryHolds([Ended EXCEPT !.at = "claims"])
    BY DEF Ended, RecoveryState, RecoveryHolds
  <2>2. RecoveryOK
    BY <1>4, <2>1, RecoveryChange DEF Start
  <2>3. RestOK
    BY <1>4, EventsAssumption DEF Start, Inv, TypeOK
  <2>4. QED BY <1>0, <1>4, <1>a, <2>2, <2>3 DEF Start
<1>5. ASSUME NEW p \in Processes, PumpReads(p) PROVE Inv'
  <2> DEFINE r == [pump[p] EXCEPT !.at = "promote", !.due = Due]
  <2>1. r \in PumpState /\ r.at = "promote"
    BY DEF Inv, TypeOK, PumpState, Due
  <2>2. PumpHolds(r, accepted')
    BY <2>1 DEF PumpHolds, HasJob
  <2>3. pump' = [pump EXCEPT ![p] = r]
    BY <1>5 DEF PumpReads
  <2> HIDE DEF r
  <2>4. PumpOK
    BY <1>5, <1>b, <2>1, <2>2, <2>3, PumpChange DEF PumpReads
  <2>5. RestOK
    BY <1>5 DEF PumpReads, Inv, TypeOK
  <2>6. QED BY <1>0, <1>5, <1>a, <2>4, <2>5 DEF PumpReads
<1>6. ASSUME NEW p \in Processes, Promote(p) PROVE Inv'
  <2>1. RestOK
    BY <1>6 DEF Promote, Promoted, Inv, TypeOK
  <2>2. QED BY <1>0, <1>6, <1>a, <1>c, <2>1 DEF Promote
<1>7. ASSUME NEW p \in Processes, NEW j \in Job, Claim(p, j) PROVE Inv'
  <2> DEFINE r == [pump[p] EXCEPT !.at = "note", !.job = j]
  <2>1. r \in PumpState /\ r.at = "note" /\ r.job = j
    BY DEF Inv, TypeOK, PumpState
  <2>2. PumpHolds(r, accepted')
    BY <2>1 DEF PumpHolds, HasJob
  <2>3. pump' = [pump EXCEPT ![p] = r]
    BY <1>7 DEF Claim
  <2> HIDE DEF r
  <2>4. PumpOK
    BY <1>7, <1>b, <2>1, <2>2, <2>3, PumpChange DEF Claim
  <2>5. RestOK
    BY <1>7, ListType DEF Claim, Processing, Inv, TypeOK
  <2>6. QED BY <1>0, <1>7, <1>a, <2>4, <2>5 DEF Claim
<1>8. ASSUME NEW p \in Processes, NoteClaim(p) PROVE Inv'
  <2>1. pump[p].at \in HasJob
    BY <1>8 DEF NoteClaim, PumpAt, HasJob
  <2>2. PumpOK
    BY <1>8, <1>b, <2>1, PumpGoesOn DEF NoteClaim
  <2>3. RestOK
    BY <1>8, <1>d, <2>1 DEF NoteClaim, Inv, TypeOK
  <2>4. QED BY <1>0, <1>8, <1>a, <2>2, <2>3 DEF NoteClaim
<1>9. ASSUME NEW p \in Processes, PostAccepted(p) \/ PostFails(p) \/ PostTimesOut(p) PROVE Inv'
  <2>1. pump[p].at \in HasJob
    BY <1>9 DEF PostAccepted, PostFails, PostTimesOut, PumpAt, HasJob
  <2>2. pump[p].job \in Job /\ pump[p].job.alert \in Alerts
    BY <1>d, <2>1
  <2>3. /\ posts' \in [Alerts -> 0..MaxAttempts] /\ accepted' \in [Alerts -> 0..2]
        /\ \A a \in Alerts : accepted[a] > 0 => accepted'[a] > 0
        /\ ~PostFails(p) => accepted'[pump[p].job.alert] > 0
    BY <1>9, <2>2, AttemptsAssumption
    DEF PostAccepted, PostFails, PostTimesOut, Posted, Received, UpTo, Inv, TypeOK
  <2>4. PumpOK
    BY <1>9, <2>1, <2>3, PumpGoesOn DEF PostAccepted, PostFails, PostTimesOut
  <2>5. RestOK
    BY <1>9, <2>3, EventsAssumption DEF PostAccepted, PostFails, PostTimesOut, Inv, TypeOK
  <2>6. QED BY <1>0, <1>9, <1>a, <2>4, <2>5 DEF PostAccepted, PostFails, PostTimesOut
<1>10. ASSUME NEW p \in Processes, CompleteRemoves(p) \/ FailRemoves(p) PROVE Inv'
  <2>1. pump[p].at \in HasJob
    BY <1>10 DEF CompleteRemoves, FailRemoves, PumpAt, HasJob
  <2>2. CompleteRemoves(p) => accepted'[pump[p].job.alert] > 0
    BY DEF CompleteRemoves, PumpAt, Inv, Holding, PumpHolds
  <2>3. PumpOK
    BY <1>10, <1>b, <2>1, <2>2, PumpGoesOn DEF CompleteRemoves, FailRemoves
  <2>4. RestOK
    BY <1>10, <1>d, <2>1, ListType, SMTT(30) DEF CompleteRemoves, FailRemoves, Inv, TypeOK
  <2>5. QED BY <1>0, <1>10, <1>a, <2>3, <2>4 DEF CompleteRemoves, FailRemoves
<1>11. ASSUME NEW p \in Processes, CompleteForgets(p) PROVE Inv'
  <2>1. RestOK
    BY <1>11 DEF CompleteForgets, Forget, Inv, TypeOK
  <2>2. QED BY <1>0, <1>11, <1>a, <1>c, <2>1 DEF CompleteForgets
<1>12. ASSUME NEW p \in Processes, FailForgets(p) PROVE Inv'
  <2>1. pump[p].at \in HasJob
    BY <1>12 DEF FailForgets, PumpAt, HasJob
  <2>2. PumpOK
    BY <1>12, <1>b, <2>1, PumpGoesOn DEF FailForgets
  <2>3. RestOK
    BY <1>12 DEF FailForgets, Forget, Inv, TypeOK
  <2>4. QED BY <1>0, <1>12, <1>a, <2>2, <2>3 DEF FailForgets
<1>13. ASSUME NEW p \in Processes, Retry(p) PROVE Inv'
  <2>1. pump[p].job \in Job
    BY <1>13, <1>d DEF Retry, PumpAt, HasJob
  <2>2. RestOK
    <3>1. CASE Exhausted(pump[p].job)
      BY <1>13, <2>1, <3>1 DEF Retry, Inv, TypeOK
    <3>2. CASE ~Exhausted(pump[p].job)
      BY <1>13, <2>1, <3>2, NextJob DEF Retry, Inv, TypeOK
    <3>3. QED BY <3>1, <3>2
  <2>3. QED BY <1>0, <1>13, <1>a, <1>c, <2>2 DEF Retry
<1>14. ASSUME NEW p \in Processes, ClaimThrows(p) PROVE Inv'
  <2>1. RestOK
    BY <1>14, EventsAssumption DEF ClaimThrows, Inv, TypeOK
  <2>2. QED BY <1>0, <1>14, <1>a, <1>c, <2>1 DEF ClaimThrows
<1>15. ASSUME NEW p \in Processes, CompleteThrows(p) PROVE Inv'
  <2>1. pump[p].at \in HasJob
    BY <1>15 DEF CompleteThrows, PumpAt, HasJob
  <2>2. PumpOK
    BY <1>15, <1>b, <2>1, PumpGoesOn DEF CompleteThrows
  <2>3. RestOK
    BY <1>15, EventsAssumption DEF CompleteThrows, Inv, TypeOK
  <2>4. QED BY <1>0, <1>15, <1>a, <2>2, <2>3 DEF CompleteThrows
<1>16. ASSUME NEW p \in Processes, ReadClaims(p) \/ ReadJobs(p) PROVE Inv'
  <2> DEFINE r == IF ReadClaims(p)
                    THEN [recovery[p] EXCEPT !.at = "jobs", !.known = claimed]
                    ELSE [recovery[p] EXCEPT !.at = "walk",
                                             !.todo = {j \in Job : processing[j] > 0}]
  <2>1. r \in RecoveryState /\ RecoveryHolds(r)
    BY DEF Inv, TypeOK, RecoveryState, RecoveryHolds
  <2>2. recovery' = [recovery EXCEPT ![p] = r]
    BY <1>16 DEF ReadClaims, ReadJobs
  <2> HIDE DEF r
  <2>3. RecoveryOK
    BY <2>1, <2>2, RecoveryChange
  <2>4. RestOK
    BY <1>16 DEF ReadClaims, ReadJobs, Inv, TypeOK
  <2>5. QED BY <1>0, <1>16, <1>a, <2>3, <2>4 DEF ReadClaims, ReadJobs
<1>17. ASSUME NEW p \in Processes, NEW j \in Job, Skip(p, j) PROVE Inv'
  <2> DEFINE r == [recovery[p] EXCEPT !.todo = @ \ {j}]
  <2>1. r \in RecoveryState /\ r.at = "walk"
    BY <1>17 DEF Skip, RecAt, Inv, TypeOK, RecoveryState
  <2>2. RecoveryHolds(r)
    BY <2>1 DEF RecoveryHolds
  <2>3. recovery' = [recovery EXCEPT ![p] = r]
    BY <1>17 DEF Skip
  <2> HIDE DEF r
  <2>4. RecoveryOK
    BY <2>1, <2>2, <2>3, RecoveryChange
  <2>5. RestOK
    BY <1>17 DEF Skip, Inv, TypeOK
  <2>6. QED BY <1>0, <1>17, <1>a, <2>4, <2>5 DEF Skip
<1>18. ASSUME NEW p \in Processes, NEW j \in Job, RecoverRemoves(p, j) PROVE Inv'
  <2> DEFINE r == [recovery[p] EXCEPT !.at = "removed", !.job = j, !.todo = @ \ {j}]
  <2>1. r \in RecoveryState /\ RecoveryHolds(r)
    BY DEF Inv, TypeOK, RecoveryState, RecoveryHolds
  <2>2. recovery' = [recovery EXCEPT ![p] = r]
    BY <1>18 DEF RecoverRemoves
  <2> HIDE DEF r
  <2>3. RecoveryOK
    BY <2>1, <2>2, RecoveryChange
  <2>4. RestOK
    BY <1>18, ListType DEF RecoverRemoves, Inv, TypeOK
  <2>5. QED BY <1>0, <1>18, <1>a, <2>3, <2>4 DEF RecoverRemoves
<1>19. ASSUME NEW p \in Processes, RecoverForgets(p) \/ RecoverReturns(p) PROVE Inv'
  <2>1. recovery[p].job \in Job /\ recovery[p].job.alert \in Alerts
    BY <1>19, JobFields DEF RecoverForgets, RecoverReturns, RecAt, Inv, Holding, RecoveryHolds
  <2> DEFINE r == IF RecoverForgets(p)
                    THEN [recovery[p] EXCEPT !.at = "return"]
                    ELSE [recovery[p] EXCEPT !.at = "walk", !.job = NoJob]
  <2>2. r \in RecoveryState /\ RecoveryHolds(r)
    BY <2>1 DEF Inv, TypeOK, RecoveryState, RecoveryHolds
  <2>3. recovery' = [recovery EXCEPT ![p] = r]
    BY <1>19 DEF RecoverForgets, RecoverReturns, RecTo
  <2> HIDE DEF r
  <2>4. RecoveryOK
    BY <2>2, <2>3, RecoveryChange
  <2>5. RestOK
    BY <1>19, <2>1, ListType DEF RecoverForgets, RecoverReturns, Forget, Inv, TypeOK
  <2>6. QED BY <1>0, <1>19, <1>a, <2>4, <2>5 DEF RecoverForgets, RecoverReturns
<1>20. ASSUME NEW p \in Processes, RecoveryEnds(p) \/ RecoveryThrows(p) PROVE Inv'
  <2>1. RecoveryOK
    BY <1>20, RestingType, RecoveryChange DEF RecoveryEnds, RecoveryThrows
  <2>2. RestOK
    BY <1>20, <1>e, EventsAssumption DEF RecoveryEnds, RecoveryThrows, Inv, TypeOK
  <2>3. QED BY <1>0, <1>20, <1>a, <2>1, <2>2 DEF RecoveryEnds, RecoveryThrows
<1>21. ASSUME NEW p \in Processes, Stop(p) \/ Crash(p) PROVE Inv'
  <2>1. Gone(p)
    BY <1>21 DEF Stop, Crash
  <2>2. PumpOK
    BY <2>1, <1>b, RestingType, PumpChange DEF Gone
  <2>3. RecoveryOK
    BY <2>1, RestingType, RecoveryChange DEF Gone
  <2>4. RestOK
    BY <2>1, <1>e DEF Gone, Inv, TypeOK
  <2>5. QED BY <1>0, <2>2, <2>3, <2>4
<1>22. CASE UNCHANGED vars
  BY <1>22 DEF vars, Inv, TypeOK, Holding
<1>23. QED
  BY <1>1, <1>2, <1>3, <1>4, <1>5, <1>6, <1>7, <1>8, <1>9, <1>10, <1>11, <1>12, <1>13, <1>14,
     <1>15, <1>16, <1>17, <1>18, <1>19, <1>20, <1>21, <1>22
  DEF Next, PumpStep, RecoveryStep, Trouble

\* Every variable keeps its type, whatever is duplicated, recovered or cut off.
THEOREM TypeCorrect == Spec => []TypeOK
<1>1. Inv => TypeOK
  BY DEF Inv
<1>2. QED BY InitInv, InvStep, <1>1, PTL DEF Spec

-----------------------------------------------------------------------------
(* Nothing is lost outside the gap                                         *)

Gap(p) == pump[p].at \in {"failed", "retry"}
RecGap(p) == recovery[p].at \in {"removed", "return"}

\* A step of p's pump that begins outside the gap takes nothing out of a hand,
\* and neither does a step of its recovery pass.
LEMMA PumpKeepsHands ==
  ASSUME Inv, NEW p \in Processes, ~Gap(p), UNCHANGED <<recovery, up>>,
         \A q \in Processes \ {p} : pump'[q] = pump[q]
  PROVE  \A a : Carried(a) => Carried(a)'
  BY DEF Carried, InHand, InHandPump, InHandRec, Gap, Inv, TypeOK

LEMMA RecoveryKeepsHands ==
  ASSUME Inv, NEW p \in Processes, ~RecGap(p), UNCHANGED <<pump, up>>,
         \A q \in Processes \ {p} : recovery'[q] = recovery[q]
  PROVE  \A a : Carried(a) => Carried(a)'
  BY DEF Carried, InHand, InHandPump, InHandRec, RecGap, Inv, TypeOK

LEMMA SameHands ==
  ASSUME UNCHANGED <<pump, recovery, up>>
  PROVE  \A a : Carried(a) => Carried(a)'
  BY DEF Carried, InHand, InHandPump, InHandRec

\* What each step has to show.
LEMMA Accounted ==
  ASSUME LostOnlyInTheGap,
         \A a \in Alerts : accepted[a] > 0 => accepted'[a] > 0,
         dropped \subseteq dropped',
         raised \subseteq Alerts,
         \A j \in Job : InList(j) => InList(j)' \/ Kept(j.alert)' \/ j.alert \in dropped',
         \A a \in Alerts : Carried(a) => Kept(a)' \/ a \in dropped',
         \A a \in raised' \ raised : Kept(a)'
  PROVE  LostOnlyInTheGap'
<1> SUFFICES ASSUME NEW a \in raised PROVE Kept(a)' \/ a \in dropped'
  BY DEF LostOnlyInTheGap
<1>1. a \in Alerts /\ (Kept(a) \/ a \in dropped)
  BY DEF LostOnlyInTheGap
<1>2. CASE Listed(a)
  <2>1. PICK j \in Job : j.alert = a /\ InList(j)
    BY <1>2 DEF Listed
  <2>2. CASE InList(j)'
    <3>1. Listed(a)'
      BY <2>1, <2>2 DEF Listed
    <3>2. QED BY <3>1 DEF Kept
  <2>3. QED BY <2>1, <2>2
<1>3. QED BY <1>1, <1>2 DEF Kept

LEMMA GapStep ==
  ASSUME Inv, LostOnlyInTheGap, [Next]_vars
  PROVE  LostOnlyInTheGap'
<1>1. raised \subseteq Alerts /\ Inv'
  BY InvStep DEF Inv, TypeOK
<1> USE DEF lists, counters, history
<1>2. ASSUME UNCHANGED <<accepted, dropped, raised, ready, processing, delayed, dead>>,
             \A a : Carried(a) => Carried(a)'
      PROVE  LostOnlyInTheGap'
  BY <1>1, <1>2, Accounted DEF InList, Kept
<1>3. ASSUME NEW p \in Processes, pump[p].at \in HasJob
      PROVE  pump[p].job \in Job /\ pump[p].job.alert \in Alerts
  BY <1>3, JobFields DEF Inv, Holding, PumpHolds
<1>4. ASSUME NEW a \in Alerts, Enqueue(a) PROVE LostOnlyInTheGap'
  <2>1. [alert |-> a, attempts |-> 0] \in Job
    BY AttemptsAssumption DEF Job
  <2>2. \A j \in Job : InList(j) => InList(j)'
    BY <1>4, <2>1, ListType DEF Enqueue, InList, Inv, TypeOK
  <2>3. Listed(a)'
    BY <1>4, <2>1, ListType, SMTT(30) DEF Enqueue, Listed, InList, Inv, TypeOK
  <2>4. \A x : Carried(x) => Carried(x)'
    BY <1>4, SameHands DEF Enqueue
  <2>5. QED BY <1>4, <1>1, <2>2, <2>3, <2>4, Accounted DEF Enqueue, Kept
<1>5. ASSUME NEW a \in Alerts, ClaimAges(a) PROVE LostOnlyInTheGap'
  BY <1>5, <1>2, SameHands DEF ClaimAges
<1>6. ASSUME NEW j \in Job, BackoffEnds(j) PROVE LostOnlyInTheGap'
  <2>1. \A i \in Job : InList(i) => InList(i)'
    BY <1>6 DEF BackoffEnds, InList, Inv, TypeOK
  <2>2. QED BY <1>6, <1>1, <2>1, SameHands, Accounted DEF BackoffEnds, Kept
<1>7. ASSUME NEW p \in Processes, Start(p) PROVE LostOnlyInTheGap'
  <2>1. \A a : Carried(a) => Carried(a)'
    BY <1>7 DEF Start, Carried, InHand, InHandPump, InHandRec, Inv, TypeOK
  <2>2. QED BY <1>7, <1>2, <2>1 DEF Start
<1>8. ASSUME NEW p \in Processes, PumpReads(p) \/ NoteClaim(p) \/ ClaimThrows(p)
                                  \/ CompleteThrows(p) \/ CompleteForgets(p)
      PROVE  LostOnlyInTheGap'
  <2>1. ~Gap(p) /\ \A q \in Processes \ {p} : pump'[q] = pump[q]
    BY <1>8 DEF PumpReads, NoteClaim, ClaimThrows, CompleteThrows, CompleteForgets, PumpAt, Gap,
                PumpTo, PumpRests, Inv, TypeOK
  <2>2. \A a : Carried(a) => Carried(a)'
    BY <1>8, <2>1, PumpKeepsHands
    DEF PumpReads, NoteClaim, ClaimThrows, CompleteThrows, CompleteForgets
  <2>3. QED BY <1>8, <1>2, <2>2
            DEF PumpReads, NoteClaim, ClaimThrows, CompleteThrows, CompleteForgets
<1>9. ASSUME NEW p \in Processes, Promote(p) PROVE LostOnlyInTheGap'
  <2>1. \A j \in Job : InList(j) => InList(j)'
    BY <1>9 DEF Promote, Promoted, InList, Inv, TypeOK
  <2>2. ~Gap(p) /\ \A q \in Processes \ {p} : pump'[q] = pump[q]
    BY <1>9 DEF Promote, PumpAt, Gap, PumpRests, Inv, TypeOK
  <2>3. \A a : Carried(a) => Carried(a)'
    BY <1>9, <2>2, PumpKeepsHands DEF Promote
  <2>4. QED BY <1>9, <1>1, <2>1, <2>3, Accounted DEF Promote, Kept
<1>10. ASSUME NEW p \in Processes, NEW j \in Job, Claim(p, j) PROVE LostOnlyInTheGap'
  <2>1. \A i \in Job : InList(i) => InList(i)'
    <3>1. ready' = Drop(ready, j) /\ processing' = Push(processing, j) /\ UNCHANGED <<delayed, dead>>
      BY <1>10 DEF Claim, Processing
    <3>2. processing'[j] > 0 /\ \A i \in Job : processing[i] > 0 => processing'[i] > 0
      BY <3>1, ListType DEF Inv, TypeOK
    <3>3. \A i \in Job \ {j} : ready'[i] = ready[i]
      BY <3>1, ListType DEF Inv, TypeOK
    <3>4. QED BY <3>1, <3>2, <3>3 DEF InList
  <2>2. ~Gap(p) /\ \A q \in Processes \ {p} : pump'[q] = pump[q]
    BY <1>10 DEF Claim, PumpAt, Gap, Inv, TypeOK
  <2>3. \A a : Carried(a) => Carried(a)'
    BY <1>10, <2>2, PumpKeepsHands DEF Claim
  <2>4. QED BY <1>10, <1>1, <2>1, <2>3, Accounted DEF Claim, Kept
<1>11. ASSUME NEW p \in Processes, PostAccepted(p) \/ PostFails(p) \/ PostTimesOut(p)
       PROVE  LostOnlyInTheGap'
  <2>1. ~Gap(p) /\ pump[p].at \in HasJob /\ \A q \in Processes \ {p} : pump'[q] = pump[q]
    BY <1>11 DEF PostAccepted, PostFails, PostTimesOut, PumpAt, Gap, HasJob, PumpTo, Inv, TypeOK
  <2>2. \A a : Carried(a) => Carried(a)'
    BY <1>11, <2>1, PumpKeepsHands DEF PostAccepted, PostFails, PostTimesOut
  <2>3. \A a \in Alerts : accepted[a] > 0 => accepted'[a] > 0
    BY <1>11, <1>3, <2>1 DEF PostAccepted, PostFails, PostTimesOut, Received, UpTo, Inv, TypeOK
  <2>4. \A j \in Job : InList(j) => InList(j)'
    BY <1>11 DEF PostAccepted, PostFails, PostTimesOut, InList
  <2>5. QED BY <1>11, <1>1, <2>2, <2>3, <2>4, Accounted
            DEF PostAccepted, PostFails, PostTimesOut, Kept
<1>12. ASSUME NEW p \in Processes, CompleteRemoves(p) \/ FailRemoves(p) PROVE LostOnlyInTheGap'
  <2>1. ~Gap(p) /\ pump[p].at \in HasJob /\ \A q \in Processes \ {p} : pump'[q] = pump[q]
    BY <1>12 DEF CompleteRemoves, FailRemoves, PumpAt, Gap, HasJob, PumpTo, Inv, TypeOK
  <2>2. \A a : Carried(a) => Carried(a)'
    BY <1>12, <2>1, PumpKeepsHands DEF CompleteRemoves, FailRemoves
  <2>3. PICK j \in Job : j = pump[p].job
    BY <1>3, <2>1
  <2>4. Kept(j.alert)'
    <3>1. CASE CompleteRemoves(p)
      <4>1. accepted'[j.alert] > 0
        BY <2>3, <3>1 DEF CompleteRemoves, PumpAt, Inv, Holding, PumpHolds
      <4>2. QED BY <4>1 DEF Kept
    <3>2. CASE FailRemoves(p)
      <4>1. p \in up' /\ pump'[p].at = "failed" /\ pump'[p].job = j
        BY <2>3, <3>2 DEF FailRemoves, PumpAt, PumpTo, Inv, TypeOK, PumpState
      <4>2. QED BY <4>1 DEF Kept, Carried, InHand, InHandPump
    <3>3. QED BY <1>12, <3>1, <3>2
  <2>5. \A i \in Job : InList(i) => InList(i)' \/ i = j
    BY <1>12, <2>3, ListType DEF CompleteRemoves, FailRemoves, InList, Inv, TypeOK
  <2>6. \A i \in Job : InList(i) => InList(i)' \/ Kept(i.alert)'
    BY <2>4, <2>5
  <2>7. \A a \in Alerts : Carried(a) => Kept(a)'
    BY <2>2 DEF Kept
  <2>8. UNCHANGED <<accepted, dropped, raised>>
    BY <1>12 DEF CompleteRemoves, FailRemoves
  <2>9. QED BY <1>1, <2>6, <2>7, <2>8, Accounted
<1>13. ASSUME NEW p \in Processes, FailForgets(p) PROVE LostOnlyInTheGap'
  <2>1. /\ pump'[p].at = "retry" /\ pump'[p].job = pump[p].job
        /\ \A q \in Processes \ {p} : pump'[q] = pump[q]
    BY <1>13 DEF FailForgets, PumpTo, Inv, TypeOK, PumpState
  <2>2. \A a : Carried(a) => Carried(a)'
    BY <1>13, <2>1 DEF FailForgets, PumpAt, Carried, InHand, InHandPump, InHandRec, Inv, TypeOK
  <2>3. QED BY <1>13, <1>2, <2>2 DEF FailForgets
<1>14. ASSUME NEW p \in Processes, Retry(p) PROVE LostOnlyInTheGap'
  <2>1. PICK j \in Job : j = pump[p].job
    BY <1>14, <1>3 DEF Retry, PumpAt, HasJob
  <2>2. /\ \A i \in Job : InList(i) => InList(i)'
        /\ Listed(j.alert)'
    <3>1. CASE Exhausted(j)
      <4>1. dead' = dead \cup {j} /\ UNCHANGED <<ready, processing, delayed>>
        BY <1>14, <2>1, <3>1 DEF Retry
      <4>2. QED BY <4>1 DEF InList, Listed
    <3>2. CASE ~Exhausted(j)
      <4>1. PICK k \in Job : k = [j EXCEPT !.attempts = @ + 1] /\ k.alert = j.alert
        BY <3>2, NextJob DEF Job
      <4>2. delayed' = [delayed EXCEPT ![k] = "waiting"] /\ UNCHANGED <<ready, processing, dead>>
        BY <1>14, <2>1, <3>2, <4>1 DEF Retry
      <4>3. delayed'[k] = "waiting" /\ \A i \in Job \ {k} : delayed'[i] = delayed[i]
        BY <4>2 DEF Inv, TypeOK
      <4>4. \A i \in Job : InList(i) => InList(i)'
        BY <4>2, <4>3 DEF InList
      <4>5. QED BY <4>1, <4>3, <4>4 DEF InList, Listed
    <3>3. QED BY <3>1, <3>2
  <2>3. /\ UNCHANGED <<recovery, up>>
        /\ \A q \in Processes \ {p} : pump'[q] = pump[q]
        /\ InHandPump(p) = {j.alert}
    BY <1>14, <2>1 DEF Retry, PumpAt, PumpRests, InHandPump, Inv, TypeOK
  <2>4. \A a : Carried(a) => Carried(a)' \/ a = j.alert
    BY <2>3 DEF Carried, InHand, InHandPump, InHandRec, Inv, TypeOK
  <2>5. \A a \in Alerts : Carried(a) => Kept(a)'
    BY <2>2, <2>4 DEF Kept
  <2>6. UNCHANGED <<accepted, dropped, raised>>
    BY <1>14 DEF Retry
  <2>7. QED BY <1>1, <2>2, <2>5, <2>6, Accounted
<1>15. ASSUME NEW p \in Processes, ReadClaims(p) \/ ReadJobs(p) \/ RecoveryEnds(p)
                                   \/ \E j \in Job : Skip(p, j)
       PROVE  LostOnlyInTheGap'
  <2>1. ~RecGap(p) /\ \A q \in Processes \ {p} : recovery'[q] = recovery[q]
    BY <1>15 DEF ReadClaims, ReadJobs, RecoveryEnds, Skip, RecAt, RecGap, Inv, TypeOK
  <2>2. \A a : Carried(a) => Carried(a)'
    BY <1>15, <2>1, RecoveryKeepsHands DEF ReadClaims, ReadJobs, RecoveryEnds, Skip
  <2>3. QED BY <1>15, <1>2, <2>2 DEF ReadClaims, ReadJobs, RecoveryEnds, Skip
<1>16. ASSUME NEW p \in Processes, NEW j \in Job, RecoverRemoves(p, j) PROVE LostOnlyInTheGap'
  <2>1. ~RecGap(p) /\ \A q \in Processes \ {p} : recovery'[q] = recovery[q]
    BY <1>16 DEF RecoverRemoves, RecAt, RecGap, Inv, TypeOK
  <2>2. \A a : Carried(a) => Carried(a)'
    BY <1>16, <2>1, RecoveryKeepsHands DEF RecoverRemoves
  <2>3. p \in up' /\ recovery'[p].at = "removed" /\ recovery'[p].job = j
    BY <1>16 DEF RecoverRemoves, RecAt, Inv, TypeOK, RecoveryState
  <2>4. Kept(j.alert)'
    BY <2>3 DEF Kept, Carried, InHand, InHandRec
  <2>5. \A i \in Job : InList(i) => InList(i)' \/ i = j
    BY <1>16, ListType DEF RecoverRemoves, InList, Inv, TypeOK
  <2>6. QED BY <1>16, <1>1, <2>2, <2>4, <2>5, Accounted DEF RecoverRemoves, Kept
<1>17. ASSUME NEW p \in Processes, RecoverForgets(p) PROVE LostOnlyInTheGap'
  <2>1. /\ recovery'[p].at = "return" /\ recovery'[p].job = recovery[p].job
        /\ \A q \in Processes \ {p} : recovery'[q] = recovery[q]
    BY <1>17 DEF RecoverForgets, RecTo, RecAt, Inv, TypeOK, RecoveryState
  <2>2. \A a : Carried(a) => Carried(a)'
    BY <1>17, <2>1 DEF RecoverForgets, RecAt, Carried, InHand, InHandPump, InHandRec, Inv, TypeOK
  <2>3. QED BY <1>17, <1>2, <2>2 DEF RecoverForgets
<1>18. ASSUME NEW p \in Processes, RecoverReturns(p) PROVE LostOnlyInTheGap'
  <2>1. PICK j \in Job : j = recovery[p].job
    BY <1>18 DEF RecoverReturns, RecAt, Inv, Holding, RecoveryHolds
  <2>2. ready' = Push(ready, j) /\ UNCHANGED <<processing, delayed, dead>>
    BY <1>18, <2>1 DEF RecoverReturns
  <2>3. ready'[j] > 0 /\ \A i \in Job : ready[i] > 0 => ready'[i] > 0
    BY <2>2, ListType DEF Inv, TypeOK
  <2>4. (\A i \in Job : InList(i) => InList(i)') /\ Listed(j.alert)'
    BY <2>2, <2>3 DEF InList, Listed
  <2>5. /\ UNCHANGED <<pump, up>>
        /\ \A q \in Processes \ {p} : recovery'[q] = recovery[q]
        /\ InHandRec(p) = {j.alert}
    BY <1>18, <2>1 DEF RecoverReturns, RecAt, InHandRec, Inv, TypeOK
  <2>6. \A a : Carried(a) => Carried(a)' \/ a = j.alert
    BY <2>5 DEF Carried, InHand, InHandPump, InHandRec, Inv, TypeOK
  <2>7. \A a \in Alerts : Carried(a) => Kept(a)'
    BY <2>4, <2>6 DEF Kept
  <2>8. UNCHANGED <<accepted, dropped, raised>>
    BY <1>18 DEF RecoverReturns
  <2>9. QED BY <1>1, <2>4, <2>7, <2>8, Accounted
<1>19. ASSUME NEW p \in Processes, RecoveryThrows(p) \/ Gone(p) PROVE LostOnlyInTheGap'
  <2>1. \A q \in up \ {p} : q \in up' /\ InHand(q)' = InHand(q)
    BY <1>19 DEF RecoveryThrows, Gone, InHand, InHandPump, InHandRec, Inv, TypeOK
  <2>2. \A a \in InHand(p) : a \in dropped' \/ Carried(a)'
    <3>1. CASE RecoveryThrows(p)
      BY <3>1 DEF RecoveryThrows, Carried, InHand, InHandPump, InHandRec
    <3>2. CASE Gone(p)
      BY <3>2 DEF Gone
    <3>3. QED BY <1>19, <3>1, <3>2
  <2>3. \A a : Carried(a) => Carried(a)' \/ a \in dropped'
    BY <2>1, <2>2 DEF Carried
  <2>4. \A j \in Job : InList(j) => InList(j)'
    BY <1>19 DEF RecoveryThrows, Gone, InList
  <2>5. dropped \subseteq dropped' /\ UNCHANGED <<accepted, raised>>
    BY <1>19 DEF RecoveryThrows, Gone
  <2>6. QED BY <1>1, <2>3, <2>4, <2>5, Accounted DEF Kept
<1>20. CASE UNCHANGED vars
  BY <1>2, <1>20, SameHands DEF vars
<1>21. QED
  BY <1>4, <1>5, <1>6, <1>7, <1>8, <1>9, <1>10, <1>11, <1>12, <1>13, <1>14, <1>15, <1>16, <1>17,
     <1>18, <1>19, <1>20
  DEF Next, PumpStep, RecoveryStep, Trouble, Stop, Crash

\* An alert that was enqueued is delivered, listed or in a live process's hand,
\* unless a process stopped between its two calls to Redis: for every number of
\* alerts, processes, attempts, starts and errors.
THEOREM AtLeastOnce == Spec => []LostOnlyInTheGap
<1>1. Init => LostOnlyInTheGap
  BY DEF Init, LostOnlyInTheGap
<1>2. QED BY InitInv, InvStep, GapStep, <1>1, PTL DEF Spec

-----------------------------------------------------------------------------
(* Nothing is given up early                                               *)

\* A job with n attempts behind it, wherever it is, was posted n times; one
\* whose delivery was tried since, once more.
Sent == {"complete", "completed", "fail", "failed", "retry"}
Earned(j, made) == made[j.alert] >= j.attempts
PumpTried(r, made) == /\ \A j \in r.due : Earned(j, made)
                      /\ r.at \in HasJob => Earned(r.job, made)
                      /\ r.at \in Sent => made[r.job.alert] > r.job.attempts
RecoveryTried(r, made) == /\ \A j \in r.todo : Earned(j, made)
                          /\ r.at \in {"removed", "return"} => Earned(r.job, made)
Queued(j) == ready[j] > 0 \/ processing[j] > 0 \/ delayed[j] # "absent"
Tried ==
  /\ \A j \in Job : Queued(j) => Earned(j, posts)
  /\ \A p \in Processes : PumpTried(pump[p], posts) /\ RecoveryTried(recovery[p], posts)
  /\ DeadMeansTried

LEMMA TriedInit == Init => Tried
BY DEF Init, Tried, Queued, DeadMeansTried, PumpTried, RecoveryTried, Resting, Ended, HasJob, Sent

\* What each step has to show: what is new was earned.
LEMMA TriedBy ==
  ASSUME Inv, Inv', Tried,
         \A a \in Alerts : posts'[a] >= posts[a],
         \A j \in Job : Queued(j)' => Queued(j) \/ Earned(j, posts'),
         \A p \in Processes : pump'[p] = pump[p] \/ PumpTried(pump'[p], posts'),
         \A p \in Processes : recovery'[p] = recovery[p] \/ RecoveryTried(recovery'[p], posts'),
         \A j \in dead' \ dead : posts'[j.alert] >= MaxAttempts
  PROVE  Tried'
<1>1. posts \in [Alerts -> Int] /\ posts' \in [Alerts -> Int] /\ MaxAttempts \in Int
  BY AttemptsAssumption DEF Inv, TypeOK
<1>2. ASSUME NEW j \in Job, Earned(j, posts) PROVE Earned(j, posts')
  BY <1>1, <1>2, JobFields DEF Earned
<1>3. ASSUME NEW j \in Job, Queued(j)' PROVE Earned(j, posts')
  BY <1>2, <1>3 DEF Tried
<1>4. ASSUME NEW p \in Processes PROVE PumpTried(pump'[p], posts')
  <2>1. PumpTried(pump[p], posts) /\ pump[p].due \subseteq Job /\ PumpHolds(pump[p], accepted)
    BY DEF Tried, Inv, TypeOK, PumpState, Holding
  <2>2. pump[p].at \in Sent => pump[p].job \in Job /\ pump[p].at \in HasJob
    BY <2>1 DEF PumpHolds, Sent, HasJob
  <2>3. pump[p].at \in Sent => posts'[pump[p].job.alert] > pump[p].job.attempts
    BY <1>1, <2>1, <2>2, JobFields DEF PumpTried
  <2>4. PumpTried(pump[p], posts')
    BY <1>2, <2>1, <2>3 DEF PumpTried, PumpHolds
  <2>5. QED BY <2>4
<1>5. ASSUME NEW p \in Processes PROVE RecoveryTried(recovery'[p], posts')
  <2>1. RecoveryTried(recovery[p], posts) /\ recovery[p].todo \subseteq Job
        /\ RecoveryHolds(recovery[p])
    BY DEF Tried, Inv, TypeOK, RecoveryState, Holding
  <2>2. RecoveryTried(recovery[p], posts')
    BY <1>2, <2>1 DEF RecoveryTried, RecoveryHolds
  <2>3. QED BY <2>2
<1>6. ASSUME NEW j \in dead' PROVE posts'[j.alert] >= MaxAttempts
  <2>1. j \in Job
    BY DEF Inv, TypeOK
  <2>2. CASE j \in dead
    BY <1>1, <2>1, <2>2, JobFields DEF Tried, DeadMeansTried
  <2>3. QED BY <2>2
<1>7. QED BY <1>3, <1>4, <1>5, <1>6 DEF Tried, DeadMeansTried

LEMMA TriedStep == Inv /\ Tried /\ [Next]_vars => Tried'
<1> SUFFICES ASSUME Inv, Tried, [Next]_vars PROVE Tried'
  OBVIOUS
<1>1. Inv'
  BY InvStep
<1>2. posts \in [Alerts -> Int] /\ MaxAttempts \in Int
  BY AttemptsAssumption DEF Inv, TypeOK
<1>3. UNCHANGED posts => \A a \in Alerts : posts'[a] >= posts[a]
  BY <1>2
<1>4. \A p \in Processes : /\ pump[p].at \in HasJob => pump[p].job \in Job
                           /\ pump[p].due \subseteq Job
                           /\ recovery[p].at \in {"removed", "return"} => recovery[p].job \in Job
  BY DEF Inv, Holding, PumpHolds, RecoveryHolds, TypeOK, PumpState
<1> USE DEF lists, counters, history
<1>5. (UNCHANGED pump => \A p \in Processes : pump'[p] = pump[p])
      /\ (UNCHANGED recovery => \A p \in Processes : recovery'[p] = recovery[p])
  OBVIOUS
<1>6. (UNCHANGED <<ready, processing, delayed>> => \A j \in Job : Queued(j)' => Queued(j))
      /\ (UNCHANGED dead => dead' \ dead = {})
  BY DEF Queued
<1>7. ASSUME NEW a \in Alerts, Enqueue(a) PROVE Tried'
  <2>1. [alert |-> a, attempts |-> 0] \in Job
    BY AttemptsAssumption DEF Job
  <2>2. Earned([alert |-> a, attempts |-> 0], posts)
    BY DEF Earned, Inv, TypeOK
  <2>3. \A j \in Job : Queued(j)' => Queued(j) \/ Earned(j, posts')
    BY <1>7, <2>1, <2>2 DEF Enqueue, Queued, Push, Inv, TypeOK
  <2>4. QED BY <1>1, <1>3, <1>5, <1>6, <1>7, <2>3, TriedBy DEF Enqueue
<1>8. ASSUME NEW a \in Alerts, ClaimAges(a) PROVE Tried'
  BY <1>1, <1>3, <1>5, <1>6, <1>8, TriedBy DEF ClaimAges
<1>9. ASSUME NEW j \in Job, BackoffEnds(j) PROVE Tried'
  <2>1. \A i \in Job : Queued(i)' => Queued(i)
    BY <1>9 DEF BackoffEnds, Queued, Inv, TypeOK
  <2>2. QED BY <1>1, <1>3, <1>5, <1>6, <1>9, <2>1, TriedBy DEF BackoffEnds
<1>10. ASSUME NEW p \in Processes, Start(p) PROVE Tried'
  <2>1. \A q \in Processes : recovery'[q] = recovery[q] \/ RecoveryTried(recovery'[q], posts')
    BY <1>10 DEF Start, RecoveryTried, Ended, Inv, TypeOK
  <2>2. QED BY <1>1, <1>3, <1>5, <1>6, <1>10, <2>1, TriedBy DEF Start
<1>11. ASSUME NEW p \in Processes, PumpReads(p) PROVE Tried'
  <2>1. \A j \in Due : Earned(j, posts')
    BY <1>11 DEF PumpReads, Due, Tried, Queued
  <2>2. pump'[p].due = Due /\ pump'[p].at = "promote"
    BY <1>11 DEF PumpReads, Inv, TypeOK, PumpState
  <2>3. PumpTried(pump'[p], posts')
    BY <2>1, <2>2 DEF PumpTried, HasJob, Sent
  <2>4. \A q \in Processes : pump'[q] = pump[q] \/ PumpTried(pump'[q], posts')
    BY <1>11, <2>3 DEF PumpReads, Inv, TypeOK
  <2>5. QED BY <1>1, <1>3, <1>5, <1>6, <1>11, <2>4, TriedBy DEF PumpReads
<1>12. ASSUME NEW p \in Processes, PumpRests(p)
       PROVE  \A q \in Processes : pump'[q] = pump[q] \/ PumpTried(pump'[q], posts')
  BY <1>12 DEF PumpRests, Resting, PumpTried, HasJob, Sent, Inv, TypeOK
<1>13. ASSUME NEW p \in Processes, Promote(p) PROVE Tried'
  <2>1. \A j \in Job : Queued(j)' => Queued(j) \/ j \in pump[p].due
    BY <1>13 DEF Promote, Promoted, Queued, Inv, TypeOK
  <2>2. \A j \in pump[p].due : Earned(j, posts')
    BY <1>13 DEF Promote, Tried, PumpTried
  <2>3. QED BY <1>1, <1>3, <1>5, <1>6, <1>12, <1>13, <2>1, <2>2, TriedBy DEF Promote
<1>14. ASSUME NEW p \in Processes, NEW j \in Job, Claim(p, j) PROVE Tried'
  <2>1. Earned(j, posts')
    BY <1>14 DEF Claim, Tried, Queued
  <2>2. pump'[p].due = pump[p].due /\ pump'[p].at = "note" /\ pump'[p].job = j
    BY <1>14 DEF Claim, Inv, TypeOK, PumpState
  <2>3. PumpTried(pump'[p], posts')
    BY <1>14, <2>1, <2>2 DEF Claim, PumpTried, HasJob, Sent, Tried
  <2>4. \A q \in Processes : pump'[q] = pump[q] \/ PumpTried(pump'[q], posts')
    BY <1>14, <2>3 DEF Claim, Inv, TypeOK
  <2>5. \A i \in Job : Queued(i)' => Queued(i)
    BY <1>14 DEF Claim, Processing, Push, Drop, Queued, Inv, TypeOK
  <2>6. QED BY <1>1, <1>3, <1>5, <1>6, <1>14, <2>4, <2>5, TriedBy DEF Claim
\* The pump goes on without a POST.
<1>15. ASSUME NEW p \in Processes, NEW at, PumpTo(p, at), pump[p].at \in HasJob,
              at \in Sent => pump[p].at \in Sent, at \in HasJob, UNCHANGED posts
       PROVE  \A q \in Processes : pump'[q] = pump[q] \/ PumpTried(pump'[q], posts')
  <2>1. pump'[p].due = pump[p].due /\ pump'[p].at = at /\ pump'[p].job = pump[p].job
    BY <1>15 DEF PumpTo, Inv, TypeOK, PumpState
  <2>2. PumpTried(pump'[p], posts')
    BY <1>15, <2>1 DEF PumpTried, Tried
  <2>3. QED BY <1>15, <2>2 DEF PumpTo, Inv, TypeOK
<1>16. ASSUME NEW p \in Processes, NoteClaim(p) PROVE Tried'
  <2>1. \A q \in Processes : pump'[q] = pump[q] \/ PumpTried(pump'[q], posts')
    BY <1>15, <1>16 DEF NoteClaim, PumpAt, HasJob, Sent
  <2>2. QED BY <1>1, <1>3, <1>5, <1>6, <1>16, <2>1, TriedBy DEF NoteClaim
<1>17. ASSUME NEW p \in Processes, PostAccepted(p) \/ PostFails(p) \/ PostTimesOut(p) PROVE Tried'
  <2>1. pump[p].at = "post" /\ Posted(p) /\ \E at \in {"complete", "fail"} : PumpTo(p, at)
    BY <1>17 DEF PostAccepted, PostFails, PostTimesOut, PumpAt
  <2>2. PICK j \in Job : j = pump[p].job
    BY <1>4, <2>1 DEF HasJob
  <2>3. posts' = [posts EXCEPT ![j.alert] = UpTo(@, MaxAttempts)]
    BY <2>1, <2>2 DEF Posted
  <2>4. \A a \in Alerts : posts'[a] >= posts[a]
    BY <1>2, <2>3 DEF UpTo
  <2>5. /\ Earned(j, posts) /\ (\A i \in pump[p].due : Earned(i, posts))
        /\ j.attempts \in Int /\ j.attempts < MaxAttempts /\ j.alert \in Alerts
    BY <1>2, <2>1, <2>2, JobFields DEF Tried, PumpTried, HasJob
  <2>6. posts'[j.alert] > j.attempts
    BY <1>2, <2>3, <2>5 DEF UpTo, Earned
  <2>7. \A i \in pump[p].due : Earned(i, posts')
    <3>1. \A i \in pump[p].due : i.alert \in Alerts /\ i.attempts \in Int
      BY <1>4, JobFields
    <3>2. posts' \in [Alerts -> Int]
      BY <1>1 DEF Inv, TypeOK
    <3>3. QED BY <1>2, <2>4, <2>5, <3>1, <3>2 DEF Earned
  <2>8. Earned(j, posts')
    <3>1. posts' \in [Alerts -> Int]
      BY <1>1 DEF Inv, TypeOK
    <3>2. QED BY <2>5, <2>6, <3>1 DEF Earned
  <2>9. pump'[p].due = pump[p].due /\ pump'[p].at \in {"complete", "fail"} /\ pump'[p].job = j
    BY <2>1, <2>2 DEF PumpTo, Inv, TypeOK, PumpState
  <2>10. PumpTried(pump'[p], posts')
    BY <2>6, <2>7, <2>8, <2>9 DEF PumpTried, HasJob, Sent
  <2>11. \A q \in Processes : pump'[q] = pump[q] \/ PumpTried(pump'[q], posts')
    BY <2>1, <2>10 DEF PumpTo, Inv, TypeOK
  <2>12. UNCHANGED <<lists, recovery>>
    BY <1>17 DEF PostAccepted, PostFails, PostTimesOut
  <2>13. QED BY <1>1, <1>5, <1>6, <2>4, <2>11, <2>12, TriedBy
<1>18. ASSUME NEW p \in Processes, CompleteRemoves(p) \/ FailRemoves(p) PROVE Tried'
  <2>1. \A q \in Processes : pump'[q] = pump[q] \/ PumpTried(pump'[q], posts')
    BY <1>15, <1>18 DEF CompleteRemoves, FailRemoves, PumpAt, HasJob, Sent
  <2>2. PICK j \in Job : j = pump[p].job
    BY <1>4, <1>18 DEF CompleteRemoves, FailRemoves, PumpAt, HasJob
  <2>3. \A i \in Job : Queued(i)' => Queued(i)
    BY <1>18, <2>2 DEF CompleteRemoves, FailRemoves, Drop, Queued, Inv, TypeOK
  <2>4. UNCHANGED <<dead, recovery, posts>>
    BY <1>18 DEF CompleteRemoves, FailRemoves
  <2>5. QED BY <1>1, <1>3, <1>5, <1>6, <2>1, <2>3, <2>4, TriedBy
<1>19. ASSUME NEW p \in Processes, CompleteForgets(p) \/ ClaimThrows(p) PROVE Tried'
  BY <1>1, <1>3, <1>5, <1>6, <1>12, <1>19, TriedBy DEF CompleteForgets, ClaimThrows
<1>20. ASSUME NEW p \in Processes, FailForgets(p) \/ CompleteThrows(p) PROVE Tried'
  <2>1. \A q \in Processes : pump'[q] = pump[q] \/ PumpTried(pump'[q], posts')
    BY <1>15, <1>20 DEF FailForgets, CompleteThrows, PumpAt, HasJob, Sent
  <2>2. QED BY <1>1, <1>3, <1>5, <1>6, <1>20, <2>1, TriedBy DEF FailForgets, CompleteThrows
<1>21. ASSUME NEW p \in Processes, Retry(p) PROVE Tried'
  <2>1. PICK j \in Job : j = pump[p].job
    BY <1>4, <1>21 DEF Retry, PumpAt, HasJob
  <2>2. /\ posts[j.alert] > j.attempts /\ posts[j.alert] \in Int
        /\ j.attempts \in Int /\ UNCHANGED posts
    BY <1>2, <1>21, <2>1, JobFields DEF Retry, PumpAt, Tried, PumpTried, Sent
  <2>3. /\ \A i \in Job : Queued(i)' => Queued(i) \/ Earned(i, posts')
        /\ \A i \in dead' \ dead : posts'[i.alert] >= MaxAttempts
    <3>1. CASE Exhausted(j)
      BY <1>2, <1>6, <1>21, <2>1, <2>2, <3>1 DEF Retry, Exhausted
    <3>2. CASE ~Exhausted(j)
      <4>1. PICK k \in Job : k = [j EXCEPT !.attempts = @ + 1]
        BY <3>2, NextJob
      <4>2. k.alert = j.alert /\ k.attempts = j.attempts + 1
        BY <4>1 DEF Job
      <4>3. Earned(k, posts')
        BY <2>2, <4>2 DEF Earned
      <4>4. delayed' = [delayed EXCEPT ![k] = "waiting"] /\ UNCHANGED <<ready, processing, dead>>
        BY <1>21, <2>1, <3>2, <4>1 DEF Retry
      <4>5. QED BY <4>3, <4>4 DEF Queued, Inv, TypeOK
    <3>3. QED BY <3>1, <3>2
  <2>4. PumpRests(p) /\ UNCHANGED recovery
    BY <1>21 DEF Retry
  <2>5. QED BY <1>1, <1>3, <1>5, <1>12, <2>2, <2>3, <2>4, TriedBy
<1>22. ASSUME NEW p \in Processes, ReadClaims(p) \/ ReadJobs(p) \/ \E j \in Job : Skip(p, j) PROVE Tried'
  <2>1. /\ recovery'[p].at \in {"jobs", "walk"}
        /\ \A i \in recovery'[p].todo : i \in recovery[p].todo \/ (i \in Job /\ processing[i] > 0)
    BY <1>22 DEF ReadClaims, ReadJobs, Skip, RecAt, Inv, TypeOK, RecoveryState
  <2>2. UNCHANGED <<lists, pump, posts>> /\ \A q \in Processes \ {p} : recovery'[q] = recovery[q]
    BY <1>22 DEF ReadClaims, ReadJobs, Skip, Inv, TypeOK
  <2>3. RecoveryTried(recovery'[p], posts')
    BY <2>1, <2>2 DEF RecoveryTried, Tried, Queued
  <2>4. \A q \in Processes : recovery'[q] = recovery[q] \/ RecoveryTried(recovery'[q], posts')
    BY <2>2, <2>3
  <2>5. QED BY <1>1, <1>3, <1>5, <1>6, <2>2, <2>4, TriedBy
<1>23. ASSUME NEW p \in Processes, NEW j \in Job, RecoverRemoves(p, j) PROVE Tried'
  <2>1. /\ recovery'[p].todo \subseteq recovery[p].todo /\ recovery'[p].job = j
        /\ \A q \in Processes \ {p} : recovery'[q] = recovery[q]
    BY <1>23 DEF RecoverRemoves, Inv, TypeOK, RecoveryState
  <2>2. RecoveryTried(recovery'[p], posts')
    BY <1>23, <2>1 DEF RecoverRemoves, RecoveryTried, Tried
  <2>3. \A q \in Processes : recovery'[q] = recovery[q] \/ RecoveryTried(recovery'[q], posts')
    BY <2>1, <2>2
  <2>4. \A i \in Job : Queued(i)' => Queued(i)
    BY <1>23 DEF RecoverRemoves, Drop, Queued, Inv, TypeOK
  <2>5. QED BY <1>1, <1>3, <1>5, <1>6, <1>23, <2>3, <2>4, TriedBy DEF RecoverRemoves
<1>24. ASSUME NEW p \in Processes, RecoverForgets(p) \/ RecoverReturns(p) PROVE Tried'
  <2>1. PICK j \in Job : j = recovery[p].job
    BY <1>4, <1>24 DEF RecoverForgets, RecoverReturns, RecAt
  <2>2. Earned(j, posts) /\ UNCHANGED <<posts, pump, dead>>
    BY <1>24, <2>1 DEF RecoverForgets, RecoverReturns, RecAt, Tried, RecoveryTried
  <2>3. /\ recovery'[p].todo = recovery[p].todo
        /\ recovery'[p].at \in {"removed", "return"} => recovery'[p].job = j
        /\ \A q \in Processes \ {p} : recovery'[q] = recovery[q]
    BY <1>24, <2>1 DEF RecoverForgets, RecoverReturns, RecTo, Inv, TypeOK, RecoveryState
  <2>4. RecoveryTried(recovery'[p], posts')
    BY <2>2, <2>3 DEF RecoveryTried, Tried
  <2>5. \A q \in Processes : recovery'[q] = recovery[q] \/ RecoveryTried(recovery'[q], posts')
    BY <2>3, <2>4
  <2>6. \A i \in Job : Queued(i)' => Queued(i) \/ Earned(i, posts')
    BY <1>24, <2>1, <2>2 DEF RecoverForgets, RecoverReturns, Push, Queued, Inv, TypeOK
  <2>7. QED BY <1>1, <1>3, <1>5, <1>6, <2>2, <2>5, <2>6, TriedBy
<1>25. ASSUME NEW p \in Processes, RecoveryEnds(p) \/ RecoveryThrows(p) PROVE Tried'
  <2>1. \A q \in Processes : recovery'[q] = recovery[q] \/ RecoveryTried(recovery'[q], posts')
    BY <1>25 DEF RecoveryEnds, RecoveryThrows, Ended, RecoveryTried, Inv, TypeOK
  <2>2. UNCHANGED <<lists, pump, posts>>
    BY <1>25 DEF RecoveryEnds, RecoveryThrows
  <2>3. QED BY <1>1, <1>3, <1>5, <1>6, <2>1, <2>2, TriedBy
<1>26. ASSUME NEW p \in Processes, Gone(p) PROVE Tried'
  <2>1. \A q \in Processes : recovery'[q] = recovery[q] \/ RecoveryTried(recovery'[q], posts')
    BY <1>26 DEF Gone, Ended, RecoveryTried, Inv, TypeOK
  <2>2. \A q \in Processes : pump'[q] = pump[q] \/ PumpTried(pump'[q], posts')
    BY <1>12, <1>26 DEF Gone, PumpRests
  <2>3. QED BY <1>1, <1>3, <1>6, <1>26, <2>1, <2>2, TriedBy DEF Gone
<1>27. CASE UNCHANGED vars
  BY <1>1, <1>3, <1>5, <1>6, <1>27, TriedBy DEF vars
<1>28. QED
  BY <1>7, <1>8, <1>9, <1>10, <1>11, <1>13, <1>14, <1>16, <1>17, <1>18, <1>19, <1>20, <1>21,
     <1>22, <1>23, <1>24, <1>25, <1>26, <1>27
  DEF Next, PumpStep, RecoveryStep, Trouble, Stop, Crash

\* An alert in the dead-letter list was posted MaxAttempts times, whatever was
\* recovered, promoted twice or handed over in between.
THEOREM GivenUpAfterAll == Spec => []DeadMeansTried
<1>1. Tried => DeadMeansTried
  BY DEF Tried
<1>2. QED BY InitInv, InvStep, TriedInit, TriedStep, <1>1, PTL DEF Spec

-----------------------------------------------------------------------------
(* One delivery in quiet times                                             *)

\* One process runs, at most once, and no call failed.
Quiet == errors = 0 /\ starts <= 1

OnlyOne ==
  /\ up # {} => starts = 1
  /\ \A p, q \in up : p = q
  /\ \A p \in Processes \ up : pump[p] = Resting /\ recovery[p] = Ended

\* The places an alert can be delivered from: it is in at most one of them, and
\* in none once the webhook has it.
InPump(j) == \E p \in Processes : pump[p].at \in HasJob /\ pump[p].job = j
ToPost(j) == \E p \in Processes : pump[p].at \in HasJob \ {"complete", "completed"} /\ pump[p].job = j
Waiting(j) == ready[j] > 0 \/ delayed[j] # "absent"
OnePlace(a) ==
  \A j \in Job : j.alert = a =>
    /\ ready[j] <= 1
    /\ ready[j] > 0 => delayed[j] = "absent"
    /\ \A k \in Job : k.alert = a /\ Waiting(k) => (~InPump(j)) /\ (Waiting(j) => j = k)
    /\ a \notin raised => ~Waiting(j) /\ ~InPump(j)
    /\ accepted[a] > 0 => ~Waiting(j) /\ ~ToPost(j)
Promising == \A p \in Processes : pump[p].at = "promote" => pump[p].due \subseteq Due
Once == /\ OnlyOne /\ Promising
        /\ \A a \in Alerts \ returned :
             OnePlace(a) /\ accepted[a] <= 1 /\ (a \notin raised => accepted[a] = 0)
QuietInv == Quiet => Once

LEMMA OnceInit == Init => QuietInv
BY DEF Init, QuietInv, Once, OnlyOne, Promising, OnePlace, Waiting, InPump, ToPost, Resting, HasJob

\* The pump that does something is that of the process that runs.
LEMMA OnlyPump ==
  ASSUME Once, NEW p \in Processes, pump[p].at # "idle"
  PROVE  p \in up /\ \A q \in Processes \ {p} : pump[q] = Resting
BY DEF Once, OnlyOne, Resting

LEMMA InHandIs ==
  ASSUME Once, NEW p \in Processes, pump[p].at \in HasJob
  PROVE  /\ \A j : InPump(j) <=> j = pump[p].job
         /\ \A j : ToPost(j) <=> j = pump[p].job /\ pump[p].at \notin {"complete", "completed"}
BY OnlyPump DEF InPump, ToPost, HasJob, Resting

LEMMA NoneInHand ==
  ASSUME NEW p \in Processes, pump[p].at \notin HasJob,
         \A q \in Processes \ {p} : pump[q] = Resting
  PROVE  \A j : ~InPump(j) /\ ~ToPost(j)
BY DEF InPump, ToPost, HasJob, Resting

\* No place is added.
LEMMA NoMorePlaces ==
  ASSUME NEW a \in Alerts, OnePlace(a),
         \A j \in Job : j.alert = a =>
           /\ ready'[j] <= 1 /\ (ready'[j] > 0 => delayed'[j] = "absent")
           /\ (Waiting(j)' => Waiting(j)) /\ (InPump(j)' => InPump(j)) /\ (ToPost(j)' => ToPost(j)),
         raised \subseteq raised', accepted'[a] = accepted[a]
  PROVE  OnePlace(a)'
BY DEF OnePlace

LEMMA SameWaiting ==
  ASSUME NEW a \in Alerts, OnePlace(a), UNCHANGED <<ready, delayed, raised>>,
         \A j \in Job : j.alert = a => (InPump(j)' => InPump(j)) /\ (ToPost(j)' => ToPost(j)),
         accepted'[a] = accepted[a]
  PROVE  OnePlace(a)'
BY NoMorePlaces DEF OnePlace, Waiting

LEMMA OnceStep == Inv /\ QuietInv /\ [Next]_vars => QuietInv'
<1> SUFFICES ASSUME Inv, QuietInv, [Next]_vars, Quiet' PROVE Once'
  BY DEF QuietInv
<1> USE DEF lists, counters, history
<1>1. starts \in Nat /\ errors \in Nat
  BY DEF Inv, TypeOK
<1> DEFINE Placed(a) == OnePlace(a) /\ accepted[a] <= 1 /\ (a \notin raised => accepted[a] = 0)
\* Steps that leave the lists and the pumps alone.
<1>2. ASSUME Once, UNCHANGED <<ready, delayed, pump, raised, accepted>>, returned \subseteq returned',
             OnlyOne' PROVE Once'
  <2>1. Due' = Due /\ Promising'
    BY <1>2 DEF Due, Promising, Once
  <2>2. \A a \in Alerts \ returned' : OnePlace(a)'
    BY <1>2 DEF OnePlace, Waiting, InPump, ToPost, Once
  <2>3. QED BY <1>2, <2>1, <2>2 DEF Once
\* Steps that leave the processes alone.
<1>3. ASSUME Once, NEW p \in Processes, p \in up, UNCHANGED <<up, starts>>,
             \A q \in Processes \ {p} : pump'[q] = pump[q] /\ recovery'[q] = recovery[q] PROVE OnlyOne'
  BY <1>3 DEF Once, OnlyOne
<1>4. ASSUME Once, NEW p \in Processes, pump[p].at # "idle", pump'[p].at # "promote", p \in up,
             \A q \in Processes \ {p} : pump'[q] = pump[q] PROVE Promising'
  BY <1>4, OnlyPump DEF Promising, Resting
<1>5. ASSUME NEW a \in Alerts, Enqueue(a) PROVE Once'
  <2>1. Once /\ OnlyOne' /\ Promising'
    BY <1>5 DEF Enqueue, QuietInv, Quiet, Once, OnlyOne, Promising, Due
  <2>0. [alert |-> a, attempts |-> 0] \in Job
    BY AttemptsAssumption DEF Job
  <2>2. PICK j \in Job : j = [alert |-> a, attempts |-> 0]
    BY <2>0
  <2>3. /\ ready' = [ready EXCEPT ![j] = @ + 1] /\ j.alert = a
        /\ UNCHANGED <<delayed, pump, accepted, returned>> /\ raised' = raised \cup {a} /\ a \notin raised
    BY <1>5, <2>2 DEF Enqueue, Push
  <2>4. \A i : (InPump(i)' <=> InPump(i)) /\ (ToPost(i)' <=> ToPost(i))
    BY <2>3 DEF InPump, ToPost
  <2>5. ready'[j] = ready[j] + 1 /\ \A i \in Job \ {j} : ready'[i] = ready[i]
    BY <2>3 DEF Inv, TypeOK
  <2>6. ASSUME NEW b \in Alerts \ returned, b # a PROVE OnePlace(b)'
    <3>1. OnePlace(b)
      BY <2>1, <2>6 DEF Once
    <3>2. \A i \in Job : i.alert = b => ready'[i] = ready[i] /\ delayed'[i] = delayed[i]
      BY <2>3, <2>5, <2>6
    <3>3. QED BY <2>3, <2>4, <3>1, <3>2, NoMorePlaces DEF OnePlace, Waiting
  <2>7. ASSUME a \notin returned PROVE OnePlace(a)' /\ accepted'[a] = 0
    <3>1. /\ accepted[a] = 0
          /\ \A i \in Job : i.alert = a => ~Waiting(i) /\ ~InPump(i)
      BY <2>1, <2>3, <2>7 DEF Once, OnePlace
    <3>2. ready[j] = 0 /\ delayed[j] = "absent"
      BY <2>3, <3>1 DEF Waiting, Inv, TypeOK
    <3>3. ready'[j] = 1 /\ \A i \in Job : i.alert = a => (Waiting(i)' <=> i = j) /\ ~InPump(i)'
      BY <2>3, <2>4, <2>5, <3>1, <3>2 DEF Waiting
    <3>4. \A i \in Job : i.alert = a => /\ ready'[i] <= 1
                                        /\ ready'[i] > 0 => delayed'[i] = "absent"
      BY <2>3, <2>5, <3>1, <3>2, <3>3 DEF Waiting, Inv, TypeOK
    <3>5. QED BY <2>3, <3>1, <3>3, <3>4 DEF OnePlace
  <2>8. QED BY <2>1, <2>3, <2>6, <2>7 DEF Once
<1>6. ASSUME NEW a \in Alerts, ClaimAges(a) PROVE Once'
  <2>1. Once /\ OnlyOne'
    BY <1>6 DEF ClaimAges, QuietInv, Quiet, Once, OnlyOne
  <2>2. QED BY <1>2, <1>6, <2>1 DEF ClaimAges
<1>7. ASSUME NEW j \in Job, BackoffEnds(j) PROVE Once'
  <2>1. Once /\ OnlyOne'
    BY <1>7 DEF BackoffEnds, QuietInv, Quiet, Once, OnlyOne
  <2>2. Due \subseteq Due' /\ \A i \in Job : Waiting(i)' <=> Waiting(i)
    BY <1>7 DEF BackoffEnds, Due, Waiting, Inv, TypeOK
  <2>3. \A i \in Job : delayed[i] = "absent" => delayed'[i] = "absent"
    BY <1>7 DEF BackoffEnds, Inv, TypeOK
  <2>4. \A i : (InPump(i)' <=> InPump(i)) /\ (ToPost(i)' <=> ToPost(i))
    BY <1>7 DEF BackoffEnds, InPump, ToPost
  <2>5. Promising'
    BY <1>7, <2>1, <2>2 DEF BackoffEnds, Promising, Once
  <2>6. ASSUME NEW a \in Alerts \ returned PROVE OnePlace(a)'
    <3>1. OnePlace(a) /\ UNCHANGED <<ready, raised, accepted>>
      BY <1>7, <2>1 DEF BackoffEnds, Once
    <3>2. QED BY <2>2, <2>3, <2>4, <3>1, NoMorePlaces DEF OnePlace
  <2>7. QED BY <1>7, <2>1, <2>5, <2>6 DEF BackoffEnds, Once
<1>8. ASSUME NEW p \in Processes, Start(p) PROVE Once'
  <2>1. starts = 0 /\ Once /\ up = {} /\ up' = {p}
    BY <1>1, <1>8 DEF Start, QuietInv, Quiet, Once, OnlyOne
  <2>2. starts' = 1 /\ \A q \in Processes \ {p} : recovery'[q] = recovery[q] /\ pump'[q] = pump[q]
    BY <1>8, <2>1 DEF Start, Inv, TypeOK
  <2>3. OnlyOne'
    BY <2>1, <2>2 DEF Once, OnlyOne
  <2>4. QED BY <1>2, <1>8, <2>1, <2>3 DEF Start
<1>9. ASSUME NEW p \in Processes, ReadClaims(p) \/ ReadJobs(p) \/ RecoverForgets(p) \/ RecoveryEnds(p)
                                  \/ \E j \in Job : Skip(p, j) \/ RecoverRemoves(p, j) PROVE Once'
  <2>1. /\ UNCHANGED <<ready, delayed, pump, raised, accepted, returned, up, starts, errors>>
        /\ p \in up /\ \A q \in Processes \ {p} : recovery'[q] = recovery[q]
    BY <1>9 DEF ReadClaims, ReadJobs, RecoverForgets, RecoveryEnds, Skip, RecoverRemoves, RecAt, RecTo,
                Inv, TypeOK
  <2>2. Once
    BY <2>1 DEF QuietInv, Quiet
  <2>3. QED BY <1>2, <1>3, <2>1, <2>2
<1>10. ASSUME NEW p \in Processes, RecoverReturns(p) PROVE Once'
  <2>1. Once /\ p \in up /\ \A q \in Processes \ {p} : recovery'[q] = recovery[q]
    BY <1>10 DEF RecoverReturns, RecAt, QuietInv, Quiet, Inv, TypeOK
  <2>2. PICK j \in Job : j = recovery[p].job
    BY <1>10 DEF RecoverReturns, RecAt, Inv, Holding, RecoveryHolds
  <2>3. /\ returned' = returned \cup {j.alert} /\ ready' = Push(ready, j)
        /\ UNCHANGED <<delayed, pump, raised, accepted, up, starts>>
    BY <1>10, <2>2 DEF RecoverReturns
  <2>4. OnlyOne' /\ Promising'
    BY <1>3, <2>1, <2>3 DEF Promising, Due, Once
  <2>5. ASSUME NEW a \in Alerts \ returned' PROVE OnePlace(a)'
    <3>1. OnePlace(a) /\ \A i \in Job : i.alert = a => ready'[i] = ready[i]
      BY <2>1, <2>3, <2>5 DEF Once, Push, Inv, TypeOK
    <3>2. QED BY <2>3, <3>1 DEF OnePlace, Waiting, InPump, ToPost
  <2>6. QED BY <2>1, <2>3, <2>4, <2>5 DEF Once
<1>11. ASSUME NEW p \in Processes, Gone(p) PROVE Once'
  <2>1. Once /\ UNCHANGED <<ready, delayed, raised, accepted, returned, starts>>
    BY <1>11 DEF Gone, QuietInv, Quiet
  <2>2. \A q \in Processes : (pump'[q] = pump[q] \/ pump'[q] = Resting)
    BY <1>11 DEF Gone, Inv, TypeOK
  <2>3. \A j : (InPump(j)' => InPump(j)) /\ (ToPost(j)' => ToPost(j))
    BY <2>2 DEF InPump, ToPost, Resting, HasJob
  <2>4. OnlyOne'
    BY <1>11, <2>1 DEF Gone, Once, OnlyOne, Inv, TypeOK
  <2>5. Promising'
    BY <2>1, <2>2 DEF Promising, Due, Resting, Once
  <2>6. QED BY <2>1, <2>3, <2>4, <2>5, SameWaiting DEF Once
\* What a step of the pump has in common.
<1>12. ASSUME NEW p \in Processes, p \in up, UNCHANGED <<up, starts, errors, recovery, returned, raised>>,
              \A q \in Processes \ {p} : pump'[q] = pump[q], Promising',
              \A a \in Alerts \ returned : OnePlace(a)' /\ accepted'[a] <= 1
                                           /\ (a \notin raised => accepted'[a] = 0)
       PROVE  Once'
  <2>1. Once
    BY <1>12 DEF QuietInv, Quiet
  <2>2. QED BY <1>3, <1>12, <2>1 DEF Once
<1>13. ASSUME NEW p \in Processes, PumpReads(p) PROVE Once'
  <2>1. /\ Once /\ p \in up /\ UNCHANGED <<up, starts, errors, recovery, returned, raised, lists, accepted>>
        /\ \A q \in Processes \ {p} : pump'[q] = pump[q]
        /\ pump'[p].at = "promote" /\ pump'[p].due = Due /\ Due' = Due
    BY <1>13 DEF PumpReads, PumpAt, QuietInv, Quiet, Inv, TypeOK, PumpState, Due
  <2>2. Promising'
    BY <2>1 DEF Promising, Once
  <2>3. \A j : (InPump(j)' => InPump(j)) /\ (ToPost(j)' => ToPost(j))
    BY <2>1 DEF InPump, ToPost, HasJob
  <2>4. \A a \in Alerts \ returned : OnePlace(a)'
    BY <2>1, <2>3, SameWaiting DEF Once
  <2>5. QED BY <1>12, <2>1, <2>2, <2>4 DEF Once
<1>14. ASSUME NEW p \in Processes, Promote(p) PROVE Once'
  <2>1. /\ Once /\ p \in up /\ UNCHANGED <<up, starts, errors, recovery, returned, raised, accepted>>
        /\ \A q \in Processes \ {p} : pump'[q] = pump[q]
        /\ pump'[p] = Resting /\ pump[p].at = "promote"
    BY <1>14 DEF Promote, PumpRests, PumpAt, QuietInv, Quiet, Inv, TypeOK
  <2>2. \A j : (InPump(j)' => InPump(j)) /\ (ToPost(j)' => ToPost(j))
    BY <2>1 DEF InPump, ToPost, HasJob, Resting
  <2>3. pump[p].due \subseteq Due /\ Promising'
    <3>1. Promising'
      BY <1>4, <2>1 DEF Resting
    <3>2. QED BY <2>1, <3>1 DEF Once, Promising
  <2>4. \A j \in Job : /\ ready'[j] = ready[j] + (IF j \in pump[p].due THEN 1 ELSE 0)
                       /\ delayed'[j] = IF j \in pump[p].due THEN "absent" ELSE delayed[j]
    BY <1>14 DEF Promote, Promoted
  <2>5. ASSUME NEW a \in Alerts \ returned PROVE OnePlace(a)'
    <3>1. OnePlace(a)
      BY <2>1 DEF Once
    <3>2. ASSUME NEW j \in Job, j.alert = a, j \in pump[p].due
          PROVE  ready'[j] = 1 /\ delayed'[j] = "absent" /\ Waiting(j)
      <4>1. delayed[j] = "due" /\ ready[j] \in Nat
        BY <2>3, <3>2 DEF Due, Inv, TypeOK
      <4>2. ready[j] = 0
        BY <3>1, <3>2, <4>1 DEF OnePlace
      <4>3. QED BY <2>4, <3>2, <4>1, <4>2 DEF Waiting
    <3>3. ASSUME NEW j \in Job, j.alert = a, j \notin pump[p].due
          PROVE  ready'[j] = ready[j] /\ delayed'[j] = delayed[j]
      BY <2>4, <3>3 DEF Inv, TypeOK
    <3>4. \A j \in Job : j.alert = a =>
            /\ ready'[j] <= 1 /\ (ready'[j] > 0 => delayed'[j] = "absent")
            /\ (Waiting(j)' => Waiting(j))
      BY <3>1, <3>2, <3>3 DEF OnePlace, Waiting
    <3>5. QED BY <2>1, <2>2, <3>1, <3>4, NoMorePlaces
  <2>6. QED BY <1>12, <2>1, <2>3, <2>5 DEF Once
<1>15. ASSUME NEW p \in Processes, NEW j \in Job, Claim(p, j) PROVE Once'
  <2>1. /\ Once /\ p \in up /\ UNCHANGED <<up, starts, errors, recovery, returned, raised, accepted, delayed>>
        /\ \A q \in Processes \ {p} : pump'[q] = pump[q] /\ q \notin up
        /\ pump'[p].at = "note" /\ pump'[p].job = j /\ pump[p].at = "idle" /\ ready' = Drop(ready, j)
        /\ ready[j] > 0
    BY <1>15 DEF Claim, PumpAt, QuietInv, Quiet, Inv, TypeOK, PumpState, Once, OnlyOne
  <2>2. \A q \in Processes \ {p} : pump[q] = Resting /\ pump'[q] = Resting
    BY <2>1 DEF Once, OnlyOne
  <2>3. Promising'
    BY <2>1, <2>2 DEF Promising, Resting
  <2>4. \A i : (InPump(i)' <=> i = j) /\ (ToPost(i)' <=> i = j) /\ ~InPump(i) /\ ~ToPost(i)
    BY <2>1, <2>2 DEF InPump, ToPost, HasJob, Resting
  <2>5. \A i \in Job \ {j} : ready'[i] = ready[i]
    BY <2>1, ListType DEF Inv, TypeOK
  <2>6. ASSUME NEW a \in Alerts \ returned, a # j.alert PROVE OnePlace(a)'
    <3>1. OnePlace(a) /\ \A i \in Job : i.alert = a => ready'[i] = ready[i] /\ i # j
      BY <2>1, <2>5, <2>6 DEF Once
    <3>2. QED BY <2>1, <2>4, <3>1, NoMorePlaces DEF OnePlace, Waiting
  <2>7. ASSUME j.alert \notin returned PROVE OnePlace(j.alert)'
    <3>1. PICK a \in Alerts : a = j.alert
      BY JobFields
    <3>2. OnePlace(a) /\ Waiting(j)
      BY <2>1, <2>7, <3>1 DEF Once, Waiting
    <3>3. ready[j] = 1 /\ delayed[j] = "absent" /\ a \in raised /\ ~(accepted[a] > 0)
      BY <2>1, <3>1, <3>2 DEF OnePlace, Inv, TypeOK
    <3>4. ready'[j] = 0
      BY <2>1, <3>3 DEF Drop, Inv, TypeOK
    <3>5. \A i \in Job : i.alert = a => ~Waiting(i)'
      BY <2>1, <2>5, <3>1, <3>2, <3>3, <3>4 DEF OnePlace, Waiting
    <3>6. \A i \in Job : i.alert = a => ready'[i] <= 1 /\ ~(ready'[i] > 0)
      BY <2>5, <3>4, <3>5, ListType, <2>1 DEF Waiting, Inv, TypeOK
    <3>7. OnePlace(a)'
      BY <2>1, <3>3, <3>5, <3>6 DEF OnePlace
    <3>8. QED BY <3>1, <3>7
  <2>8. QED BY <1>12, <2>1, <2>3, <2>6, <2>7 DEF Once
\* Steps of a pump that has a job and makes no delivery.
<1>16. ASSUME NEW p \in Processes, pump[p].at \in HasJob, p \in up,
              UNCHANGED <<up, starts, errors, recovery, returned, raised, ready, delayed, accepted>>,
              \A q \in Processes \ {p} : pump'[q] = pump[q], pump'[p].at # "promote",
              pump'[p].at \in HasJob => pump'[p].job = pump[p].job,
              pump'[p].at \in HasJob \ {"complete", "completed"}
                => pump[p].at \notin {"complete", "completed"}
       PROVE  Once'
  <2>1. Once
    BY <1>16 DEF QuietInv, Quiet
  <2>2. Promising'
    BY <1>4, <1>16, <2>1 DEF HasJob
  <2>3. \A j : (InPump(j)' => InPump(j)) /\ (ToPost(j)' => ToPost(j))
    BY <1>16 DEF InPump, ToPost
  <2>4. \A a \in Alerts \ returned : OnePlace(a)'
    BY <1>16, <2>1, <2>3, SameWaiting DEF Once
  <2>5. QED BY <1>12, <1>16, <2>1, <2>2, <2>4 DEF Once
<1>17. ASSUME NEW p \in Processes, NoteClaim(p) \/ PostFails(p) \/ CompleteRemoves(p) \/ CompleteForgets(p)
                                   \/ FailRemoves(p) \/ FailForgets(p) PROVE Once'
  <2>1. /\ pump[p].at \in HasJob /\ p \in up
        /\ UNCHANGED <<up, starts, errors, recovery, returned, raised, ready, delayed, accepted>>
    BY <1>17 DEF NoteClaim, PostFails, CompleteRemoves, CompleteForgets, FailRemoves, FailForgets, PumpAt,
                 HasJob
  <2>2. /\ \A q \in Processes \ {p} : pump'[q] = pump[q]
        /\ \/ pump'[p] = Resting
           \/ pump'[p].job = pump[p].job /\ pump[p].at = "complete" /\ pump'[p].at = "completed"
           \/ /\ pump'[p].job = pump[p].job /\ pump[p].at \in {"note", "post", "fail", "failed"}
              /\ pump'[p].at \in {"post", "fail", "failed", "retry"}
    BY <1>17 DEF NoteClaim, PostFails, CompleteRemoves, CompleteForgets, FailRemoves, FailForgets, PumpAt,
                 PumpTo, PumpRests, Inv, TypeOK, PumpState
  <2>3. /\ pump'[p].at # "promote" /\ (pump'[p].at \in HasJob => pump'[p].job = pump[p].job)
        /\ pump'[p].at \in HasJob \ {"complete", "completed"}
             => pump[p].at \notin {"complete", "completed"}
    BY <2>2 DEF Resting, HasJob
  <2>4. QED BY <1>16, <2>1, <2>2, <2>3
<1>18. ASSUME NEW p \in Processes, PostAccepted(p) PROVE Once'
  <2>1. /\ Once /\ p \in up /\ pump[p].at = "post"
        /\ UNCHANGED <<up, starts, errors, recovery, returned, raised, ready, delayed>>
        /\ \A q \in Processes \ {p} : pump'[q] = pump[q]
        /\ pump'[p].at = "complete" /\ pump'[p].job = pump[p].job
    BY <1>18 DEF PostAccepted, PumpAt, PumpTo, QuietInv, Quiet, Inv, TypeOK, PumpState
  <2>2. PICK j \in Job : j = pump[p].job
    BY <2>1 DEF Inv, Holding, PumpHolds, HasJob
  <2>3. accepted' = [accepted EXCEPT ![j.alert] = UpTo(@, 2)] /\ j.alert \in Alerts
    BY <1>18, <2>2, JobFields DEF PostAccepted, Received
  <2>4. Promising'
    BY <1>4, <2>1
  <2>5. \A i : (InPump(i) <=> i = j) /\ (ToPost(i) <=> i = j)
    BY <2>1, <2>2, InHandIs DEF HasJob
  <2>6. \A i : (InPump(i)' <=> i = j) /\ ~ToPost(i)'
    BY <2>1, <2>2, OnlyPump DEF InPump, ToPost, HasJob, Resting
  <2>7. ASSUME NEW a \in Alerts \ returned, a # j.alert PROVE OnePlace(a)' /\ accepted'[a] = accepted[a]
    <3>1. OnePlace(a) /\ accepted'[a] = accepted[a]
      BY <2>1, <2>3, <2>7 DEF Once, Inv, TypeOK
    <3>2. QED BY <2>1, <2>5, <2>6, <3>1, SameWaiting
  <2>8. ASSUME j.alert \notin returned PROVE OnePlace(j.alert)' /\ accepted'[j.alert] = 1
                                             /\ j.alert \in raised
    <3>1. PICK a \in Alerts : a = j.alert
      BY <2>3
    <3>2. OnePlace(a)
      BY <2>1, <2>8, <3>1 DEF Once
    <3>3. ~(accepted[a] > 0) /\ a \in raised /\ \A k \in Job : k.alert = a => ~Waiting(k)
      BY <2>5, <3>1, <3>2 DEF OnePlace
    <3>4. accepted'[a] = 1
      BY <2>3, <3>1, <3>3 DEF UpTo, Inv, TypeOK
    <3>5. \A k \in Job : k.alert = a => ~Waiting(k)' /\ ready'[k] = ready[k] /\ delayed'[k] = delayed[k]
      BY <2>1, <3>3 DEF Waiting
    <3>6. OnePlace(a)'
      BY <2>1, <2>6, <3>2, <3>3, <3>5 DEF OnePlace
    <3>7. QED BY <3>1, <3>3, <3>4, <3>6
  <2>9. \A a \in Alerts \ returned : OnePlace(a)' /\ accepted'[a] <= 1 /\ (a \notin raised => accepted'[a] = 0)
    BY <2>1, <2>7, <2>8 DEF Once
  <2>10. QED BY <1>12, <2>1, <2>4, <2>9
<1>19. ASSUME NEW p \in Processes, Retry(p) PROVE Once'
  <2>1. /\ Once /\ p \in up /\ pump[p].at = "retry" /\ pump'[p] = Resting
        /\ UNCHANGED <<up, starts, errors, recovery, returned, raised, ready, accepted>>
        /\ \A q \in Processes \ {p} : pump'[q] = pump[q]
    BY <1>19 DEF Retry, PumpAt, PumpRests, QuietInv, Quiet, Inv, TypeOK
  <2>2. PICK j \in Job : j = pump[p].job
    BY <2>1 DEF Inv, Holding, PumpHolds, HasJob
  <2>3. Promising' /\ \A i : ~InPump(i)' /\ ~ToPost(i)'
    <3>1. \A q \in Processes : pump'[q] = Resting
      BY <2>1, OnlyPump
    <3>2. QED BY <3>1 DEF Promising, InPump, ToPost, HasJob, Resting
  <2>4. \A i : (InPump(i) <=> i = j) /\ (ToPost(i) <=> i = j)
    BY <2>1, <2>2, InHandIs DEF HasJob
  <2>5. CASE Exhausted(j)
    <3>1. UNCHANGED delayed
      BY <1>19, <2>2, <2>5 DEF Retry
    <3>2. \A a \in Alerts \ returned : OnePlace(a)'
      BY <2>1, <2>3, <3>1, SameWaiting DEF Once
    <3>3. QED BY <1>12, <2>1, <2>3, <3>2 DEF Once
  <2>6. CASE ~Exhausted(j)
    <3>1. PICK k \in Job : k = [j EXCEPT !.attempts = @ + 1] /\ k.alert = j.alert
      BY <2>6, NextJob DEF Job
    <3>2. delayed' = [delayed EXCEPT ![k] = "waiting"]
      BY <1>19, <2>2, <2>6, <3>1 DEF Retry
    <3>3. \A i \in Job \ {k} : delayed'[i] = delayed[i]
      BY <3>2 DEF Inv, TypeOK
    <3>4. ASSUME NEW a \in Alerts \ returned, a # j.alert PROVE OnePlace(a)'
      <4>1. OnePlace(a) /\ \A i \in Job : i.alert = a => delayed'[i] = delayed[i]
        BY <2>1, <3>1, <3>3, <3>4 DEF Once
      <4>2. QED BY <2>1, <2>3, <4>1, NoMorePlaces DEF OnePlace, Waiting
    <3>5. ASSUME j.alert \notin returned PROVE OnePlace(j.alert)'
      <4>1. PICK a \in Alerts : a = j.alert
        BY JobFields
      <4>2. OnePlace(a)
        BY <2>1, <3>5, <4>1 DEF Once
      <4>3. ~(accepted[a] > 0) /\ a \in raised /\ \A i \in Job : i.alert = a => ~Waiting(i)
        BY <2>4, <4>1, <4>2 DEF OnePlace
      <4>4. \A i \in Job : i.alert = a => ~(ready'[i] > 0) /\ ready'[i] <= 1 /\ (Waiting(i)' => i = k)
        BY <2>1, <3>3, <4>2, <4>3 DEF Waiting, OnePlace
      <4>5. OnePlace(a)'
        BY <2>1, <2>3, <4>3, <4>4 DEF OnePlace
      <4>6. QED BY <4>1, <4>5
    <3>6. QED BY <1>12, <2>1, <2>3, <3>4, <3>5 DEF Once
  <2>7. QED BY <2>5, <2>6
<1>20. ASSUME NEW p \in Processes, ClaimThrows(p) \/ PostTimesOut(p) \/ CompleteThrows(p) \/ RecoveryThrows(p)
       PROVE  FALSE
  BY <1>1, <1>20 DEF ClaimThrows, PostTimesOut, CompleteThrows, RecoveryThrows, Quiet
<1>21. CASE UNCHANGED vars
  <2>1. Once
    BY <1>21 DEF vars, QuietInv, Quiet
  <2>2. QED BY <1>2, <1>21, <2>1 DEF vars, Once, OnlyOne
<1>22. QED
  BY <1>5, <1>6, <1>7, <1>8, <1>9, <1>10, <1>11, <1>13, <1>14, <1>15, <1>17, <1>18, <1>19, <1>20, <1>21
  DEF Next, PumpStep, RecoveryStep, Trouble, Stop, Crash

\* While one process runs and nothing fails, the webhook takes an alert once,
\* unless recovery put it back: an alert has one place to be delivered from.
THEOREM TakenOnce == Spec => []OnceInQuietTimes
<1>1. QuietInv => OnceInQuietTimes
  BY DEF QuietInv, Quiet, Once, OnceInQuietTimes
<1>2. QED BY InitInv, InvStep, OnceInit, OnceStep, <1>1, PTL DEF Spec

-----------------------------------------------------------------------------
(* The simulated broker.  Sums over the fills are recursive functions, and *)
(* so is the walk over the orders that a price makes: that they exist, and *)
(* what they keep, goes from each number to the next by UpwardsFromZero.   *)

LessThan == {ss \in Nat \X Nat : ss[1] < ss[2]}
LEMMA NaturalOrder == IsWellFoundedOn(LessThan, Nat)
BY NatLessThanWellFounded DEF OpToRel, LessThan

\* What is so for 0, and for n + 1 whenever it is for n, is so for all up to N.
LEMMA UpwardsFromZero ==
  ASSUME NEW N \in Nat, NEW S \in SUBSET (0 .. N), 0 \in S,
         \A n \in S : n < N => n + 1 \in S
  PROVE  S = 0 .. N
<1> SUFFICES ASSUME (0 .. N) \ S # {} PROVE FALSE
  OBVIOUS
<1>1. (0 .. N) \ S \in SUBSET Nat
  OBVIOUS
<1>2. PICK x \in (0 .. N) \ S : \A y \in (0 .. N) \ S : <<y, x>> \notin LessThan
  BY <1>1, NaturalOrder, WFMin
<1>3. x \in Nat /\ x # 0 /\ x <= N
  BY <1>2
<1>4. x - 1 \in 0 .. N /\ x - 1 \in Nat /\ <<x - 1, x>> \in LessThan
  BY <1>3 DEF LessThan
<1>5. QED BY <1>2, <1>3, <1>4

\* The recursive function of the sums exists.
LEMMA SumsExist ==
  ASSUME NEW v \in Seq(Int)
  PROVE  Sums(v) = [n \in 0 .. Len(v) |-> IF n = 0 THEN 0 ELSE Sums(v)[n - 1] + v[n]]
<1> DEFINE N == Len(v)
           IsSum(g, m) == g = [n \in 0 .. m |-> IF n = 0 THEN 0 ELSE g[n - 1] + v[n]]
           S == {m \in 0 .. N : \E g : IsSum(g, m)}
<1>1. N \in Nat /\ S \in SUBSET (0 .. N)
  OBVIOUS
<1>2. 0 \in S
  <2> DEFINE g == [n \in 0 .. 0 |-> 0]
  <2>1. IsSum(g, 0)
    OBVIOUS
  <2> HIDE DEF g, IsSum
  <2>2. QED BY <1>1, <2>1
<1>3. ASSUME NEW m \in S, m < N PROVE m + 1 \in S
  <2>1. PICK g : IsSum(g, m)
    OBVIOUS
  <2>2. m \in Nat
    OBVIOUS
  <2> DEFINE h == [n \in 0 .. m + 1 |-> IF n = m + 1 THEN g[m] + v[m + 1] ELSE g[n]]
  <2>3. IsSum(h, m + 1)
    <3>1. ASSUME NEW n \in 0 .. m + 1
          PROVE  h[n] = IF n = 0 THEN 0 ELSE h[n - 1] + v[n]
      <4>1. CASE n = 0
        <5>1. 0 \in 0 .. m /\ g[0] = 0 /\ m + 1 # 0
          BY <2>1, <2>2
        <5>2. QED BY <4>1, <5>1
      <4>2. CASE n = m + 1
        BY <2>2, <4>2
      <4>3. CASE n # 0 /\ n # m + 1
        <5>1. n \in 0 .. m /\ n - 1 \in 0 .. m + 1 /\ n - 1 # m + 1
          BY <2>2, <4>3
        <5>2. h[n] = g[n] /\ h[n - 1] = g[n - 1]
          BY <4>3, <5>1
        <5>3. g[n] = g[n - 1] + v[n]
          BY <2>1, <4>3, <5>1
        <5>4. QED BY <4>3, <5>2, <5>3
      <4>4. QED BY <4>1, <4>2, <4>3
    <3>2. QED BY <3>1
  <2> HIDE DEF h, IsSum
  <2>4. m + 1 \in 0 .. N
    BY <1>1, <1>3, <2>2
  <2>5. QED BY <2>3, <2>4
<1>4. N \in S
  <2> HIDE DEF S, N
  <2> QED BY <1>1, <1>2, <1>3, UpwardsFromZero
<1>5. PICK g : IsSum(g, N)
  BY <1>4
<1>6. QED BY <1>5 DEF Sums

LEMMA SumsAreWhole ==
  ASSUME NEW v \in Seq(Int)
  PROVE  \A n \in 0 .. Len(v) : Sums(v)[n] \in Int
<1> DEFINE N == Len(v)
           S == {n \in 0 .. N : Sums(v)[n] \in Int}
<1>1. N \in Nat /\ S \in SUBSET (0 .. N)
  OBVIOUS
<1>2. 0 \in S
  <2>1. Sums(v)[0] = 0
    BY <1>1, SumsExist
  <2>2. QED BY <1>1, <2>1
<1>3. ASSUME NEW m \in S, m < N PROVE m + 1 \in S
  <2>1. m \in Nat /\ m + 1 \in 0 .. N /\ m + 1 \in 1 .. N /\ Sums(v)[m] \in Int /\ m + 1 # 0 /\ m + 1 - 1 = m
    BY <1>1, <1>3
  <2>2. v[m + 1] \in Int
    BY <2>1
  <2>3. Sums(v)[m + 1] = Sums(v)[m + 1 - 1] + v[m + 1]
    BY <2>1, SumsExist
  <2>4. QED BY <2>1, <2>2, <2>3
<1>4. N \in Nat /\ S = 0 .. N
  <2> HIDE DEF S, N
  <2> QED BY <1>1, <1>2, <1>3, UpwardsFromZero
<1>5. QED BY <1>4

\* Sums depend on the numbers summed and on no others.
LEMMA SumsAgree ==
  ASSUME NEW u \in Seq(Int), NEW v \in Seq(Int), NEW N \in Nat, N <= Len(u), N <= Len(v),
         \A i \in 1 .. N : u[i] = v[i]
  PROVE  \A n \in 0 .. N : Sums(u)[n] = Sums(v)[n]
<1> DEFINE S == {n \in 0 .. N : Sums(u)[n] = Sums(v)[n]}
<1>1. S \in SUBSET (0 .. N) /\ Len(u) \in Nat /\ Len(v) \in Nat
  OBVIOUS
<1>2. 0 \in S
  <2>1. Sums(u)[0] = 0 /\ Sums(v)[0] = 0
    BY <1>1, SumsExist
  <2>2. QED BY <1>1, <2>1
<1>3. ASSUME NEW m \in S, m < N PROVE m + 1 \in S
  <2>1. /\ m \in Nat /\ m + 1 \in 0 .. N /\ m + 1 \in 1 .. N /\ m + 1 # 0 /\ m + 1 - 1 = m
        /\ Sums(u)[m] = Sums(v)[m]
    BY <1>1, <1>3
  <2>2. m + 1 \in 0 .. Len(u) /\ m + 1 \in 0 .. Len(v)
    BY <1>1, <2>1
  <2>3. Sums(u)[m + 1] = Sums(u)[m + 1 - 1] + u[m + 1]
    BY <2>1, <2>2, SumsExist
  <2>4. Sums(v)[m + 1] = Sums(v)[m + 1 - 1] + v[m + 1]
    BY <2>1, <2>2, SumsExist
  <2>5. QED BY <2>1, <2>3, <2>4
<1>4. S = 0 .. N
  <2> HIDE DEF S
  <2> QED BY <1>1, <1>2, <1>3, UpwardsFromZero
<1>5. QED BY <1>4

LEMMA TotalAppends ==
  ASSUME NEW v \in Seq(Int), NEW x \in Int
  PROVE  /\ Total(v) \in Int /\ Total(Append(v, x)) = Total(v) + x
         /\ \A n \in 0 .. Len(v) : Sums(Append(v, x))[n] = Sums(v)[n]
<1> DEFINE u == Append(v, x)
           N == Len(v)
<1>1. /\ u \in Seq(Int) /\ N \in Nat /\ Len(u) = N + 1 /\ u[N + 1] = x
      /\ \A i \in 1 .. N : u[i] = v[i]
  OBVIOUS
<1> HIDE DEF u, N
<1>2. \A n \in 0 .. N : Sums(u)[n] = Sums(v)[n]
  <2>1. N <= Len(u) /\ N <= Len(v) /\ \A i \in 1 .. N : u[i] = v[i]
    BY <1>1 DEF N
  <2>2. QED BY <1>1, <2>1, SumsAgree
<1>3. N \in 0 .. N /\ N + 1 \in 0 .. N + 1 /\ N + 1 # 0 /\ N + 1 - 1 = N
  BY <1>1
<1>4. Sums(u)[N + 1] = Sums(u)[N + 1 - 1] + u[N + 1]
  <2>1. Sums(u) = [n \in 0 .. N + 1 |-> IF n = 0 THEN 0 ELSE Sums(u)[n - 1] + u[n]]
    BY <1>1, SumsExist
  <2>2. QED BY <1>3, <2>1
<1>5. Total(v) \in Int /\ Total(v) = Sums(v)[N]
  BY <1>3, SumsAreWhole DEF Total, N
<1>6. Total(u) = Total(v) + x
  BY <1>1, <1>2, <1>3, <1>4, <1>5 DEF Total
<1>7. QED BY <1>2, <1>5, <1>6 DEF u, N

LEMMA NothingTotals ==
  ASSUME NEW v \in Seq(Int), \A i \in DOMAIN v : v[i] = 0
  PROVE  Total(v) = 0
<1> DEFINE N == Len(v)
           S == {n \in 0 .. N : Sums(v)[n] = 0}
<1>1. N \in Nat /\ S \in SUBSET (0 .. N)
  OBVIOUS
<1>2. 0 \in S
  <2>1. Sums(v)[0] = 0
    BY <1>1, SumsExist
  <2>2. QED BY <1>1, <2>1
<1>3. ASSUME NEW m \in S, m < N PROVE m + 1 \in S
  <2>1. /\ m \in Nat /\ m + 1 \in 0 .. N /\ m + 1 \in 1 .. N /\ m + 1 # 0 /\ m + 1 - 1 = m
        /\ Sums(v)[m] = 0
    BY <1>1, <1>3
  <2>2. v[m + 1] = 0
    BY <2>1
  <2>3. Sums(v)[m + 1] = Sums(v)[m + 1 - 1] + v[m + 1]
    BY <2>1, SumsExist
  <2>4. QED BY <2>1, <2>2, <2>3
<1>4. S = 0 .. N
  <2> HIDE DEF S, N
  <2> QED BY <1>1, <1>2, <1>3, UpwardsFromZero
<1>5. QED BY <1>1, <1>4 DEF Total

\* A quotient is rounded to the nearest: what it misses is half the divisor at most.
LEMMA RoundedIsNear ==
  ASSUME NEW n \in Int, NEW d \in Int, d # 0
  PROVE  /\ RoundedQuotient(n, d) \in Int
         /\ 2 * Magnitude(n - d * RoundedQuotient(n, d)) <= Magnitude(d)
         /\ n >= 0 /\ d > 0 => RoundedQuotient(n, d) >= 0
<1> DEFINE m == Magnitude(d)
           e == Sgn(d)
           x == 2 * e * n + m
           q == x \div (2 * m)
<1>1. m \in Nat \ {0} /\ d = e * m /\ (e = 1 \/ e = -1) /\ (d > 0 => e = 1)
  BY DEF Magnitude, Sgn
<1>2. x \in Int /\ RoundedQuotient(n, d) = q
  BY <1>1 DEF RoundedQuotient
<1> HIDE DEF m, e, x
<1>3. q \in Int /\ (2 * m) * q <= x /\ x < (2 * m) * q + 2 * m
  <2> DEFINE mm == 2 * m
             r == x % mm
  <2>1. mm \in Nat \ {0}
    BY <1>1
  <2> HIDE DEF mm
  <2>2. x \div mm \in Int /\ r \in Int /\ 0 <= r /\ r < mm /\ x = mm * (x \div mm) + r
    BY <1>2, <2>1
  <2>3. mm * (x \div mm) <= x /\ x < mm * (x \div mm) + mm
    <3> DEFINE y == mm * (x \div mm)
    <3>1. y \in Int
      BY <2>1, <2>2
    <3> HIDE DEF y, r
    <3>2. x = y + r
      BY <2>2 DEF y
    <3>3. y <= x /\ x < y + mm
      BY <1>2, <2>1, <2>2, <3>1, <3>2
    <3>4. QED BY <3>3 DEF y
  <2>4. QED BY <2>2, <2>3 DEF mm
<1> DEFINE z == e * n - m * q
<1> HIDE DEF q
<1>4. z \in Int /\ 2 * z <= m /\ 2 * z >= -m
  <2> DEFINE en == e * n
             mq == m * q
  <2>1. en \in Int /\ mq \in Int /\ m \in Int
    BY <1>1, <1>3
  <2>2. x = 2 * en + m
    BY <1>1 DEF x
  <2>3. (2 * m) * q = 2 * mq
    BY <1>1, <1>3
  <2> HIDE DEF en, mq
  <2>4. 2 * (en - mq) <= m /\ 2 * (en - mq) >= -m
    BY <1>3, <2>1, <2>2, <2>3
  <2>5. QED BY <2>1, <2>4 DEF en, mq
<1>5. n - d * q = e * z
  <2>1. CASE e = 1
    BY <1>1, <1>3, <2>1 DEF z
  <2>2. CASE e = -1
    BY <1>1, <1>3, <2>2 DEF z
  <2>3. QED BY <1>1, <2>1, <2>2
<1>6. 2 * Magnitude(n - d * q) <= m
  <2> HIDE DEF z
  <2>1. CASE e = 1
    BY <1>1, <1>4, <1>5, <2>1 DEF Magnitude
  <2>2. CASE e = -1
    BY <1>1, <1>4, <1>5, <2>2 DEF Magnitude
  <2>3. QED BY <1>1, <2>1, <2>2
<1>7. ASSUME n >= 0, d > 0 PROVE q >= 0
  <2>1. x >= 0
    BY <1>1, <1>7 DEF x
  <2>2. ASSUME q < 0 PROVE FALSE
    <3>1. -1 - q \in Nat
      BY <1>3, <2>2
    <3>2. m * (-1 - q) >= 0 /\ m * (-1 - q) = -m - m * q /\ m * q \in Int
      BY <1>1, <1>3, <3>1
    <3>3. (2 * m) * q = 2 * (m * q)
      BY <1>1, <1>3
    <3>4. QED BY <1>1, <1>2, <1>3, <2>1, <3>2, <3>3
  <2>3. QED BY <1>3, <2>2
<1>8. QED BY <1>2, <1>3, <1>6, <1>7 DEF m

LEMMA RatesAreWhole ==
  ASSUME NEW a \in Int, NEW r \in Nat
  PROVE  MulRate(a, r) \in Int /\ (a >= 0 => MulRate(a, r) >= 0)
<1> DEFINE q == RoundedQuotient(Magnitude(a) * r, RateScale)
<1>1. Magnitude(a) \in Nat /\ Magnitude(a) * r \in Nat /\ RateScale \in Int /\ RateScale > 0
  BY PaperAssumption DEF Magnitude
<1>2. q \in Int /\ q >= 0
  BY <1>1, RoundedIsNear
<1> HIDE DEF q
<1>3. Sgn(a) \in {-1, 0, 1} /\ (a >= 0 => Sgn(a) >= 0) /\ MulRate(a, r) = Sgn(a) * q
  BY DEF Sgn, MulRate, q
<1>4. QED BY <1>2, <1>3

LEMMA CostsAreWhole ==
  ASSUME NEW turnover \in Int, NEW side, NEW product
  PROVE  ComputeCosts(turnover, side, product, Schedule) \in Int
<1>1. /\ Schedule.brokerage \in Nat /\ Schedule.cap \in Nat /\ Schedule.sttDelivery \in Nat
      /\ Schedule.sttSell \in Nat /\ Schedule.exchange \in Nat /\ Schedule.sebi \in Nat
      /\ Schedule.gst \in Nat /\ Schedule.stamp \in Nat
  BY PaperAssumption
<1>2. Brokerage(turnover, Schedule) \in Int
  <2>1. MulRate(turnover, Schedule.brokerage) \in Int
    BY <1>1, RatesAreWhole
  <2>2. QED BY <1>1, <2>1 DEF Brokerage, Lesser
<1>3. Stt(turnover, side, product, Schedule) \in Int
  <2>1. MulRate(turnover, Schedule.sttDelivery) \in Int /\ MulRate(turnover, Schedule.sttSell) \in Int
    BY <1>1, RatesAreWhole
  <2>2. QED BY <2>1 DEF Stt
<1>4. MulRate(turnover, Schedule.exchange) \in Int /\ MulRate(turnover, Schedule.sebi) \in Int
      /\ MulRate(turnover, Schedule.stamp) \in Int
  BY <1>1, RatesAreWhole
<1>5. MulRate(Brokerage(turnover, Schedule) + MulRate(turnover, Schedule.exchange)
                + MulRate(turnover, Schedule.sebi), Schedule.gst) \in Int
  <2>1. Brokerage(turnover, Schedule) + MulRate(turnover, Schedule.exchange)
          + MulRate(turnover, Schedule.sebi) \in Int
    BY <1>2, <1>4
  <2>2. QED BY <1>1, <2>1, RatesAreWhole
<1>6. QED BY <1>2, <1>3, <1>4, <1>5 DEF ComputeCosts

\* A price off the grid moves to a tick on its own side.
LEMMA TicksBracket ==
  ASSUME NEW p \in Int
  PROVE  /\ TickFloor(p) \in Int /\ TickFloor(p) <= p
         /\ TickCeil(p) \in Int /\ p <= TickCeil(p)
<1>1. \A t \in Int : TickFloor(t) \in Int /\ TickFloor(t) <= t
  <2> SUFFICES ASSUME NEW t \in Int PROVE TickFloor(t) \in Int /\ TickFloor(t) <= t
    OBVIOUS
  <2> DEFINE k == t \div Tick
             r == t % Tick
  <2>1. Tick \in Nat \ {0}
    BY PaperAssumption
  <2>2. k \in Int /\ r \in Int /\ 0 <= r /\ t = Tick * k + r
    BY <2>1
  <2> HIDE DEF k, r
  <2>3. k * Tick = Tick * k /\ Tick * k \in Int
    BY <2>1, <2>2
  <2>4. QED BY <2>2, <2>3 DEF TickFloor, k
<1>2. -p \in Int
  OBVIOUS
<1>3. TickFloor(-p) \in Int /\ TickFloor(-p) <= -p
  BY <1>1, <1>2
<1>4. TickCeil(p) = -TickFloor(-p)
  BY DEF TickCeil
<1> DEFINE c == TickFloor(-p)
<1> HIDE DEF c
<1>5. c \in Int /\ c <= -p /\ TickCeil(p) = -c
  BY <1>3, <1>4 DEF c
<1>6. QED BY <1>1, <1>5
-----------------------------------------------------------------------------
FillRecord  == [order : Nat \ {0}, side : {"BUY", "SELL"}, quantity : Nat \ {0},
                price : Int, commission : Int, at : Nat]
BooksRecord == [cash : Int, paid : Int, quantity : Int, average : Int, realised : Int, last : Int]

\* The account as its cost price has it.
AtCost(b) == b.cash + b.quantity * b.average - b.realised

\* A fill changes it by the rounding of an average, or not at all.
LEMMA FillIsBooked ==
  ASSUME NEW b \in BooksRecord, NEW f \in FillRecord
  PROVE  LET c == ApplyFill(b, f)
         IN  /\ c \in BooksRecord
             /\ c.cash = b.cash - Signed(f) * f.price - f.commission
             /\ c.quantity = b.quantity + Signed(f)
             /\ Adds(b, f) => 2 * Magnitude(AtCost(c) + f.commission - AtCost(b))
                                <= Magnitude(c.quantity)
             /\ ~Adds(b, f) => AtCost(c) = AtCost(b)
<1> DEFINE s == Signed(f)
           c == ApplyFill(b, f)
           q == b.quantity
           a == b.average
           p == f.price
           k == f.commission
           spend == s * p
<1>1. /\ q \in Int /\ a \in Int /\ p \in Int /\ k \in Int /\ b.cash \in Int /\ b.paid \in Int
      /\ b.realised \in Int /\ f.quantity \in Nat \ {0} /\ f.side \in {"BUY", "SELL"}
  BY DEF FillRecord, BooksRecord
<1>2. s \in Int /\ s # 0 /\ (s = f.quantity \/ s = -f.quantity) /\ Magnitude(s) = f.quantity
  BY <1>1 DEF Signed, Magnitude
<1>3. /\ Charged(b, f) = [b EXCEPT !.cash = b.cash - s * p - k, !.paid = b.paid + k, !.last = p]
      /\ b.cash - s * p - k \in Int /\ b.paid + k \in Int
  BY <1>1, <1>2 DEF Charged
<1>4. /\ Charged(b, f) \in BooksRecord /\ Charged(b, f).cash = b.cash - s * p - k
      /\ Charged(b, f).quantity = q /\ Charged(b, f).average = a
      /\ Charged(b, f).realised = b.realised
  BY <1>1, <1>3 DEF BooksRecord
<1>5. CASE Adds(b, f)
  <2> DEFINE held == q + s
             n == q * a + s * p
             avg == RoundedQuotient(n, held)
  <2>1. held # 0 /\ held \in Int /\ n \in Int
    <3>1. q * a \in Int /\ s * p \in Int
      BY <1>1, <1>2
    <3>2. q = 0 \/ Sgn(q) = Sgn(s)
      BY <1>5 DEF Adds
    <3> HIDE DEF s
    <3>3. held # 0
      BY <1>1, <1>2, <3>2 DEF Sgn
    <3>4. QED BY <1>1, <1>2, <3>1, <3>3
  <2>2. avg \in Int /\ 2 * Magnitude(n - held * avg) <= Magnitude(held)
    BY <2>1, RoundedIsNear
  <2>3. c = [Charged(b, f) EXCEPT !.quantity = held, !.average = avg]
    BY <1>4, <1>5 DEF ApplyFill, Enlarged
  <2> HIDE DEF avg
  <2>4. /\ c \in BooksRecord /\ c.cash = b.cash - s * p - k /\ c.quantity = held
        /\ c.average = avg /\ c.realised = b.realised
    BY <1>4, <2>1, <2>2, <2>3 DEF BooksRecord
  <2>5. AtCost(c) + k - AtCost(b) = -(n - held * avg)
    <3> DEFINE sp == s * p
               qa == q * a
               ha == held * avg
    <3>1. sp \in Int /\ qa \in Int /\ ha \in Int
      BY <1>1, <1>2, <2>1, <2>2
    <3>2. AtCost(c) = (b.cash - sp - k) + ha - b.realised
      BY <2>4 DEF AtCost
    <3>3. AtCost(b) = b.cash + qa - b.realised
      BY DEF AtCost
    <3> HIDE DEF sp, qa, ha
    <3>4. AtCost(c) + k - AtCost(b) = -((qa + sp) - ha)
      BY <1>1, <3>1, <3>2, <3>3
    <3>5. QED BY <3>4 DEF sp, qa, ha
  <2>6. Magnitude(-(n - held * avg)) = Magnitude(n - held * avg)
    <3> DEFINE y == n - held * avg
    <3>1. y \in Int
      BY <2>1, <2>2
    <3> HIDE DEF y
    <3>2. Magnitude(-y) = Magnitude(y)
      BY <3>1 DEF Magnitude
    <3>3. QED BY <3>2 DEF y
  <2>7. QED BY <1>5, <2>2, <2>4, <2>5, <2>6
<1>6. CASE ~Adds(b, f)
  <2> DEFINE held == q + s
             avg == AverageLeft(b, f)
             pnl == ClosedPnl(b, f)
  <2>1. c = [Charged(b, f) EXCEPT !.quantity = q + s,
                                  !.average = AverageLeft(Charged(b, f), f),
                                  !.realised = b.realised + ClosedPnl(Charged(b, f), f)]
    BY <1>4, <1>6 DEF ApplyFill, Reduced
  <2>2. /\ AverageLeft(Charged(b, f), f) = avg /\ ClosedPnl(Charged(b, f), f) = pnl
    BY <1>4 DEF AverageLeft, ClosedPnl
  <2>3. /\ q # 0 /\ Sgn(q) # Sgn(s) /\ held \in Int
    BY <1>1, <1>2, <1>6 DEF Adds
  <2>4. avg \in Int /\ pnl \in Int /\ pnl + k - (Sgn(q) * (p - a)) * Lesser(f.quantity, Magnitude(q)) = 0
    <3>1. Sgn(q) \in Int /\ Lesser(f.quantity, Magnitude(q)) \in Int
      BY <1>1 DEF Sgn, Lesser, Magnitude
    <3>2. avg \in Int
      BY <1>1 DEF AverageLeft
    <3> DEFINE t == (Sgn(q) * (p - a)) * Lesser(f.quantity, Magnitude(q))
    <3>3. t \in Int
      BY <1>1, <3>1
    <3>4. pnl = t - k
      BY DEF ClosedPnl
    <3> HIDE DEF t, pnl, avg
    <3>5. pnl \in Int /\ pnl + k - t = 0
      BY <1>1, <3>3, <3>4
    <3>6. QED BY <3>2, <3>5 DEF t
  <2> HIDE DEF avg, pnl
  <2>5. /\ c \in BooksRecord /\ c.cash = b.cash - s * p - k /\ c.quantity = held
        /\ c.average = avg /\ c.realised = b.realised + pnl
    <3>1. c = [Charged(b, f) EXCEPT !.quantity = held, !.average = avg, !.realised = b.realised + pnl]
      BY <2>1, <2>2
    <3>2. b.realised + pnl \in Int
      BY <1>1, <2>4
    <3> HIDE DEF c, held
    <3>3. QED BY <1>4, <2>3, <2>4, <3>1, <3>2 DEF BooksRecord
  <2>6. held * avg - s * p - q * a = pnl + k
    <3>1. CASE Magnitude(s) <= Magnitude(q)
      <4>1. Lesser(f.quantity, Magnitude(q)) = Magnitude(s) /\ Sgn(q) * Magnitude(s) = -s
        BY <1>1, <1>2, <2>3, <3>1 DEF Lesser, Magnitude, Sgn
      <4>2. held * avg = held * a
        <5>1. CASE held = 0
          BY <1>1, <2>4, <5>1
        <5>2. CASE held # 0
          <6>1. Sgn(held) = Sgn(q)
            BY <1>1, <1>2, <2>3, <3>1, <5>2 DEF Magnitude, Sgn
          <6>2. avg = a
            BY <5>2, <6>1 DEF AverageLeft, avg
          <6>3. QED BY <6>2
        <5>3. QED BY <5>1, <5>2
      <4>3. (Sgn(q) * (p - a)) * Magnitude(s) = (p - a) * (-s)
        <5>1. Sgn(q) \in Int /\ Magnitude(s) \in Int
          BY <1>1, <1>2 DEF Sgn, Magnitude
        <5>2. (Sgn(q) * (p - a)) * Magnitude(s) = (p - a) * (Sgn(q) * Magnitude(s))
          BY <1>1, <5>1
        <5>3. QED BY <4>1, <5>2
      <4>4. pnl + k = (p - a) * (-s)
        <5> DEFINE t == (Sgn(q) * (p - a)) * Lesser(f.quantity, Magnitude(q))
                   u == (p - a) * (-s)
        <5>1. t = u /\ u \in Int
          BY <1>1, <1>2, <4>1, <4>3
        <5>2. pnl + k - t = 0
          BY <2>4
        <5> HIDE DEF t, u
        <5>3. pnl + k = u
          BY <1>1, <2>4, <5>1, <5>2
        <5>4. QED BY <5>3 DEF u
      <4>5. (p - a) * (-s) = s * a - s * p
        <5> HIDE DEF p, a, s, q
        <5> QED BY <1>1, <1>2
      <4>6. held * a = q * a + s * a
        <5> HIDE DEF p, a, s, q
        <5> QED BY <1>1, <1>2
      <4> DEFINE sa == s * a
                 sp == s * p
                 qa == q * a
                 ha == held * avg
      <4>7. sa \in Int /\ sp \in Int /\ qa \in Int
        BY <1>1, <1>2
      <4>8. ha = qa + sa /\ pnl + k = sa - sp
        BY <4>2, <4>4, <4>5, <4>6
      <4> HIDE DEF sa, sp, qa, ha
      <4>9. ha - sp - qa = pnl + k
        BY <1>1, <2>4, <4>7, <4>8
      <4>10. QED BY <4>9 DEF ha, sp, qa
    <3>2. CASE Magnitude(s) > Magnitude(q)
      <4>1. /\ Lesser(f.quantity, Magnitude(q)) = Magnitude(q) /\ Sgn(q) * Magnitude(q) = q
            /\ held # 0 /\ Sgn(held) # Sgn(q)
        BY <1>1, <1>2, <2>3, <3>2 DEF Lesser, Magnitude, Sgn
      <4>2. avg = p
        BY <4>1 DEF AverageLeft, avg
      <4>3. (Sgn(q) * (p - a)) * Magnitude(q) = (p - a) * q
        <5>1. Sgn(q) \in Int /\ Magnitude(q) \in Int
          BY <1>1 DEF Sgn, Magnitude
        <5>2. (Sgn(q) * (p - a)) * Magnitude(q) = (p - a) * (Sgn(q) * Magnitude(q))
          BY <1>1, <5>1
        <5>3. QED BY <4>1, <5>2
      <4>4. pnl + k = (p - a) * q
        <5> DEFINE t == (Sgn(q) * (p - a)) * Lesser(f.quantity, Magnitude(q))
                   u == (p - a) * q
        <5>1. t = u /\ u \in Int
          BY <1>1, <4>1, <4>3
        <5>2. pnl + k - t = 0
          BY <2>4
        <5> HIDE DEF t, u
        <5>3. pnl + k = u
          BY <1>1, <2>4, <5>1, <5>2
        <5>4. QED BY <5>3 DEF u
      <4>5. (p - a) * q = q * p - q * a
        BY <1>1
      <4>6. held * p = q * p + s * p
        BY <1>1, <1>2
      <4> DEFINE qp == q * p
                 sp == s * p
                 qa == q * a
                 ha == held * avg
      <4>7. qp \in Int /\ sp \in Int /\ qa \in Int
        BY <1>1, <1>2
      <4>8. ha = qp + sp /\ pnl + k = qp - qa
        BY <4>2, <4>4, <4>5, <4>6
      <4> HIDE DEF qp, sp, qa, ha
      <4>9. ha - sp - qa = pnl + k
        BY <1>1, <2>4, <4>7, <4>8
      <4>10. QED BY <4>9 DEF ha, sp, qa
    <3>3. QED
      <4>1. Magnitude(s) \in Int /\ Magnitude(q) \in Int
        BY <1>1, <1>2 DEF Magnitude
      <4>2. QED BY <3>1, <3>2, <4>1
  <2>7. AtCost(c) = AtCost(b)
    <3> DEFINE sp == s * p
               qa == q * a
               ha == held * avg
    <3>1. sp \in Int /\ qa \in Int /\ ha \in Int
      BY <1>1, <1>2, <2>3, <2>4
    <3>2. AtCost(c) = (b.cash - sp - k) + ha - (b.realised + pnl)
      BY <2>5 DEF AtCost
    <3>3. AtCost(b) = b.cash + qa - b.realised
      BY DEF AtCost
    <3>4. ha - sp - qa = pnl + k
      BY <2>6
    <3> HIDE DEF sp, qa, ha
    <3>5. QED BY <1>1, <2>4, <3>1, <3>2, <3>3, <3>4
  <2>8. QED BY <1>6, <2>5, <2>7
<1>7. QED BY <1>5, <1>6

(* One order under one price.  Sound says of every order, every fill and   *)
(* the two sets of books what BooksBalance and LimitsKept say, with the    *)
(* account at its cost price: the last price then no longer matters.       *)

OrderStatus == {"OPEN", "RESTING", "FILLED", "PARTIALLY_FILLED", "CANCELLED"}
OrderOf(K, S) == [key : K, shape : S, status : OrderStatus, filled : Nat, average : Int]
World(K, S) == [orders : Seq(OrderOf(K, S)), fills : Seq(FillRecord), cash : Int,
                books : BooksRecord, opened : [costs : Int, slack : Int]]

\* An order was filled by its fills, no more than it asked for.
SoundOrder(w, i) ==
  LET o == w.orders[i]
  IN  /\ o.filled = Total(Shares(w.fills, i))
      /\ o.filled <= o.shape.quantity
      /\ (o.status = "FILLED") = (o.filled = o.shape.quantity)
\* A fill is of an order, within its limit.
SoundFill(w, j) ==
  LET f == w.fills[j]
      s == w.orders[f.order].shape
  IN  /\ f.order \in DOMAIN w.orders
      /\ s.type \in {"LIMIT", "STOP_LIMIT"} => WithinLimit(s, f.price)
SoundBooks(w) ==
  /\ w.cash = w.books.cash /\ w.books.quantity = Total(Moves(w.fills))
  /\ 2 * Magnitude(AtCost(w.books) + w.opened.costs - OpeningCash) <= w.opened.slack
Sound(w) == /\ \A i \in DOMAIN w.orders : SoundOrder(w, i)
            /\ \A j \in DOMAIN w.fills : SoundFill(w, j)
            /\ SoundBooks(w)

LEMMA AppendsOne ==
  ASSUME NEW D, NEW v \in Seq(D), NEW x \in D
  PROVE  Append(v, x) = [j \in 1 .. Len(v) + 1 |-> IF j = Len(v) + 1 THEN x ELSE v[j]]
<1> DEFINE u == Append(v, x)
           n == Len(v)
<1>1. n \in Nat /\ u \in Seq(D) /\ Len(u) = n + 1 /\ u[n + 1] = x /\ \A j \in 1 .. n : u[j] = v[j]
  OBVIOUS
<1>2. u = [j \in 1 .. n + 1 |-> u[j]]
  <2> HIDE DEF u, n
  <2> QED BY <1>1
<1>3. ASSUME NEW j \in 1 .. n + 1 PROVE u[j] = IF j = n + 1 THEN x ELSE v[j]
  <2>1. j = n + 1 \/ (j # n + 1 /\ j \in 1 .. n)
    BY <1>1
  <2> HIDE DEF u, n
  <2>2. QED BY <1>1, <2>1
<1> HIDE DEF u, n
<1>4. u = [j \in 1 .. n + 1 |-> IF j = n + 1 THEN x ELSE v[j]]
  BY <1>2, <1>3
<1>5. QED BY <1>4 DEF u, n

LEMMA OneFillMore ==
  ASSUME NEW fills \in Seq(FillRecord), NEW f \in FillRecord, NEW i \in Nat
  PROVE  /\ Moves(fills) \in Seq(Int) /\ Shares(fills, i) \in Seq(Int)
         /\ Len(Moves(fills)) = Len(fills) /\ Len(Shares(fills, i)) = Len(fills)
         /\ Signed(f) \in Int /\ Signed(f) # 0
         /\ Moves(Append(fills, f)) = Append(Moves(fills), Signed(f))
         /\ Shares(Append(fills, f), i) =
              Append(Shares(fills, i), IF f.order = i THEN f.quantity ELSE 0)
<1> DEFINE n == Len(fills)
           g == Append(fills, f)
<1>1. \A x \in FillRecord : Signed(x) \in Int /\ Signed(x) # 0 /\ x.quantity \in Int
  BY DEF Signed, FillRecord
<1>2. n \in Nat /\ DOMAIN fills = 1 .. n /\ DOMAIN g = 1 .. n + 1 /\ \A j \in 1 .. n : fills[j] \in FillRecord
  OBVIOUS
<1>3. g[n + 1] = f /\ \A j \in 1 .. n : g[j] = fills[j]
  OBVIOUS
<1> DEFINE m == Moves(fills)
           s == Shares(fills, i)
           e == IF f.order = i THEN f.quantity ELSE 0
<1>4. m = [j \in 1 .. n |-> Signed(fills[j])]
  BY <1>2 DEF Moves
<1>5. s = [j \in 1 .. n |-> IF fills[j].order = i THEN fills[j].quantity ELSE 0]
  BY <1>2 DEF Shares
<1>6. m \in Seq(Int) /\ Len(m) = n
  <2>1. \A j \in 1 .. n : Signed(fills[j]) \in Int
    BY <1>1, <1>2
  <2> HIDE DEF n, m
  <2>2. m \in [1 .. n -> Int]
    BY <1>4, <2>1
  <2>3. QED BY <1>2, <2>2
<1>7. s \in Seq(Int) /\ Len(s) = n
  <2>1. \A j \in 1 .. n : fills[j].quantity \in Int
    BY <1>1, <1>2
  <2> HIDE DEF n, s
  <2>2. s \in [1 .. n -> Int]
    BY <1>5, <2>1
  <2>3. QED BY <1>2, <2>2
<1>8. Signed(f) \in Int /\ Signed(f) # 0 /\ e \in Int
  BY <1>1
<1>9. Moves(g) = Append(m, Signed(f))
  <2>1. Moves(g) = [j \in 1 .. n + 1 |-> Signed(g[j])]
    BY <1>2 DEF Moves
  <2>2. Append(m, Signed(f)) = [j \in 1 .. n + 1 |-> IF j = n + 1 THEN Signed(f) ELSE m[j]]
    <3> HIDE DEF m, n
    <3> QED BY <1>6, <1>8, AppendsOne
  <2>3. \A j \in 1 .. n + 1 : Signed(g[j]) = IF j = n + 1 THEN Signed(f) ELSE m[j]
    <3> HIDE DEF g, n, m
    <3>1. \A j \in 1 .. n + 1 : j = n + 1 \/ j \in 1 .. n
      BY <1>2
    <3>2. ~(n + 1 \in 1 .. n)
      BY <1>2
    <3>3. QED BY <1>3, <1>4, <3>1, <3>2
  <2> HIDE DEF g, m, n
  <2>4. QED BY <2>1, <2>2, <2>3
<1>10. Shares(g, i) = Append(s, e)
  <2>1. Shares(g, i) = [j \in 1 .. n + 1 |-> IF g[j].order = i THEN g[j].quantity ELSE 0]
    BY <1>2 DEF Shares
  <2>2. Append(s, e) = [j \in 1 .. n + 1 |-> IF j = n + 1 THEN e ELSE s[j]]
    <3> HIDE DEF s, n, e
    <3> QED BY <1>7, <1>8, AppendsOne
  <2>3. \A j \in 1 .. n + 1 : (IF g[j].order = i THEN g[j].quantity ELSE 0) = IF j = n + 1 THEN e ELSE s[j]
    <3> HIDE DEF g, n, s
    <3>1. \A j \in 1 .. n + 1 : j = n + 1 \/ j \in 1 .. n
      BY <1>2
    <3>2. ~(n + 1 \in 1 .. n)
      BY <1>2
    <3>3. QED BY <1>3, <1>5, <3>1, <3>2
  <2> HIDE DEF g, s, n, e
  <2>4. QED BY <2>1, <2>2, <2>3
<1>11. QED BY <1>6, <1>7, <1>8, <1>9, <1>10

\* The price an order is filled at is not worse than its limit, nor than the
\* price that filled it.
LEMMA PriceIsKept ==
  ASSUME NEW s, ShapeOK(s), NEW price \in Nat
  PROVE  /\ FillPrice(s, price) \in Int
         /\ Slipped(price, s.side) \in Int
         /\ s.side = "SELL" => Slipped(price, s.side) <= price
         /\ s.side = "BUY" => Slipped(price, s.side) >= price
         /\ s.type \in {"LIMIT", "STOP_LIMIT"} /\ Fillable(s, price)
              => WithinLimit(s, FillPrice(s, price))
<1>1. s.side \in {"BUY", "SELL"} /\ s.type \in {"MARKET", "LIMIT", "STOP", "STOP_LIMIT"}
      /\ (s.type \in {"LIMIT", "STOP_LIMIT"} => s.limit \in Int)
  BY DEF ShapeOK
<1> DEFINE d == MulRate(price, Slippage)
<1>2. d \in Int /\ d >= 0
  <2>1. Slippage \in Nat
    BY PaperAssumption
  <2>2. QED BY <2>1, RatesAreWhole
<1> HIDE DEF d
<1>3. /\ TickCeil(price + d) \in Int /\ price + d <= TickCeil(price + d)
      /\ TickFloor(price - d) \in Int /\ TickFloor(price - d) <= price - d
      /\ TickCeil(price) \in Int /\ price <= TickCeil(price)
      /\ TickFloor(price) \in Int /\ TickFloor(price) <= price
  <2>1. price + d \in Int /\ price - d \in Int
    BY <1>2
  <2>2. QED BY <2>1, TicksBracket
<1>4. /\ Slipped(price, s.side) \in Int
      /\ s.side = "SELL" => Slipped(price, s.side) <= price
      /\ s.side = "BUY" => Slipped(price, s.side) >= price
  <2>1. CASE s.side = "BUY"
    <3>1. Slipped(price, s.side) = TickCeil(price + d)
      BY <2>1 DEF Slipped, d
    <3>2. TickCeil(price + d) >= price
      BY <1>2, <1>3
    <3>3. QED BY <1>3, <2>1, <3>1, <3>2
  <2>2. CASE s.side = "SELL"
    <3>1. Slipped(price, s.side) = TickFloor(price - d)
      BY <2>2 DEF Slipped, d
    <3>2. TickFloor(price - d) <= price
      BY <1>2, <1>3
    <3>3. QED BY <1>3, <2>2, <3>1, <3>2
  <2>3. QED BY <1>1, <2>1, <2>2
<1>5. FillPrice(s, price) \in Int
  BY <1>1, <1>3, <1>4 DEF FillPrice, Snapped
<1>6. ASSUME s.type \in {"LIMIT", "STOP_LIMIT"}, Fillable(s, price)
      PROVE  WithinLimit(s, FillPrice(s, price))
  <2>1. s.limit \in Int /\ FillPrice(s, price) = Snapped(price, s.side)
    BY <1>1, <1>6 DEF FillPrice
  <2>2. WithinLimit(s, price)
    <3>1. CASE s.type = "LIMIT"
      <4>1. ThroughLimit(s, price)
        BY <1>6, <3>1 DEF Fillable
      <4>2. QED BY <1>1, <2>1, <4>1 DEF ThroughLimit, WithinLimit
    <3>2. CASE s.type = "STOP_LIMIT"
      BY <1>6, <3>2 DEF Fillable
    <3>3. QED BY <1>6, <3>1, <3>2
  <2>3. CASE s.side = "BUY"
    <3>1. FillPrice(s, price) = TickFloor(price) /\ price <= s.limit
      BY <2>1, <2>2, <2>3 DEF Snapped, WithinLimit
    <3>2. QED BY <1>3, <2>1, <2>3, <3>1 DEF WithinLimit
  <2>4. CASE s.side = "SELL"
    <3>1. FillPrice(s, price) = TickCeil(price) /\ price >= s.limit
      BY <2>1, <2>2, <2>4 DEF Snapped, WithinLimit
    <3>2. QED BY <1>3, <2>1, <2>4, <3>1 DEF WithinLimit
  <2>5. QED BY <1>1, <2>3, <2>4
<1>7. QED BY <1>4, <1>5, <1>6

Volume(v) == v = NoVolume \/ v \in Nat
LEMMA WorkIsSound ==
  ASSUME NEW K, NEW S, \A s \in S : ShapeOK(s), NEW w \in World(K, S), Sound(w),
         NEW i \in DOMAIN w.orders, NEW price \in Nat, NEW volume, Volume(volume), NEW clock \in Nat
  PROVE  LET x == Worked(w, i, price, volume, clock)
         IN  /\ x \in World(K, S) /\ Sound(x) /\ Len(x.orders) = Len(w.orders)
             /\ \A k \in DOMAIN w.orders : x.orders[k].shape = w.orders[k].shape
                                           /\ x.orders[k].key = w.orders[k].key
<1> DEFINE o == w.orders[i]
           quantity == Lesser(Remaining(o), Capacity(o, volume))
           p == FillPrice(o.shape, price)
           f == FillOf(i, o, quantity, p, clock)
           x == Worked(w, i, price, volume, clock)
<1>1. /\ w.orders \in Seq(OrderOf(K, S)) /\ w.fills \in Seq(FillRecord) /\ w.cash \in Int
      /\ w.books \in BooksRecord /\ w.opened \in [costs : Int, slack : Int]
      /\ i \in Nat \ {0} /\ DOMAIN w.orders = 1 .. Len(w.orders) /\ Len(w.orders) \in Nat
  BY DEF World
<1>2. /\ o \in OrderOf(K, S) /\ o.key \in K /\ o.shape \in S /\ ShapeOK(o.shape) /\ o.filled \in Nat
      /\ o.average \in Int /\ o.status \in OrderStatus
      /\ o.shape.quantity \in Int /\ o.shape.side \in {"BUY", "SELL"}
  <2>1. o \in OrderOf(K, S)
    BY <1>1
  <2>2. /\ o.key \in K /\ o.shape \in S /\ o.filled \in Nat /\ o.average \in Int
        /\ o.status \in OrderStatus
    BY <2>1 DEF OrderOf
  <2>3. ShapeOK(o.shape)
    BY <2>2
  <2>4. QED BY <2>1, <2>2, <2>3 DEF ShapeOK
<1>3. SoundOrder(w, i) /\ o.filled <= o.shape.quantity
  BY DEF Sound, SoundOrder
<1>4. CASE ~IsResting(o) \/ ~Fillable(o.shape, price)
  <2>1. x = w
    BY <1>4 DEF Worked
  <2> HIDE DEF x
  <2>2. x \in World(K, S) /\ Sound(x)
    BY <2>1
  <2>3. QED BY <2>1, <2>2 DEF x
<1>5. CASE IsResting(o) /\ Fillable(o.shape, price) /\ quantity <= 0
  <2>1. x = [w EXCEPT !.orders[i] = Missed(o)]
    BY <1>5 DEF Worked
  <2>2. /\ Missed(o) \in OrderOf(K, S) /\ Missed(o).shape = o.shape /\ Missed(o).filled = o.filled
        /\ Missed(o).status # "FILLED" /\ Missed(o).key = o.key
    BY <1>2, <1>5 DEF Missed, OrderOf, OrderStatus, IsResting
  <2> HIDE DEF x
  <2>3. /\ x \in World(K, S) /\ x.fills = w.fills /\ x.cash = w.cash /\ x.books = w.books
        /\ x.opened = w.opened /\ x.orders = [w.orders EXCEPT ![i] = Missed(o)]
        /\ DOMAIN x.orders = DOMAIN w.orders /\ Len(x.orders) = Len(w.orders)
    <3>1. /\ x.fills = w.fills /\ x.cash = w.cash /\ x.books = w.books /\ x.opened = w.opened
          /\ x.orders = [w.orders EXCEPT ![i] = Missed(o)]
          /\ x = [orders |-> x.orders, fills |-> x.fills, cash |-> x.cash, books |-> x.books,
                  opened |-> x.opened]
      BY <2>1 DEF World
    <3> DEFINE os == [w.orders EXCEPT ![i] = Missed(o)]
    <3>2. os \in Seq(OrderOf(K, S)) /\ DOMAIN os = DOMAIN w.orders /\ Len(os) = Len(w.orders)
      BY <1>1, <2>2
    <3> HIDE DEF os
    <3>3. QED BY <1>1, <3>1, <3>2 DEF World, os
  <2>4. \A k \in DOMAIN w.orders : /\ x.orders[k].shape = w.orders[k].shape /\ x.orders[k].key = w.orders[k].key
                                   /\ x.orders[k].filled = w.orders[k].filled
                                   /\ (x.orders[k].status = "FILLED") = (w.orders[k].status = "FILLED")
    BY <1>1, <1>5, <2>2, <2>3 DEF IsResting
  <2>5. Sound(x)
    BY <2>3, <2>4 DEF Sound, SoundOrder, SoundFill, SoundBooks
  <2>6. QED BY <2>3, <2>4, <2>5 DEF x
<1>6. CASE IsResting(o) /\ Fillable(o.shape, price) /\ ~(quantity <= 0)
  <2>1. quantity \in Nat \ {0} /\ quantity <= Remaining(o) /\ Remaining(o) \in Int
    <3>1. Remaining(o) \in Int
      BY <1>2 DEF Remaining
    <3>2. Capacity(o, volume) \in Int
      <4>1. CASE volume = NoVolume
        BY <3>1, <4>1 DEF Capacity
      <4>2. CASE volume # NoVolume
        <5>1. volume \in Nat /\ Participation \in Nat \ {0}
          BY <4>2, PaperAssumption DEF Volume
        <5>2. volume \div Participation \in Int
          BY <5>1
        <5>3. QED BY <4>2, <5>2 DEF Capacity
      <4>3. QED BY <4>1, <4>2
    <3>3. QED BY <1>6, <3>1, <3>2 DEF Lesser
  <2>2. p \in Int /\ (o.shape.type \in {"LIMIT", "STOP_LIMIT"} => WithinLimit(o.shape, p))
    BY <1>2, <1>6, PriceIsKept
  <2> HIDE DEF quantity, p
  <2>3. /\ f \in FillRecord /\ f.order = i /\ f.quantity = quantity /\ f.price = p
        /\ f.side = o.shape.side
    <3>1. quantity * p \in Int
      BY <2>1, <2>2
    <3>2. ComputeCosts(quantity * p, o.shape.side, o.shape.product, Schedule) \in Int
      BY <3>1, CostsAreWhole
    <3>3. QED BY <1>1, <1>2, <2>1, <2>2, <3>2 DEF FillOf, FillRecord
  <2> DEFINE total == o.filled + f.quantity
             b == ApplyFill(w.books, f)
             op == IF ~Adds(w.books, f) THEN w.opened
                   ELSE [costs |-> w.opened.costs + f.commission,
                         slack |-> w.opened.slack + Magnitude(w.books.quantity + Signed(f))]
  <2>4. x = [orders |-> [w.orders EXCEPT ![i] = Filled(o, f)],
             fills  |-> Append(w.fills, f),
             cash   |-> w.cash - Signed(f) * f.price - f.commission,
             books  |-> b, opened |-> op]
    BY <1>6 DEF Worked, quantity, p
  <2> HIDE DEF f, x
  <2>5. total \in Nat \ {0} /\ total <= o.shape.quantity
    BY <1>2, <2>1, <2>3 DEF Remaining
  <2>6. /\ Filled(o, f) \in OrderOf(K, S) /\ Filled(o, f).shape = o.shape /\ Filled(o, f).key = o.key
        /\ Filled(o, f).filled = total
        /\ (Filled(o, f).status = "FILLED") = (total = o.shape.quantity)
    <3>1. RoundedQuotient(o.average * o.filled + f.quantity * f.price, total) \in Int
      <4>1. o.average * o.filled + f.quantity * f.price \in Int
        BY <1>2, <2>1, <2>2, <2>3
      <4>2. total \in Int /\ total # 0
        BY <2>5
      <4> HIDE DEF total
      <4>3. QED BY <4>1, <4>2, RoundedIsNear
    <3> DEFINE q == RoundedQuotient(o.average * o.filled + f.quantity * f.price, total)
               t == IF total >= o.shape.quantity THEN "FILLED"
                    ELSE IF o.shape.tif = "IOC" THEN "PARTIALLY_FILLED" ELSE "RESTING"
    <3>2. Filled(o, f) = [o EXCEPT !.filled = total, !.average = q, !.status = t]
      BY DEF Filled
    <3>3. t \in OrderStatus /\ (t = "FILLED") = (total = o.shape.quantity)
      BY <1>2, <2>5 DEF OrderStatus
    <3> HIDE DEF q, t, total
    <3>4. QED BY <1>2, <2>5, <3>1, <3>2, <3>3 DEF OrderOf, q
  <2> HIDE DEF total
  <2>7. /\ b \in BooksRecord /\ b.cash = w.books.cash - Signed(f) * f.price - f.commission
        /\ b.quantity = w.books.quantity + Signed(f)
        /\ Adds(w.books, f) => 2 * Magnitude(AtCost(b) + f.commission - AtCost(w.books))
                                 <= Magnitude(b.quantity)
        /\ ~Adds(w.books, f) => AtCost(b) = AtCost(w.books)
    BY <1>1, <2>3, FillIsBooked
  <2>8. Signed(f) \in Int /\ f.price \in Int /\ f.commission \in Int /\ w.books.quantity \in Int
    BY <1>1, <2>3 DEF Signed, FillRecord, BooksRecord
  <2>9. op \in [costs : Int, slack : Int]
    <3>1. w.opened.costs \in Int /\ w.opened.slack \in Int
      BY <1>1
    <3>2. Magnitude(w.books.quantity + Signed(f)) \in Int
      BY <2>8 DEF Magnitude
    <3>3. CASE Adds(w.books, f)
      <4>1. w.opened.costs + f.commission \in Int
            /\ w.opened.slack + Magnitude(w.books.quantity + Signed(f)) \in Int
        BY <2>8, <3>1, <3>2
      <4>2. QED BY <3>3, <4>1
    <3>4. CASE ~Adds(w.books, f)
      BY <1>1, <3>4
    <3>5. QED BY <3>3, <3>4
  <2> HIDE DEF b, op
  <2>10. w.cash - Signed(f) * f.price - f.commission \in Int
    BY <1>1, <2>8, SMTT(30)
  <2>11. /\ x \in World(K, S) /\ x.fills = Append(w.fills, f) /\ x.books = b /\ x.opened = op
         /\ x.cash = w.cash - Signed(f) * f.price - f.commission
         /\ x.orders = [w.orders EXCEPT ![i] = Filled(o, f)]
         /\ DOMAIN x.orders = DOMAIN w.orders /\ Len(x.orders) = Len(w.orders)
    BY <1>1, <2>3, <2>4, <2>6, <2>7, <2>9, <2>10 DEF World
  <2>12. x.orders[i] = Filled(o, f) /\ \A k \in DOMAIN w.orders : k # i => x.orders[k] = w.orders[k]
    BY <1>1, <2>11
  <2>13. \A k \in DOMAIN w.orders : x.orders[k].shape = w.orders[k].shape /\ x.orders[k].key = w.orders[k].key
    BY <2>6, <2>12
  <2>14. ASSUME NEW k \in DOMAIN w.orders PROVE SoundOrder(x, k)
    <3>1. SoundOrder(w, k) /\ k \in Nat
      BY <1>1 DEF Sound
    <3>2. /\ Shares(w.fills, k) \in Seq(Int)
          /\ Shares(x.fills, k) = Append(Shares(w.fills, k), IF i = k THEN f.quantity ELSE 0)
      <4>1. w.fills \in Seq(FillRecord) /\ f \in FillRecord /\ k \in Nat /\ f.order = i
        BY <1>1, <2>3, <3>1
      <4>2. /\ Shares(w.fills, k) \in Seq(Int)
            /\ Shares(Append(w.fills, f), k) =
                 Append(Shares(w.fills, k), IF f.order = k THEN f.quantity ELSE 0)
        BY <4>1, OneFillMore
      <4>3. QED BY <2>11, <4>1, <4>2
    <3>3. CASE k = i
      <4>1. Total(Shares(x.fills, k)) = Total(Shares(w.fills, k)) + f.quantity
        BY <2>1, <2>3, <3>2, <3>3, TotalAppends
      <4>2. o.filled = Total(Shares(w.fills, k))
        BY <3>1, <3>3 DEF SoundOrder
      <4>3. x.orders[k].filled = Total(Shares(x.fills, k))
        BY <2>6, <2>12, <3>3, <4>1, <4>2 DEF total
      <4>4. QED BY <2>5, <2>6, <2>12, <3>3, <4>3 DEF SoundOrder
    <3>4. CASE k # i
      <4>1. Total(Shares(x.fills, k)) = Total(Shares(w.fills, k)) + 0 /\ Total(Shares(w.fills, k)) \in Int
        BY <3>2, <3>4, TotalAppends
      <4>2. Total(Shares(x.fills, k)) = Total(Shares(w.fills, k))
        BY <4>1
      <4>3. QED BY <2>12, <3>1, <3>4, <4>2 DEF SoundOrder
    <3>5. QED BY <3>3, <3>4
  <2>15. ASSUME NEW j \in DOMAIN x.fills PROVE SoundFill(x, j)
    <3>1. (j \in DOMAIN w.fills /\ x.fills[j] = w.fills[j]) \/ x.fills[j] = f
      BY <1>1, <2>3, <2>11
    <3>2. CASE x.fills[j] = f
      BY <2>2, <2>3, <2>11, <2>13, <3>2 DEF SoundFill
    <3>3. CASE j \in DOMAIN w.fills /\ x.fills[j] = w.fills[j]
      <4>1. SoundFill(w, j)
        BY <3>3 DEF Sound
      <4>2. QED BY <2>11, <2>13, <3>3, <4>1 DEF SoundFill
    <3>4. QED BY <3>1, <3>2, <3>3
  <2>16. SoundBooks(x)
    <3>1. w.cash = w.books.cash /\ w.books.quantity = Total(Moves(w.fills))
          /\ 2 * Magnitude(AtCost(w.books) + w.opened.costs - OpeningCash) <= w.opened.slack
      BY DEF Sound, SoundBooks
    <3>2. x.cash = x.books.cash
      BY <2>7, <2>11, <3>1
    <3>3. x.books.quantity = Total(Moves(x.fills))
      <4>1. Moves(x.fills) = Append(Moves(w.fills), Signed(f)) /\ Moves(w.fills) \in Seq(Int)
        <5>1. w.fills \in Seq(FillRecord) /\ f \in FillRecord /\ 0 \in Nat
          BY <1>1, <2>3
        <5>2. /\ Moves(w.fills) \in Seq(Int)
              /\ Moves(Append(w.fills, f)) = Append(Moves(w.fills), Signed(f))
          BY <5>1, OneFillMore
        <5>3. QED BY <2>11, <5>2
      <4>2. QED BY <2>7, <2>8, <2>11, <3>1, <4>1, TotalAppends
    <3>4. 2 * Magnitude(AtCost(b) + op.costs - OpeningCash) <= op.slack
      <4> DEFINE old == AtCost(w.books)
                 new == AtCost(b)
      <4>1. old \in Int /\ new \in Int /\ OpeningCash \in Int
        <5>1. \A y \in BooksRecord : AtCost(y) \in Int
          <6> SUFFICES ASSUME NEW y \in BooksRecord PROVE AtCost(y) \in Int
            OBVIOUS
          <6>1. y.cash \in Int /\ y.quantity \in Int /\ y.average \in Int /\ y.realised \in Int
            BY DEF BooksRecord
          <6>2. y.quantity * y.average \in Int
            BY <6>1
          <6>3. QED BY <6>1, <6>2 DEF AtCost
        <5>2. QED BY <1>1, <2>7, <5>1, PaperAssumption
      <4>2. w.opened.costs \in Int /\ w.opened.slack \in Int /\ b.quantity \in Int
        <5>1. w.opened.costs \in Int /\ w.opened.slack \in Int
          <6>1. w.opened \in [costs : Int, slack : Int]
            BY <1>1
          <6>2. QED BY <6>1
        <5>2. b.quantity \in Int
          <6>1. b \in BooksRecord
            BY <2>7
          <6>2. QED BY <6>1 DEF BooksRecord
        <5>3. QED BY <5>1, <5>2
      <4> HIDE DEF old, new
      <4>3. CASE Adds(w.books, f)
        <5>1. op.costs = w.opened.costs + f.commission /\ op.slack = w.opened.slack + Magnitude(b.quantity)
          BY <2>7, <4>3 DEF op
        <5>2. 2 * Magnitude(new + f.commission - old) <= Magnitude(b.quantity)
          BY <2>7, <4>3 DEF old, new
        <5>3. 2 * Magnitude(old + w.opened.costs - OpeningCash) <= w.opened.slack
          BY <3>1 DEF old
        <5> DEFINE y == new + f.commission - old
                   z == old + w.opened.costs - OpeningCash
        <5>4. new + op.costs - OpeningCash = y + z
          BY <2>8, <4>1, <4>2, <5>1
        <5>5. y \in Int /\ z \in Int
          BY <2>8, <4>1, <4>2
        <5> HIDE DEF y, z
        <5>6. Magnitude(y + z) <= Magnitude(y) + Magnitude(z) /\ Magnitude(y) \in Int
              /\ Magnitude(z) \in Int /\ Magnitude(y + z) \in Int /\ Magnitude(b.quantity) \in Int
          BY <4>2, <5>5 DEF Magnitude
        <5>7. 2 * Magnitude(y) <= Magnitude(b.quantity) /\ 2 * Magnitude(z) <= w.opened.slack
          BY <5>2, <5>3 DEF y, z
        <5>8. 2 * Magnitude(y + z) <= w.opened.slack + Magnitude(b.quantity)
          BY <4>2, <5>6, <5>7
        <5>9. QED BY <5>1, <5>4, <5>8 DEF new
      <4>4. CASE ~Adds(w.books, f)
        BY <2>7, <3>1, <4>4 DEF op
      <4>5. QED BY <4>3, <4>4
    <3>5. QED BY <2>11, <3>2, <3>3, <3>4 DEF SoundBooks
  <2>17. Sound(x)
    BY <2>11, <2>14, <2>15, <2>16 DEF Sound
  <2>18. QED BY <2>11, <2>13, <2>17 DEF x
<1>7. QED BY <1>4, <1>5, <1>6

\* The price works the orders one by one, and what it leaves is AfterPrice.
StepByStep(w, price, volume, clock) ==
  \E after :
    /\ AfterPrice(w, price, volume, clock) = after[Len(w.orders)]
    /\ after[0] = w
    /\ \A n \in 1 .. Len(w.orders) : after[n] = Worked(after[n - 1], n, price, volume, clock)

\* It does, for the recursive function exists.
LEMMA AfterExists ==
  ASSUME NEW w, NEW price, NEW volume, NEW clock, Len(w.orders) \in Nat
  PROVE  StepByStep(w, price, volume, clock)
<1> DEFINE N == Len(w.orders)
           Step(v, n) == Worked(v, n, price, volume, clock)
           IsWork(g, m) == g = [n \in 0 .. m |-> IF n = 0 THEN w ELSE Step(g[n - 1], n)]
           S == {m \in 0 .. N : \E g : IsWork(g, m)}
<1>1. N \in Nat /\ S \in SUBSET (0 .. N)
  OBVIOUS
<1> HIDE DEF Step
<1>2. 0 \in S
  <2> DEFINE g == [n \in 0 .. 0 |-> w]
  <2>1. IsWork(g, 0)
    OBVIOUS
  <2> HIDE DEF g, IsWork
  <2>2. QED BY <1>1, <2>1
<1>3. ASSUME NEW m \in S, m < N PROVE m + 1 \in S
  <2>1. PICK g : IsWork(g, m)
    OBVIOUS
  <2>2. m \in Nat
    OBVIOUS
  <2> DEFINE h == [n \in 0 .. m + 1 |-> IF n = m + 1 THEN Step(g[m], m + 1) ELSE g[n]]
  <2>3. IsWork(h, m + 1)
    <3>1. ASSUME NEW n \in 0 .. m + 1
          PROVE  h[n] = IF n = 0 THEN w ELSE Step(h[n - 1], n)
      <4>1. CASE n = 0
        <5>1. 0 \in 0 .. m /\ g[0] = w /\ m + 1 # 0
          BY <2>1, <2>2
        <5>2. QED BY <4>1, <5>1
      <4>2. CASE n = m + 1
        <5>1. m \in 0 .. m + 1 /\ m # m + 1 /\ n - 1 = m /\ n # 0
          BY <2>2, <4>2
        <5>2. h[n - 1] = g[m] /\ h[n] = Step(g[m], n)
          BY <4>2, <5>1
        <5>3. QED BY <5>1, <5>2
      <4>3. CASE n # 0 /\ n # m + 1
        <5>1. n \in 0 .. m /\ n - 1 \in 0 .. m + 1 /\ n - 1 # m + 1
          BY <2>2, <4>3
        <5>2. h[n] = g[n] /\ h[n - 1] = g[n - 1]
          BY <4>3, <5>1
        <5>3. g[n] = Step(g[n - 1], n)
          BY <2>1, <4>3, <5>1
        <5>4. QED BY <4>3, <5>2, <5>3
      <4>4. QED BY <4>1, <4>2, <4>3
    <3>2. QED BY <3>1
  <2> HIDE DEF h, IsWork
  <2>4. m + 1 \in 0 .. N
    BY <1>1, <1>3, <2>2
  <2>5. QED BY <2>3, <2>4
<1>4. N \in S
  <2> HIDE DEF S, N
  <2> QED BY <1>1, <1>2, <1>3, UpwardsFromZero
<1>5. PICK g : IsWork(g, N)
  BY <1>4
<1> DEFINE after == CHOOSE h : IsWork(h, N)
<1>6. IsWork(after, N)
  BY <1>5
<1>7. AfterPrice(w, price, volume, clock) = after[N]
  BY DEF AfterPrice, Step
<1> HIDE DEF after
<1>8. after[0] = w
  BY <1>1, <1>6
<1>9. ASSUME NEW n \in 1 .. N PROVE after[n] = Worked(after[n - 1], n, price, volume, clock)
  <2>1. n \in 0 .. N /\ n # 0
    BY <1>1
  <2>2. QED BY <1>6, <2>1 DEF Step
<1>10. QED BY <1>7, <1>8, <1>9 DEF StepByStep

\* Orders keep their place, their key and their shape.
SameOrders(v, w) ==
  /\ Len(v.orders) = Len(w.orders)
  /\ \A k \in DOMAIN w.orders :
       v.orders[k].shape = w.orders[k].shape /\ v.orders[k].key = w.orders[k].key

LEMMA AfterPriceIsSound ==
  ASSUME NEW K, NEW S, \A s \in S : ShapeOK(s), NEW w \in World(K, S), Sound(w),
         NEW price \in Nat, NEW volume, Volume(volume), NEW clock \in Nat
  PROVE  LET x == AfterPrice(w, price, volume, clock)
         IN  x \in World(K, S) /\ Sound(x) /\ SameOrders(x, w)
<1> DEFINE N == Len(w.orders)
<1>1. N \in Nat /\ w.orders \in Seq(OrderOf(K, S)) /\ DOMAIN w.orders = 1 .. N
  BY DEF World
<1>2. PICK after : /\ AfterPrice(w, price, volume, clock) = after[N]
                   /\ after[0] = w
                   /\ \A n \in 1 .. N : after[n] = Worked(after[n - 1], n, price, volume, clock)
  <2>1. Len(w.orders) \in Nat
    BY <1>1
  <2>2. StepByStep(w, price, volume, clock)
    BY <2>1, AfterExists
  <2>3. QED BY <2>2 DEF StepByStep
<1> HIDE DEF N
<1> DEFINE Stays(v) == v \in World(K, S) /\ Sound(v) /\ Len(v.orders) = N
                      /\ \A k \in 1 .. N : v.orders[k].shape = w.orders[k].shape
                                             /\ v.orders[k].key = w.orders[k].key
           P == {n \in 0 .. N : Stays(after[n])}
<1>3. P \in SUBSET (0 .. N) /\ 0 \in P
  BY <1>1, <1>2 DEF N
<1>4. ASSUME NEW n \in P, n < N PROVE n + 1 \in P
  <2>1. n + 1 \in 1 .. N /\ n + 1 \in 0 .. N /\ n + 1 - 1 = n
    BY <1>1, <1>4
  <2> DEFINE v == after[n]
             x == Worked(v, n + 1, price, volume, clock)
  <2>2. Stays(v) /\ after[n + 1] = x
    BY <1>2, <2>1
  <2> HIDE DEF v
  <2>3. v.orders \in Seq(OrderOf(K, S)) /\ DOMAIN v.orders = 1 .. N
    BY <2>2 DEF World
  <2>4. /\ x \in World(K, S) /\ Sound(x) /\ Len(x.orders) = Len(v.orders)
        /\ \A k \in DOMAIN v.orders : x.orders[k].shape = v.orders[k].shape
                                        /\ x.orders[k].key = v.orders[k].key
    BY <2>1, <2>2, <2>3, WorkIsSound, SMTT(30)
  <2> HIDE DEF x
  <2>5. Stays(x)
    BY <2>2, <2>3, <2>4
  <2>6. QED BY <2>1, <2>2, <2>5
<1>5. N \in P
  <2>1. N \in Nat /\ P \in SUBSET (0 .. N) /\ 0 \in P /\ \A n \in P : n < N => n + 1 \in P
    BY <1>1, <1>3, <1>4
  <2> HIDE DEF P
  <2>2. P = 0 .. N
    BY <2>1, UpwardsFromZero
  <2>3. QED BY <2>1, <2>2
<1>6. Stays(after[N])
  BY <1>5
<1>7. QED BY <1>1, <1>2, <1>6 DEF N, SameOrders

LEMMA SubmittedIsSound ==
  ASSUME NEW K, NEW S, \A s \in S : ShapeOK(s), NEW w \in World(K, S), Sound(w),
         NEW key \in K, NEW shape \in S
  PROVE  LET x == [w EXCEPT !.orders = Submitted(@, key, shape)]
         IN  x \in World(K, S) /\ Sound(x)
<1> DEFINE x == [w EXCEPT !.orders = Submitted(@, key, shape)]
           N == Len(w.orders)
           o == NewOrder(key, shape)
<1>1. /\ w.orders \in Seq(OrderOf(K, S)) /\ w.fills \in Seq(FillRecord) /\ w.cash \in Int
      /\ w.books \in BooksRecord /\ w.opened \in [costs : Int, slack : Int]
      /\ w = [orders |-> w.orders, fills |-> w.fills, cash |-> w.cash, books |-> w.books,
              opened |-> w.opened]
      /\ N \in Nat /\ DOMAIN w.orders = 1 .. N
  BY DEF World
<1>2. x = [orders |-> Submitted(w.orders, key, shape), fills |-> w.fills, cash |-> w.cash,
           books |-> w.books, opened |-> w.opened]
  BY <1>1
<1> HIDE DEF x
<1>3. CASE key \in SeenKeys(w.orders) \/ shape.quantity <= 0
  <2>1. x = w
    BY <1>1, <1>2, <1>3 DEF Submitted
  <2>2. QED BY <2>1 DEF x
<1>4. CASE ~(key \in SeenKeys(w.orders) \/ shape.quantity <= 0)
  <2>1. shape.quantity \in Int /\ shape.quantity > 0
    BY <1>4 DEF ShapeOK
  <2>2. o \in OrderOf(K, S) /\ o.filled = 0 /\ o.shape = shape /\ o.status = "OPEN"
    BY DEF NewOrder, OrderOf, OrderStatus
  <2> HIDE DEF o
  <2>3. /\ x.orders = Append(w.orders, o) /\ x.fills = w.fills /\ x.cash = w.cash /\ x.books = w.books
        /\ x.opened = w.opened
    BY <1>2, <1>4 DEF Submitted, o
  <2>4. /\ x.orders \in Seq(OrderOf(K, S)) /\ DOMAIN x.orders = 1 .. N + 1 /\ x.orders[N + 1] = o
        /\ \A k \in 1 .. N : x.orders[k] = w.orders[k]
    BY <1>1, <2>2, <2>3
  <2>5. x \in World(K, S)
    BY <1>1, <1>2, <2>3, <2>4 DEF World
  <2> HIDE DEF N
  <2>6. ASSUME NEW k \in DOMAIN x.orders PROVE SoundOrder(x, k)
    <3>1. CASE k = N + 1
      <4>1. \A j \in DOMAIN w.fills : w.fills[j].order \in 1 .. N
        BY <1>1 DEF Sound, SoundFill
      <4>2. N + 1 \in Nat /\ ~(N + 1 \in 1 .. N)
        BY <1>1
      <4> DEFINE v == Shares(w.fills, k)
      <4>3. v \in Seq(Int) /\ DOMAIN v = DOMAIN w.fills
        <5>1. Len(w.fills) \in Nat /\ \A j \in 1 .. Len(w.fills) : w.fills[j].quantity \in Int
          <6>1. \A j \in 1 .. Len(w.fills) : w.fills[j] \in FillRecord
            BY <1>1
          <6>2. \A y \in FillRecord : y.quantity \in Int
            BY DEF FillRecord
          <6>3. QED BY <1>1, <6>1, <6>2
        <5>2. v = [j \in 1 .. Len(w.fills) |-> IF w.fills[j].order = k THEN w.fills[j].quantity ELSE 0]
          BY <1>1 DEF Shares
        <5> HIDE DEF v
        <5>3. v \in [1 .. Len(w.fills) -> Int]
          BY <5>1, <5>2
        <5>4. QED BY <1>1, <5>1, <5>3
      <4>4. \A j \in DOMAIN v : v[j] = 0
        BY <3>1, <4>1, <4>2, <4>3 DEF Shares
      <4> HIDE DEF v
      <4>5. Total(v) = 0
        BY <4>3, <4>4, NothingTotals
      <4>6. QED BY <2>1, <2>2, <2>3, <2>4, <3>1, <4>5 DEF SoundOrder, v
    <3>2. CASE k # N + 1
      <4>1. k \in 1 .. N
        BY <1>1, <2>4, <3>2
      <4>2. QED BY <1>1, <2>3, <2>4, <4>1 DEF Sound, SoundOrder
    <3>3. QED BY <3>1, <3>2
  <2>7. ASSUME NEW j \in DOMAIN x.fills PROVE SoundFill(x, j)
    <3>1. SoundFill(w, j) /\ x.fills[j] = w.fills[j]
      BY <2>3 DEF Sound
    <3>2. w.fills[j].order \in 1 .. N
      BY <1>1, <3>1 DEF SoundFill
    <3>3. x.orders[w.fills[j].order] = w.orders[w.fills[j].order] /\ w.fills[j].order \in DOMAIN x.orders
      BY <1>1, <2>4, <3>2
    <3>4. QED BY <3>1, <3>3 DEF SoundFill
  <2>8. SoundBooks(x)
    BY <2>3 DEF Sound, SoundBooks
  <2>9. QED BY <2>5, <2>6, <2>7, <2>8 DEF Sound, x
<1>5. QED BY <1>3, <1>4

LEMMA MarkedIsSound ==
  ASSUME NEW K, NEW S, NEW w \in World(K, S), Sound(w), NEW price \in Int
  PROVE  LET x == [w EXCEPT !.books = MarkedAt(@, price)]
         IN  x \in World(K, S) /\ Sound(x)
<1> DEFINE x == [w EXCEPT !.books = MarkedAt(@, price)]
<1>1. /\ w.orders \in Seq(OrderOf(K, S)) /\ w.fills \in Seq(FillRecord) /\ w.cash \in Int
      /\ w.books \in BooksRecord /\ w.opened \in [costs : Int, slack : Int]
      /\ w = [orders |-> w.orders, fills |-> w.fills, cash |-> w.cash, books |-> w.books,
              opened |-> w.opened]
  BY DEF World
<1> DEFINE b == MarkedAt(w.books, price)
<1>2. /\ b \in BooksRecord /\ b.cash = w.books.cash /\ b.quantity = w.books.quantity
      /\ b.average = w.books.average /\ b.realised = w.books.realised
  BY <1>1 DEF MarkedAt, BooksRecord
<1>3. x = [orders |-> w.orders, fills |-> w.fills, cash |-> w.cash, books |-> b,
           opened |-> w.opened]
  BY <1>1, SMTT(30)
<1> HIDE DEF x, b
<1>4. x \in World(K, S)
  BY <1>1, <1>2, <1>3 DEF World
<1>5. AtCost(b) = AtCost(w.books)
  BY <1>2 DEF AtCost
<1>6. Sound(x)
  BY <1>2, <1>3, <1>5 DEF Sound, SoundOrder, SoundFill, SoundBooks
<1>7. QED BY <1>4, <1>6 DEF x

LEMMA SoundBalances ==
  ASSUME NEW K, NEW S, Broker \in World(K, S), Sound(Broker)
  PROVE  BooksBalance /\ LimitsKept
<1>1. /\ Broker.orders = paperOrders /\ Broker.fills = paperFills /\ Broker.cash = paperCash
      /\ Broker.books = books /\ Broker.opened = opened
  BY DEF Broker
<1>2. SameCash /\ LimitsKept
  <2>1. SameCash
    BY <1>1 DEF Sound, SoundBooks, SameCash
  <2>2. LimitsKept
    BY <1>1 DEF Sound, SoundFill, LimitsKept
  <2>3. QED BY <2>1, <2>2
<1>3. GainsAddUp
  <2>1. 2 * Magnitude(AtCost(books) + opened.costs - OpeningCash) <= opened.slack
    BY <1>1 DEF Sound, SoundBooks
  <2>2. books \in BooksRecord /\ opened \in [costs : Int, slack : Int] /\ OpeningCash \in Int
    BY <1>1, PaperAssumption DEF World
  <2> DEFINE q == books.quantity
             ql == q * books.last
             qa == q * books.average
  <2>3. q \in Int /\ books.last \in Int /\ books.average \in Int /\ books.cash \in Int
        /\ books.realised \in Int /\ opened.costs \in Int
    BY <2>2 DEF BooksRecord
  <2>4. ql \in Int /\ qa \in Int /\ q * (books.last - books.average) = ql - qa
    <3> HIDE DEF q
    <3> QED BY <2>3
  <2>5. /\ Equity(books) = books.cash + ql /\ UnrealisedPnl(books) = ql - qa
        /\ AtCost(books) = books.cash + qa - books.realised
    BY <2>4 DEF Equity, UnrealisedPnl, AtCost
  <2> HIDE DEF ql, qa, q
  <2>6. (Equity(books) - OpeningCash) - (books.realised + UnrealisedPnl(books) - opened.costs)
          = AtCost(books) + opened.costs - OpeningCash
    BY <2>2, <2>3, <2>4, <2>5
  <2>7. QED BY <2>1, <2>6 DEF GainsAddUp
<1>4. OrdersAddUp
  <2>1. ASSUME NEW i \in DOMAIN paperOrders
        PROVE  LET o == paperOrders[i]
                   filled == Total(Shares(paperFills, i))
               IN  /\ o.filled = filled
                   /\ filled <= o.shape.quantity
                   /\ (o.status = "FILLED") = (filled = o.shape.quantity)
    <3>1. SoundOrder(Broker, i)
      BY <1>1 DEF Sound
    <3>2. QED BY <1>1, <3>1 DEF SoundOrder
  <2>2. QED BY <2>1 DEF OrdersAddUp
<1>5. QED BY <1>2, <1>3, <1>4 DEF BooksBalance
-----------------------------------------------------------------------------
PaperSound(K, S) == Broker \in World(K, S) /\ Sound(Broker) /\ paperClock \in Nat

LEMMA PaperSoundStart ==
  ASSUME NEW K, NEW S, PaperInit PROVE PaperSound(K, S)
<1>1. /\ Broker = [orders |-> <<>>, fills |-> <<>>, cash |-> OpeningCash,
                   books |-> OpenBooks(OpeningCash), opened |-> [costs |-> 0, slack |-> 0]]
      /\ paperClock = 0 /\ OpeningCash \in Int
  BY PaperAssumption DEF PaperInit, Broker
<1>2. OpenBooks(OpeningCash) \in BooksRecord /\ AtCost(OpenBooks(OpeningCash)) = OpeningCash
  BY <1>1 DEF OpenBooks, BooksRecord, AtCost
<1>3. Broker \in World(K, S)
  BY <1>1, <1>2 DEF World
<1>4. SoundBooks(Broker)
  <2>1. Moves(<<>>) \in Seq(Int) /\ DOMAIN Moves(<<>>) = {}
    BY DEF Moves
  <2>2. Total(Moves(<<>>)) = 0
    BY <2>1, NothingTotals
  <2>3. OpenBooks(OpeningCash).cash = OpeningCash /\ OpenBooks(OpeningCash).quantity = 0
    BY DEF OpenBooks
  <2>4. 2 * Magnitude(OpeningCash + 0 - OpeningCash) <= 0
    BY <1>1 DEF Magnitude
  <2>5. QED BY <1>1, <1>2, <2>2, <2>3, <2>4 DEF SoundBooks
<1>5. DOMAIN Broker.orders = {} /\ DOMAIN Broker.fills = {}
  BY <1>1
<1>6. QED BY <1>1, <1>3, <1>4, <1>5 DEF PaperSound, Sound

LEMMA PaperSoundStep ==
  PaperSound(Keys, Shapes) /\ [PaperNext]_paperVars => PaperSound(Keys, Shapes)'
<1> SUFFICES ASSUME PaperSound(Keys, Shapes), [PaperNext]_paperVars
             PROVE  PaperSound(Keys, Shapes)'
  OBVIOUS
<1>1. /\ Broker \in World(Keys, Shapes) /\ Sound(Broker) /\ paperClock \in Nat
      /\ \A s \in Shapes : ShapeOK(s)
      /\ Broker.orders = paperOrders /\ Broker.fills = paperFills /\ Broker.cash = paperCash
      /\ Broker.books = books /\ Broker.opened = opened
  BY PaperAssumption DEF PaperSound, Broker
<1>2. ASSUME NEW w, Becomes(w), w \in World(Keys, Shapes) PROVE Broker' = w
  <2>1. w = [orders |-> w.orders, fills |-> w.fills, cash |-> w.cash, books |-> w.books,
             opened |-> w.opened]
    BY <1>2 DEF World
  <2>2. QED BY <1>2, <2>1 DEF Becomes, Broker
<1>3. CASE PaperSubmit
  <2>1. PICK key \in Keys, shape \in Shapes :
          /\ paperOrders' = Submitted(paperOrders, key, shape)
          /\ UNCHANGED <<paperFills, paperCash, books, paperClock, opened>>
    BY <1>3 DEF PaperSubmit
  <2> DEFINE x == [Broker EXCEPT !.orders = Submitted(@, key, shape)]
  <2>2. x \in World(Keys, Shapes) /\ Sound(x)
    BY <1>1, SubmittedIsSound
  <2>3. Broker' = x
    BY <1>1, <2>1 DEF Broker
  <2>4. QED BY <1>1, <2>1, <2>2, <2>3 DEF PaperSound
<1>4. CASE PaperCancel
  <2>1. PICK i \in DOMAIN paperOrders :
          /\ IsResting(paperOrders[i])
          /\ paperOrders' = [paperOrders EXCEPT ![i].status = "CANCELLED"]
          /\ UNCHANGED <<paperFills, paperCash, books, paperClock, opened>>
    BY <1>4 DEF PaperCancel
  <2> DEFINE o == paperOrders[i]
             c == [o EXCEPT !.status = "CANCELLED"]
  <2>2. paperOrders \in Seq(OrderOf(Keys, Shapes)) /\ o \in OrderOf(Keys, Shapes)
    BY <1>1 DEF World
  <2>3. /\ c \in OrderOf(Keys, Shapes) /\ c.shape = o.shape /\ c.filled = o.filled
        /\ c.status # "FILLED" /\ o.status # "FILLED"
    BY <2>1, <2>2 DEF OrderOf, OrderStatus, IsResting
  <2>4. paperOrders' = [paperOrders EXCEPT ![i] = c]
    BY <2>1, <2>2
  <2> HIDE DEF c
  <2>5. /\ paperOrders' \in Seq(OrderOf(Keys, Shapes)) /\ DOMAIN paperOrders' = DOMAIN paperOrders
        /\ \A k \in DOMAIN paperOrders :
             /\ paperOrders'[k].shape = paperOrders[k].shape
             /\ paperOrders'[k].filled = paperOrders[k].filled
             /\ (paperOrders'[k].status = "FILLED") = (paperOrders[k].status = "FILLED")
    BY <2>2, <2>3, <2>4
  <2>6. Broker' = [orders |-> paperOrders', fills |-> paperFills, cash |-> paperCash,
                   books |-> books, opened |-> opened]
    BY <2>1 DEF Broker
  <2>7. /\ Broker.fills \in Seq(FillRecord) /\ Broker.cash \in Int /\ Broker.books \in BooksRecord
        /\ Broker.opened \in [costs : Int, slack : Int]
    BY <1>1 DEF World
  <2>8. Broker' \in World(Keys, Shapes)
    BY <1>1, <2>5, <2>6, <2>7 DEF World
  <2>9. Sound(Broker)'
    <3>1. /\ Broker'.orders = paperOrders' /\ Broker'.fills = Broker.fills
          /\ Broker'.cash = Broker.cash /\ Broker'.books = Broker.books
          /\ Broker'.opened = Broker.opened
      BY <1>1, <2>6
    <3>2. ASSUME NEW k \in DOMAIN Broker'.orders PROVE SoundOrder(Broker', k)
      BY <1>1, <2>5, <3>1 DEF Sound, SoundOrder
    <3>3. ASSUME NEW j \in DOMAIN Broker'.fills PROVE SoundFill(Broker', j)
      <4>1. SoundFill(Broker, j)
        BY <1>1, <3>1 DEF Sound
      <4>2. QED BY <1>1, <2>5, <3>1, <4>1 DEF SoundFill
    <3>4. SoundBooks(Broker')
      BY <1>1, <3>1 DEF Sound, SoundBooks
    <3>5. QED BY <3>2, <3>3, <3>4 DEF Sound
  <2>10. QED BY <1>1, <2>1, <2>8, <2>9 DEF PaperSound
<1>5. CASE PaperPrice
  <2>1. PICK price \in Prices, volume \in Volumes :
          Becomes([AfterPrice(Broker, price, volume, paperClock + 1)
                     EXCEPT !.books = MarkedAt(@, price)])
    BY <1>5 DEF PaperPrice
  <2>2. price \in Nat /\ Volume(volume) /\ paperClock + 1 \in Nat /\ paperClock' = paperClock + 1
    BY <1>1, <1>5, PaperAssumption DEF PaperPrice, Volume
  <2> DEFINE w == AfterPrice(Broker, price, volume, paperClock + 1)
             x == [w EXCEPT !.books = MarkedAt(@, price)]
  <2>3. w \in World(Keys, Shapes) /\ Sound(w)
    BY <1>1, <2>2, AfterPriceIsSound
  <2> HIDE DEF w
  <2>4. x \in World(Keys, Shapes) /\ Sound(x)
    BY <2>2, <2>3, MarkedIsSound
  <2>5. Broker' = x
    <3>1. Becomes(x)
      BY <2>1 DEF w
    <3> HIDE DEF x
    <3>2. QED BY <1>2, <2>4, <3>1
  <2>6. QED BY <2>2, <2>4, <2>5 DEF PaperSound
<1>6. CASE UNCHANGED paperVars
  BY <1>1, <1>6 DEF PaperSound, paperVars, Broker
<1>7. QED BY <1>3, <1>4, <1>5, <1>6 DEF PaperNext

\* Whatever orders, cancellations, prices and volumes come: the broker's cash is
\* the portfolio's, the fills of an order are what it was filled, and the profit
\* and loss reported is the change of the account, up to the rounding of averages.
THEOREM BooksAlwaysBalance == PaperSpec => []BooksBalance
<1>1. PaperInit => PaperSound(Keys, Shapes)
  BY PaperSoundStart
<1>2. PaperSound(Keys, Shapes) => BooksBalance
  BY SoundBalances DEF PaperSound
<1>3. QED BY <1>1, <1>2, PaperSoundStep, PTL DEF PaperSpec

\* No order with a limit is filled worse than the limit.
THEOREM LimitsAlwaysKept == PaperSpec => []LimitsKept
<1>1. PaperInit => PaperSound(Keys, Shapes)
  BY PaperSoundStart
<1>2. PaperSound(Keys, Shapes) => LimitsKept
  BY SoundBalances DEF PaperSound
<1>3. QED BY <1>1, <1>2, PaperSoundStep, PTL DEF PaperSpec

-----------------------------------------------------------------------------
(* The engine.  No order rests between two of its steps, each is filled    *)
(* whole by the price that follows it, and its key is new: so a trade is   *)
(* one fill at one price, TradeIsHonest.  The stop can only be reached at  *)
(* the first extreme, Walked.                                              *)

EngineKeys   == {"strategy", "risk-stop"} \X Nat
EngineShapes == [side : {"BUY", "SELL"}, type : {"MARKET"}, quantity : Int, tif : {"DAY"},
                 product : {"MIS"}, stop : Int]
EngineWorld  == World(EngineKeys, EngineShapes)

NoneRests(w) == \A i \in DOMAIN w.orders : ~IsResting(w.orders[i])

\* A price that finds no order resting changes nothing.
LEMMA IdlePrice ==
  ASSUME NEW w, NEW price, NEW volume, NEW clock, w.orders \in Seq(OrderOf(EngineKeys, EngineShapes)),
         NoneRests(w)
  PROVE  AfterPrice(w, price, volume, clock) = w
<1> DEFINE N == Len(w.orders)
<1>1. N \in Nat /\ DOMAIN w.orders = 1 .. N
  OBVIOUS
<1>2. PICK after : /\ AfterPrice(w, price, volume, clock) = after[N]
                   /\ after[0] = w
                   /\ \A n \in 1 .. N : after[n] = Worked(after[n - 1], n, price, volume, clock)
  <2>1. Len(w.orders) \in Nat
    BY <1>1
  <2>2. StepByStep(w, price, volume, clock)
    BY <2>1, AfterExists
  <2>3. QED BY <2>2 DEF StepByStep
<1> HIDE DEF N
<1> DEFINE P == {n \in 0 .. N : after[n] = w}
<1>3. P \in SUBSET (0 .. N) /\ 0 \in P
  BY <1>1, <1>2
<1>4. ASSUME NEW n \in P, n < N PROVE n + 1 \in P
  <2>1. n + 1 \in 1 .. N /\ n + 1 \in 0 .. N /\ n + 1 - 1 = n /\ after[n] = w
    BY <1>1, <1>4
  <2>2. after[n + 1] = Worked(w, n + 1, price, volume, clock)
    BY <1>2, <2>1
  <2>3. Worked(w, n + 1, price, volume, clock) = w
    BY <1>1, <2>1 DEF NoneRests, Worked
  <2>4. QED BY <2>1, <2>2, <2>3
<1>5. N \in P
  <2> HIDE DEF P
  <2> QED BY <1>1, <1>3, <1>4, UpwardsFromZero
<1>6. QED BY <1>2, <1>5

\* The order x has over w, and its fill.
FilledAt(x, w, sender, shape, price, clock) ==
  /\ SeenKeys(x.orders) = SeenKeys(w.orders) \cup {<<sender, clock>>}
  /\ \A i \in DOMAIN w.orders : i \in DOMAIN x.orders /\ x.orders[i] = w.orders[i]
  /\ \E f \in FillRecord :
       /\ x.fills = Append(w.fills, f)
       /\ f.side = shape.side /\ f.quantity = shape.quantity /\ f.at = clock
       /\ f.price = Slipped(price, shape.side)
       /\ f.order \in DOMAIN x.orders
       /\ x.orders[f.order].shape = shape /\ x.orders[f.order].key = <<sender, clock>>
       /\ x.books.quantity = w.books.quantity + Signed(f)

\* A market order of a new key is filled whole by the price that works it, at
\* that price slipped against it.
LEMMA TradedOnce ==
  ASSUME NEW w \in EngineWorld, Sound(w), NoneRests(w), NEW sender \in {"strategy", "risk-stop"},
         NEW clock \in Nat, <<sender, clock>> \notin SeenKeys(w.orders),
         NEW shape \in EngineShapes, shape.quantity > 0, NEW price \in Nat
  PROVE  LET x == Traded(w, sender, shape, price, clock)
         IN  x \in EngineWorld /\ Sound(x) /\ NoneRests(x) /\ FilledAt(x, w, sender, shape, price, clock)
<1> DEFINE key == <<sender, clock>>
           o == NewOrder(key, shape)
           v == [w EXCEPT !.orders = Submitted(@, key, shape)]
           x == Traded(w, sender, shape, price, clock)
           N == Len(w.orders)
           O == OrderOf(EngineKeys, EngineShapes)
<1>1. /\ w.orders \in Seq(O) /\ w.fills \in Seq(FillRecord) /\ w.books \in BooksRecord
      /\ N \in Nat /\ DOMAIN w.orders = 1 .. N
      /\ w = [orders |-> w.orders, fills |-> w.fills, cash |-> w.cash, books |-> w.books,
              opened |-> w.opened]
  BY DEF World, EngineWorld
<1>2. /\ shape.side \in {"BUY", "SELL"} /\ shape.type = "MARKET" /\ shape.quantity \in Nat \ {0}
      /\ shape.tif = "DAY" /\ shape.product = "MIS"
  BY DEF EngineShapes
<1>3. \A s \in EngineShapes : ShapeOK(s)
  BY DEF EngineShapes, ShapeOK
<1>4. key \in EngineKeys
  BY DEF EngineKeys
<1> HIDE DEF key
<1>5. o \in O /\ o.filled = 0 /\ o.shape = shape /\ o.status = "OPEN" /\ o.key = key /\ o.average = 0
  BY <1>4 DEF NewOrder, OrderOf, OrderStatus
<1>6. v.orders = Append(w.orders, o) /\ v.fills = w.fills /\ v.cash = w.cash /\ v.books = w.books
      /\ v.opened = w.opened
  BY <1>1, <1>2 DEF Submitted, key
<1>7. v \in EngineWorld /\ Sound(v)
  BY <1>3, <1>4, SubmittedIsSound DEF EngineWorld
<1>8. x = AfterPrice(v, price, NoVolume, clock)
  BY DEF Traded, Priced, key
<1> HIDE DEF v, x, o, O
<1>9. x \in EngineWorld /\ Sound(x) /\ SameOrders(x, v)
  BY <1>3, <1>7, <1>8, AfterPriceIsSound DEF EngineWorld, Volume
<1>10. /\ v.orders \in Seq(O) /\ Len(v.orders) = N + 1 /\ DOMAIN v.orders = 1 .. N + 1
       /\ v.orders[N + 1] = o /\ \A i \in 1 .. N : v.orders[i] = w.orders[i]
  BY <1>1, <1>5, <1>6
<1> HIDE DEF N
<1>11. PICK after : /\ x = after[N + 1]
                    /\ after[0] = v
                    /\ \A n \in 1 .. N + 1 :
                         after[n] = Worked(after[n - 1], n, price, NoVolume, clock)
  <2>1. Len(v.orders) \in Nat
    BY <1>1, <1>10
  <2>2. StepByStep(v, price, NoVolume, clock)
    BY <2>1, AfterExists
  <2>3. QED BY <1>8, <1>10, <2>2 DEF StepByStep
<1>12. after[N] = v
  <2> DEFINE P == {n \in 0 .. N : after[n] = v}
  <2>1. P \in SUBSET (0 .. N) /\ 0 \in P
    BY <1>1, <1>11
  <2>2. ASSUME NEW n \in P, n < N PROVE n + 1 \in P
    <3>1. n + 1 \in 1 .. N /\ n + 1 \in 1 .. N + 1 /\ n + 1 \in 0 .. N /\ n + 1 - 1 = n /\ after[n] = v
      BY <1>1, <2>2
    <3>2. after[n + 1] = Worked(v, n + 1, price, NoVolume, clock)
      BY <1>11, <3>1
    <3>3. ~IsResting(v.orders[n + 1])
      BY <1>1, <1>10, <3>1 DEF NoneRests
    <3>4. Worked(v, n + 1, price, NoVolume, clock) = v
      BY <3>3 DEF Worked
    <3>5. QED BY <3>1, <3>2, <3>4
  <2>3. N \in P
    <3> HIDE DEF P
    <3> QED BY <1>1, <2>1, <2>2, UpwardsFromZero
  <2>4. QED BY <2>3
<1> DEFINE p == FillPrice(shape, price)
           quantity == Lesser(Remaining(o), Capacity(o, NoVolume))
           f == FillOf(N + 1, o, quantity, p, clock)
<1>13. x = Worked(v, N + 1, price, NoVolume, clock)
  <2> DEFINE m == N + 1
  <2>1. m \in 1 .. m /\ m - 1 = N
    BY <1>1
  <2>2. x = after[m] /\ \A n \in 1 .. m : after[n] = Worked(after[n - 1], n, price, NoVolume, clock)
    BY <1>11
  <2> HIDE DEF m
  <2>3. after[m] = Worked(after[m - 1], m, price, NoVolume, clock)
    BY <2>1, <2>2
  <2>4. x = Worked(v, m, price, NoVolume, clock)
    BY <1>12, <2>1, <2>2, <2>3
  <2>5. QED BY <2>4 DEF m
<1>14. quantity = shape.quantity /\ p = Slipped(price, shape.side) /\ p \in Int
  <2>1. Remaining(o) = shape.quantity /\ Capacity(o, NoVolume) = Remaining(o)
    BY <1>2, <1>5 DEF Remaining, Capacity
  <2>2. p \in Int
    BY <1>3, PriceIsKept
  <2>3. QED BY <1>2, <2>1, <2>2 DEF Lesser, FillPrice
<1>15. /\ f \in FillRecord /\ f.order = N + 1 /\ f.quantity = shape.quantity
       /\ f.side = shape.side /\ f.at = clock /\ f.price = p
  <2> HIDE DEF quantity, p
  <2>1. quantity * p \in Int
    BY <1>2, <1>14
  <2>2. ComputeCosts(quantity * p, o.shape.side, o.shape.product, Schedule) \in Int
    BY <2>1, CostsAreWhole
  <2>3. QED BY <1>1, <1>2, <1>5, <1>14, <2>2 DEF FillOf, FillRecord
<1>16. IsResting(o) /\ Fillable(o.shape, price)
  BY <1>2, <1>5 DEF IsResting, Fillable
<1>17. /\ x.orders = [v.orders EXCEPT ![N + 1] = Filled(o, f)] /\ x.fills = Append(v.fills, f)
       /\ x.books = ApplyFill(v.books, f)
  <2>1. ~(quantity <= 0)
    BY <1>2, <1>14
  <2>2. /\ f = FillOf(N + 1, o, quantity, FillPrice(o.shape, price), clock)
        /\ quantity = Lesser(Remaining(o), Capacity(o, NoVolume))
    BY <1>5
  <2> HIDE DEF f, quantity, p
  <2>3. x = [orders |-> [v.orders EXCEPT ![N + 1] = Filled(o, f)],
             fills  |-> Append(v.fills, f),
             cash   |-> v.cash - Signed(f) * f.price - f.commission,
             books  |-> ApplyFill(v.books, f),
             opened |-> IF ~Adds(v.books, f) THEN v.opened
                        ELSE [costs |-> v.opened.costs + f.commission,
                              slack |-> v.opened.slack + Magnitude(v.books.quantity + Signed(f))]]
    BY <1>10, <1>13, <1>16, <2>1, <2>2 DEF Worked
  <2>4. QED BY <2>3
<1> HIDE DEF f, quantity, p
<1>18. Filled(o, f).status = "FILLED" /\ Filled(o, f).key = key /\ Filled(o, f).shape = shape
  <2>1. o.filled + f.quantity >= o.shape.quantity
    BY <1>2, <1>5, <1>15
  <2>2. QED BY <1>5, <2>1 DEF Filled, OrderOf, O
<1>19. /\ x.orders[N + 1] = Filled(o, f) /\ DOMAIN x.orders = 1 .. N + 1
       /\ \A i \in 1 .. N : x.orders[i] = w.orders[i]
  <2>1. N + 1 \in 1 .. N + 1 /\ \A i \in 1 .. N : i # N + 1 /\ i \in 1 .. N + 1
    BY <1>1
  <2>2. QED BY <1>10, <1>17, <2>1
<1>20. NoneRests(x)
  <2>1. ASSUME NEW i \in 1 .. N + 1 PROVE ~IsResting(x.orders[i])
    <3>1. CASE i = N + 1
      BY <1>18, <1>19, <3>1 DEF IsResting
    <3>2. CASE i # N + 1
      <4>1. i \in 1 .. N
        BY <1>1, <3>2
      <4>2. QED BY <1>1, <1>19, <4>1 DEF NoneRests
    <3>3. QED BY <3>1, <3>2
  <2>2. QED BY <1>19, <2>1 DEF NoneRests
<1>21. SeenKeys(x.orders) = SeenKeys(w.orders) \cup {key}
  <2>1. \A i \in 1 .. N + 1 : i = N + 1 \/ i \in 1 .. N
    BY <1>1
  <2>2. N + 1 \in 1 .. N + 1 /\ \A i \in 1 .. N : i \in 1 .. N + 1
    BY <1>1
  <2>3. QED BY <1>1, <1>18, <1>19, <2>1, <2>2 DEF SeenKeys
<1>22. x.books.quantity = w.books.quantity + Signed(f)
  BY <1>1, <1>6, <1>15, <1>17, FillIsBooked
<1>23. /\ \A i \in DOMAIN w.orders : i \in DOMAIN x.orders /\ x.orders[i] = w.orders[i]
       /\ N + 1 \in DOMAIN x.orders
  BY <1>1, <1>19
<1>24. /\ x.fills = Append(w.fills, f) /\ f.order \in DOMAIN x.orders
       /\ x.orders[f.order].shape = shape /\ x.orders[f.order].key = key
       /\ f.price = Slipped(price, shape.side)
  BY <1>6, <1>14, <1>15, <1>17, <1>18, <1>19, <1>23
<1>25. FilledAt(x, w, sender, shape, price, clock)
  BY <1>15, <1>21, <1>22, <1>23, <1>24 DEF FilledAt, key
<1>26. QED BY <1>9, <1>20, <1>25 DEF x

LEMMA LotsAreWhole ==
  ASSUME NEW n \in Nat
  PROVE  /\ WholeLots(n) \in Nat /\ WholeLots(n) <= n
         /\ WholeLots(WholeLots(n)) = WholeLots(n)
<1> DEFINE k == n \div LotSize
           r == n % LotSize
<1>1. LotSize \in Nat \ {0}
  BY BacktestAssumption
<1>2. k \in Nat /\ r \in Nat /\ n = LotSize * k + r
  BY <1>1
<1> HIDE DEF k, r
<1> DEFINE m == k * LotSize
<1>3. m \in Nat /\ m = LotSize * k
  BY <1>1, <1>2
<1>4. WholeLots(n) = m /\ m <= n
  <2>1. WholeLots(n) = m
    BY DEF WholeLots, k
  <2> HIDE DEF m
  <2>2. m <= n
    BY <1>2, <1>3
  <2>3. QED BY <2>1, <2>2
<1>5. m \div LotSize = k
  <2> HIDE DEF m
  <2> DEFINE j == m \div LotSize
             t == m % LotSize
  <2>1. j \in Int /\ t \in Int /\ 0 <= t /\ t < LotSize /\ m = LotSize * j + t
    BY <1>1, <1>3
  <2> HIDE DEF j, t
  <2>2. LotSize * (k - j) = t
    <3> DEFINE lk == LotSize * k
               lj == LotSize * j
    <3>1. lk \in Int /\ lj \in Int /\ LotSize * (k - j) = lk - lj
      BY <1>1, <1>2, <2>1
    <3>2. lk = lj + t
      BY <1>3, <2>1
    <3> HIDE DEF lk, lj
    <3>3. lk - lj = t
      BY <2>1, <3>1, <3>2
    <3>4. QED BY <3>1, <3>3
  <2>3. ~(k - j >= 1)
    <3> SUFFICES ASSUME k - j >= 1 PROVE FALSE
      OBVIOUS
    <3>1. k - j - 1 \in Nat
      BY <1>2, <2>1
    <3> DEFINE z == k - j - 1
    <3>2. LotSize * z >= 0 /\ LotSize * (k - j) = LotSize * z + LotSize /\ LotSize * z \in Int
      BY <1>1, <1>2, <2>1, <3>1
    <3>3. QED BY <1>1, <2>1, <2>2, <3>2
  <2>4. ~(k - j <= -1)
    <3> SUFFICES ASSUME k - j <= -1 PROVE FALSE
      OBVIOUS
    <3>1. j - k - 1 \in Nat
      BY <1>2, <2>1
    <3> DEFINE z == j - k - 1
    <3>2. LotSize * z >= 0 /\ LotSize * (k - j) = -(LotSize * z) - LotSize /\ LotSize * z \in Int
      BY <1>1, <1>2, <2>1, <3>1
    <3>3. QED BY <1>1, <2>1, <2>2, <3>2
  <2>5. j = k
    BY <1>2, <2>1, <2>3, <2>4
  <2>6. QED BY <2>5 DEF j
<1>6. WholeLots(m) = m
  BY <1>5 DEF WholeLots
<1>7. QED BY <1>3, <1>4, <1>6

\* A fill leaves from flat, or arrives there.
NoTurn(fills) ==
  \A i \in DOMAIN fills :
    LET position == Sums(Moves(fills)) IN position[i - 1] = 0 \/ position[i] = 0

LEMMA OneTurnMore ==
  ASSUME NEW fills \in Seq(FillRecord), NEW f \in FillRecord, NoTurn(fills),
         Total(Moves(fills)) = 0 \/ Total(Moves(fills)) + Signed(f) = 0
  PROVE  NoTurn(Append(fills, f))
<1> DEFINE n == Len(fills)
           m == Moves(fills)
           g == Append(fills, f)
<1>1. n \in Nat /\ DOMAIN fills = 1 .. n /\ DOMAIN g = 1 .. n + 1 /\ 0 \in Nat
  OBVIOUS
<1>2. m \in Seq(Int) /\ Len(m) = n /\ Signed(f) \in Int /\ Moves(g) = Append(m, Signed(f))
  BY <1>1, OneFillMore
<1>3. NoTurn(fills) /\ (Total(m) = 0 \/ Total(m) + Signed(f) = 0)
  OBVIOUS
<1> HIDE DEF n, m, g
<1> DEFINE u == Append(m, Signed(f))
<1>4. /\ Total(m) \in Int /\ Total(u) = Total(m) + Signed(f)
      /\ \A i \in 0 .. n : Sums(u)[i] = Sums(m)[i]
  BY <1>2, TotalAppends
<1>5. Total(m) = Sums(m)[n] /\ Total(u) = Sums(u)[n + 1] /\ Sums(u)[n] = Sums(m)[n]
  <2>1. Len(u) = n + 1 /\ n \in 0 .. n
    BY <1>1, <1>2
  <2> HIDE DEF u
  <2>2. QED BY <1>2, <1>4, <2>1 DEF Total
<1> HIDE DEF u
<1>6. ASSUME NEW i \in 1 .. n + 1 PROVE Sums(u)[i - 1] = 0 \/ Sums(u)[i] = 0
  <2>1. CASE i = n + 1
    <3>1. i - 1 = n
      BY <1>1, <2>1
    <3>2. Sums(u)[i - 1] = Total(m) /\ Sums(u)[i] = Total(m) + Signed(f)
      BY <1>4, <1>5, <2>1, <3>1
    <3>3. QED BY <1>3, <3>2
  <2>2. CASE i # n + 1
    <3>1. i \in 1 .. n /\ i \in 0 .. n /\ i - 1 \in 0 .. n
      BY <1>1, <2>2
    <3>2. Sums(m)[i - 1] = 0 \/ Sums(m)[i] = 0
      BY <1>1, <1>3, <3>1 DEF NoTurn, m
    <3>3. QED BY <1>4, <3>1, <3>2
  <2>3. QED BY <2>1, <2>2
<1>7. Moves(g) = u
  BY <1>2 DEF u
<1>8. QED BY <1>1, <1>6, <1>7 DEF NoTurn, g
-----------------------------------------------------------------------------
InLots(n) == WholeLots(Magnitude(n)) = Magnitude(n)

LEMMA NothingInLots == InLots(0)
<1>1. LotSize \in Nat \ {0} /\ Magnitude(0) = 0
  BY BacktestAssumption DEF Magnitude
<1>2. 0 \div LotSize = 0
  BY <1>1
<1>3. QED BY <1>1, <1>2 DEF WholeLots, InLots

EngineSound(w) == /\ w \in EngineWorld /\ Sound(w) /\ NoneRests(w) /\ NoTurn(w.fills)
                  /\ InLots(w.books.quantity)

\* Where a fill of a bar is, and what it costs at least.
FillAtBar(w, j, clock, candle) ==
  LET f == w.fills[j]
      o == w.orders[f.order]
  IN  /\ f.at = clock
      /\ o.key[1] # "risk-stop" => f.price = Slipped(candle.open, f.side)
      /\ o.key[1] = "risk-stop" /\ f.side = "SELL" =>
           f.price = Slipped(candle.low, f.side) /\ f.price <= o.shape.stop
      /\ o.key[1] = "risk-stop" /\ f.side = "BUY" =>
           f.price = Slipped(candle.high, f.side) /\ f.price >= o.shape.stop
Recent(w, n, clock, candle) ==
  /\ n \in Nat /\ n <= Len(w.fills)
  /\ \A j \in n + 1 .. Len(w.fills) : FillAtBar(w, j, clock, candle)

\* The prices the engine trades at.
TradesAt(sender, shape, price, candle) ==
  /\ sender = "strategy" => price = candle.open
  /\ sender = "risk-stop" /\ shape.side = "SELL" => price = candle.low /\ price <= shape.stop
  /\ sender = "risk-stop" /\ shape.side = "BUY" => price = candle.high /\ price >= shape.stop

LEMMA TradeIsHonest ==
  ASSUME NEW w, EngineSound(w), NEW sender \in {"strategy", "risk-stop"}, NEW clock \in Nat,
         <<sender, clock>> \notin SeenKeys(w.orders), NEW shape \in EngineShapes,
         shape.quantity > 0, NEW price \in Nat, NEW n, NEW candle, Recent(w, n, clock, candle),
         TradesAt(sender, shape, price, candle),
         w.books.quantity = 0 \/ w.books.quantity + Signed(shape) = 0,
         InLots(w.books.quantity + Signed(shape))
  PROVE  LET x == Traded(w, sender, shape, price, clock)
         IN  /\ EngineSound(x) /\ Recent(x, n, clock, candle)
             /\ SeenKeys(x.orders) = SeenKeys(w.orders) \cup {<<sender, clock>>}
             /\ x.books.quantity = w.books.quantity + Signed(shape)
<1> DEFINE x == Traded(w, sender, shape, price, clock)
           m == Len(w.fills)
<1>1. /\ w \in EngineWorld /\ Sound(w) /\ NoneRests(w) /\ NoTurn(w.fills)
      /\ w.fills \in Seq(FillRecord) /\ m \in Nat /\ DOMAIN w.fills = 1 .. m
      /\ w.books.quantity = Total(Moves(w.fills))
  BY DEF EngineSound, EngineWorld, World, Sound, SoundBooks
<1>2. x \in EngineWorld /\ Sound(x) /\ NoneRests(x) /\ FilledAt(x, w, sender, shape, price, clock)
  BY <1>1, TradedOnce
<1> HIDE DEF x, m
<1>3. PICK f \in FillRecord :
        /\ x.fills = Append(w.fills, f)
        /\ f.side = shape.side /\ f.quantity = shape.quantity /\ f.at = clock
        /\ f.price = Slipped(price, shape.side)
        /\ f.order \in DOMAIN x.orders
        /\ x.orders[f.order].shape = shape /\ x.orders[f.order].key = <<sender, clock>>
        /\ x.books.quantity = w.books.quantity + Signed(f)
  BY <1>2 DEF FilledAt
<1>4. Signed(f) = Signed(shape)
  BY <1>3 DEF Signed
<1>5. NoTurn(x.fills)
  <2>1. Total(Moves(w.fills)) = 0 \/ Total(Moves(w.fills)) + Signed(f) = 0
    BY <1>1, <1>4
  <2>2. NoTurn(Append(w.fills, f))
    BY <1>1, <2>1, OneTurnMore
  <2>3. QED BY <1>3, <2>2
<1>6. EngineSound(x)
  BY <1>2, <1>3, <1>4, <1>5 DEF EngineSound
<1>7. Len(x.fills) = m + 1 /\ x.fills[m + 1] = f /\ \A j \in 1 .. m : x.fills[j] = w.fills[j]
  BY <1>1, <1>3 DEF m
<1>8. FillAtBar(x, m + 1, clock, candle)
  <2> DEFINE p == Slipped(price, shape.side)
  <2>1. ShapeOK(shape) /\ shape.side \in {"BUY", "SELL"} /\ shape.stop \in Int
    BY DEF ShapeOK, EngineShapes
  <2>2. /\ p \in Int /\ (shape.side = "SELL" => p <= price) /\ (shape.side = "BUY" => p >= price)
    BY <2>1, PriceIsKept
  <2>3. x.fills[m + 1] = f /\ x.orders[f.order].key[1] = sender /\ x.orders[f.order].shape = shape
        /\ f.price = p /\ f.side = shape.side /\ f.at = clock
    BY <1>3, <1>7
  <2>4. /\ sender = "strategy" => p = Slipped(candle.open, shape.side)
        /\ sender = "risk-stop" /\ shape.side = "SELL" =>
             p = Slipped(candle.low, shape.side)
        /\ sender = "risk-stop" /\ shape.side = "BUY" =>
             p = Slipped(candle.high, shape.side)
    BY DEF TradesAt
  <2>5. /\ sender = "risk-stop" /\ shape.side = "SELL" => price <= shape.stop
        /\ sender = "risk-stop" /\ shape.side = "BUY" => price >= shape.stop
    BY DEF TradesAt
  <2> HIDE DEF p
  <2>6. /\ sender = "risk-stop" /\ shape.side = "SELL" => p <= shape.stop
        /\ sender = "risk-stop" /\ shape.side = "BUY" => p >= shape.stop
    BY <2>1, <2>2, <2>5
  <2>7. sender = "strategy" \/ sender = "risk-stop"
    OBVIOUS
  <2>8. QED BY <2>3, <2>4, <2>6, <2>7 DEF FillAtBar
<1>9. Recent(x, n, clock, candle)
  <2>1. n \in Nat /\ n <= m /\ \A j \in n + 1 .. m : FillAtBar(w, j, clock, candle)
    BY DEF Recent, m
  <2>2. ASSUME NEW j \in n + 1 .. m + 1 PROVE FillAtBar(x, j, clock, candle)
    <3>1. CASE j = m + 1
      BY <1>8, <3>1, SMTT(30)
    <3>2. CASE j # m + 1
      <4>1. j \in 1 .. m /\ j \in n + 1 .. m
        BY <1>1, <2>1, <3>2
      <4>2. FillAtBar(w, j, clock, candle) /\ x.fills[j] = w.fills[j]
        BY <1>7, <2>1, <4>1
      <4>3. w.fills[j].order \in DOMAIN w.orders
        BY <1>1, <4>1 DEF Sound, SoundFill
      <4>4. x.orders[w.fills[j].order] = w.orders[w.fills[j].order]
        BY <1>2, <4>3 DEF FilledAt
      <4>5. QED BY <4>2, <4>4 DEF FillAtBar
    <3>3. QED BY <3>1, <3>2
  <2>3. n <= m + 1
    BY <1>1, <2>1
  <2>4. QED BY <1>7, <2>1, <2>2, <2>3 DEF Recent
<1>10. SeenKeys(x.orders) = SeenKeys(w.orders) \cup {<<sender, clock>>}
  BY <1>2 DEF FilledAt
<1>11. QED BY <1>3, <1>4, <1>6, <1>9, <1>10 DEF x

\* An order for nothing is not placed.
LEMMA IdleTrade ==
  ASSUME NEW w, EngineSound(w), NEW sender, NEW clock, NEW shape, shape.quantity <= 0, NEW price
  PROVE  Traded(w, sender, shape, price, clock) = w
<1>1. /\ w.orders \in Seq(OrderOf(EngineKeys, EngineShapes)) /\ NoneRests(w)
      /\ w = [orders |-> w.orders, fills |-> w.fills, cash |-> w.cash, books |-> w.books,
              opened |-> w.opened]
  BY DEF EngineSound, EngineWorld, World
<1>2. [w EXCEPT !.orders = Submitted(@, <<sender, clock>>, shape)] = w
  <2>1. Submitted(w.orders, <<sender, clock>>, shape) = w.orders
    BY DEF Submitted
  <2>2. QED BY <1>1, <2>1
<1>3. AfterPrice(w, price, NoVolume, clock) = w
  BY <1>1, IdlePrice
<1>4. QED BY <1>2, <1>3 DEF Traded, Priced

LEMMA MarkIsHonest ==
  ASSUME NEW w, EngineSound(w), NEW price \in Int
  PROVE  LET x == [w EXCEPT !.books = MarkedAt(@, price)]
         IN  /\ EngineSound(x) /\ x.orders = w.orders /\ x.fills = w.fills
             /\ x.books.quantity = w.books.quantity
<1> DEFINE x == [w EXCEPT !.books = MarkedAt(@, price)]
<1>1. /\ w \in EngineWorld /\ Sound(w) /\ w.books \in BooksRecord
      /\ w = [orders |-> w.orders, fills |-> w.fills, cash |-> w.cash, books |-> w.books,
              opened |-> w.opened]
  BY DEF EngineSound, EngineWorld, World
<1>2. x \in EngineWorld /\ Sound(x)
  BY <1>1, MarkedIsSound DEF EngineWorld
<1>3. MarkedAt(w.books, price).quantity = w.books.quantity
  BY <1>1 DEF MarkedAt, BooksRecord
<1>4. x = [orders |-> w.orders, fills |-> w.fills, cash |-> w.cash,
           books |-> MarkedAt(w.books, price), opened |-> w.opened]
  BY <1>1
<1> HIDE DEF x
<1>5. x.orders = w.orders /\ x.fills = w.fills /\ x.books.quantity = w.books.quantity
  BY <1>3, <1>4
<1>6. QED BY <1>2, <1>5 DEF EngineSound, NoneRests, x

Directed == [direction : {"LONG", "SHORT"}, stop : Int]

\* An exit is of what is held, an entry is from flat.
PendingOK ==
  \/ pending = None
  \/ /\ pending \in [direction : {"FLAT"}, side : {"BUY", "SELL"}, quantity : Nat]
     /\ books.quantity # 0 /\ pending.side = Exit(books.quantity)
     /\ pending.quantity = Magnitude(books.quantity)
  \/ /\ pending \in [direction : {"LONG", "SHORT"}, side : {"BUY", "SELL"}, quantity : Nat, stop : Int]
     /\ books.quantity = 0 /\ pending.side = Entry(pending.direction)

EngineState ==
  /\ step \in {"next", "first", "low", "high", "close", "decide"}
  /\ step # "next" => bar \in Candles /\ pending = None
  /\ step = "next" => PendingOK
  /\ openRisk = None \/ openRisk \in Directed

\* What is held has a stop, in its own direction.
Protected ==
  books.quantity # 0 => openRisk # None /\ (openRisk.direction = "LONG") = (books.quantity > 0)

\* Once the first extreme is past it has not reached the stop, so the second
\* never does.
Walked ==
  /\ step = "low" /\ books.quantity # 0 => books.quantity < 0 /\ bar.high < openRisk.stop
  /\ step = "high" /\ books.quantity # 0 => books.quantity > 0 /\ bar.low > openRisk.stop
  /\ HeldBehindItsStop

\* No key is used before its bar, nor the stop's before the walk.
Unused ==
  /\ paperClock \in Nat
  /\ \A sender \in {"strategy", "risk-stop"}, c \in Nat :
       <<sender, c>> \in SeenKeys(paperOrders) => c <= paperClock
  /\ step = "first" => <<"risk-stop", paperClock>> \notin SeenKeys(paperOrders)

EngineInv == /\ EngineSound(Broker) /\ Recent(Broker, barFills, paperClock, bar)
             /\ EngineState /\ Protected /\ Walked /\ Unused

LEMMA BrokerIs ==
  /\ Broker.orders = paperOrders /\ Broker.fills = paperFills /\ Broker.cash = paperCash
  /\ Broker.books = books /\ Broker.opened = opened
BY DEF Broker

LEMMA BrokerBecomes ==
  ASSUME NEW w, EngineSound(w), Becomes(w)
  PROVE  Broker' = w
<1>1. w = [orders |-> w.orders, fills |-> w.fills, cash |-> w.cash, books |-> w.books,
           opened |-> w.opened]
  BY DEF EngineSound, EngineWorld, World
<1>2. QED BY <1>1 DEF Becomes, Broker

LEMMA PriceIdle ==
  ASSUME EngineSound(Broker), NEW price, NEW clock
  PROVE  Priced(Broker, price, clock) = Broker
<1>1. Broker.orders \in Seq(OrderOf(EngineKeys, EngineShapes)) /\ NoneRests(Broker)
  BY DEF EngineSound, EngineWorld, World
<1>2. QED BY <1>1, IdlePrice DEF Priced

LEMMA Candle ==
  ASSUME NEW c \in Candles
  PROVE  /\ c.open \in Nat /\ c.high \in Nat /\ c.low \in Nat /\ c.close \in Nat
         /\ c.low <= c.high
BY BacktestAssumption

LEMMA Held == EngineSound(Broker) => books.quantity \in Int /\ InLots(books.quantity)
BY BrokerIs DEF EngineSound, EngineWorld, World, BooksRecord

LEMMA EngineStarts == BacktestInit => EngineInv
<1> SUFFICES ASSUME BacktestInit PROVE EngineInv
  OBVIOUS
<1>1. /\ PaperInit /\ step = "next" /\ bar = NoBar /\ pending = None /\ openRisk = None
      /\ barFills = 0 /\ paperOrders = <<>> /\ paperFills = <<>> /\ paperClock = 0
      /\ books.quantity = 0
  BY DEF BacktestInit, PaperInit, OpenBooks
<1>2. Broker \in EngineWorld /\ Sound(Broker)
  BY <1>1, PaperSoundStart DEF PaperSound, EngineWorld
<1>3. NoneRests(Broker) /\ NoTurn(Broker.fills)
  BY <1>1, BrokerIs DEF NoneRests, NoTurn
<1>4. InLots(Broker.books.quantity)
  BY <1>1, NothingInLots, BrokerIs
<1>5. Recent(Broker, barFills, paperClock, bar)
  BY <1>1, BrokerIs DEF Recent
<1>6. EngineState /\ Protected /\ Walked
  BY <1>1 DEF EngineState, PendingOK, Protected, Walked, HeldBehindItsStop
<1>7. Unused
  BY <1>1 DEF Unused, SeenKeys
<1>8. QED BY <1>2, <1>3, <1>4, <1>5, <1>6, <1>7 DEF EngineInv, EngineSound

LEMMA OpensHonestly == EngineInv /\ BarOpens => EngineInv'
<1> SUFFICES ASSUME EngineInv, BarOpens PROVE EngineInv'
  OBVIOUS
<1> DEFINE clock == paperClock + 1
<1>1. PICK candle \in Candles :
        /\ bar' = candle
        /\ Becomes(AtOpen(Priced(Broker, candle.open, clock), candle.open, clock))
  BY DEF BarOpens
<1>2. /\ step = "next" /\ paperClock' = clock /\ openRisk' = RiskAtOpen /\ pending' = None
      /\ barFills' = Len(paperFills) /\ step' = "first"
  BY DEF BarOpens
<1>3. /\ EngineSound(Broker) /\ PendingOK /\ Protected /\ Unused
      /\ openRisk = None \/ openRisk \in Directed
  BY <1>2 DEF EngineInv, EngineState
<1>4. /\ paperClock \in Nat /\ clock \in Nat /\ clock > paperClock /\ candle.open \in Nat
      /\ books.quantity \in Int /\ InLots(books.quantity)
  BY <1>3, Candle, Held DEF Unused
<1> DEFINE n == Len(paperFills)
           x == AtOpen(Broker, candle.open, clock)
<1>5. n \in Nat /\ Recent(Broker, n, clock, candle)
  <2>1. paperFills \in Seq(FillRecord)
    BY <1>3, BrokerIs DEF EngineSound, EngineWorld, World
  <2>2. QED BY <2>1, BrokerIs DEF Recent
<1>6. \A sender \in {"strategy", "risk-stop"} : <<sender, clock>> \notin SeenKeys(paperOrders)
  BY <1>3, <1>4 DEF Unused
<1> HIDE DEF clock, n
<1>7. /\ EngineSound(x) /\ Recent(x, n, clock, candle)
      /\ SeenKeys(x.orders) \subseteq SeenKeys(paperOrders) \cup {<<"strategy", clock>>}
      /\ x.books.quantity # 0 =>
           /\ RiskAtOpen # None
           /\ (RiskAtOpen.direction = "LONG") = (x.books.quantity > 0)
  <2> DEFINE lots == WholeLots(pending.quantity)
             shape == AtMarket(pending.side, lots, 0)
  <2>1. CASE pending = None
    <3>1. x = Broker /\ RiskAtOpen = openRisk
      BY <2>1 DEF AtOpen, RiskAtOpen
    <3>2. QED BY <1>3, <1>5, <3>1, BrokerIs DEF Protected
  <2>2. CASE pending # None
    <3>1. /\ pending.quantity \in Nat /\ pending.side \in {"BUY", "SELL"}
          /\ x = Traded(Broker, "strategy", shape, candle.open, clock)
      BY <1>3, <2>2 DEF PendingOK, AtOpen
    <3>2. lots \in Nat /\ WholeLots(lots) = lots
      BY <3>1, LotsAreWhole
    <3> HIDE DEF lots, x
    <3>3. shape \in EngineShapes /\ shape.quantity = lots /\ shape.side = pending.side
      BY <3>1, <3>2 DEF AtMarket, EngineShapes
    <3> HIDE DEF shape
    <3>4. CASE pending.direction = "FLAT"
      <4>1. /\ books.quantity # 0 /\ pending.side = Exit(books.quantity)
            /\ pending.quantity = Magnitude(books.quantity)
        BY <1>3, <2>2, <3>4 DEF PendingOK
      <4>2. lots = Magnitude(books.quantity)
        BY <1>4, <4>1 DEF InLots, lots
      <4>3. lots > 0 /\ books.quantity + Signed(shape) = 0
        BY <1>4, <3>3, <4>1, <4>2 DEF Signed, Exit, Magnitude
      <4>4. InLots(0)
        BY NothingInLots
      <4>5. TradesAt("strategy", shape, candle.open, candle)
        BY DEF TradesAt
      <4>6. /\ EngineSound(x) /\ Recent(x, n, clock, candle)
            /\ SeenKeys(x.orders) = SeenKeys(Broker.orders) \cup {<<"strategy", clock>>}
            /\ x.books.quantity = Broker.books.quantity + Signed(shape)
        <5>1. /\ <<"strategy", clock>> \notin SeenKeys(Broker.orders) /\ shape.quantity > 0
              /\ Broker.books.quantity + Signed(shape) = 0
              /\ InLots(Broker.books.quantity + Signed(shape))
          BY <1>6, <3>3, <4>3, <4>4, BrokerIs
        <5>2. QED BY <1>3, <1>4, <1>5, <3>1, <3>3, <4>5, <5>1, TradeIsHonest
      <4>7. QED BY <4>3, <4>6, BrokerIs
    <3>5. CASE pending.direction # "FLAT"
      <4>1. /\ pending.direction \in {"LONG", "SHORT"} /\ books.quantity = 0 /\ pending.stop \in Int
            /\ pending.side = Entry(pending.direction)
            /\ RiskAtOpen = [direction |-> pending.direction, stop |-> pending.stop]
        BY <1>3, <2>2, <3>5 DEF PendingOK, RiskAtOpen
      <4>2. CASE lots = 0
        <5>1. x = Broker
          BY <1>3, <3>1, <3>3, <4>2, IdleTrade
        <5>2. QED BY <1>3, <1>5, <4>1, <5>1, BrokerIs
      <4>3. CASE lots # 0
        <5>1. lots > 0 /\ Broker.books.quantity = 0 /\ Signed(shape) \in Int
          BY <3>2, <3>3, <4>1, <4>3, BrokerIs DEF Signed
        <5>2. Magnitude(Signed(shape)) = lots /\ (Signed(shape) > 0) = (pending.direction = "LONG")
          BY <3>2, <3>3, <4>1, <5>1 DEF Magnitude, Signed, Entry
        <5>3. TradesAt("strategy", shape, candle.open, candle)
          BY DEF TradesAt
        <5>4. Broker.books.quantity + Signed(shape) = Signed(shape)
          BY <5>1
        <5>5. InLots(Broker.books.quantity + Signed(shape))
          BY <3>2, <5>2, <5>4 DEF InLots
        <5>6. /\ EngineSound(x) /\ Recent(x, n, clock, candle)
              /\ SeenKeys(x.orders) = SeenKeys(Broker.orders) \cup {<<"strategy", clock>>}
              /\ x.books.quantity = Broker.books.quantity + Signed(shape)
          <6>1. <<"strategy", clock>> \notin SeenKeys(Broker.orders) /\ shape.quantity > 0
            BY <1>6, <3>3, <5>1, BrokerIs
          <6>2. QED BY <1>3, <1>4, <1>5, <3>1, <3>3, <5>1, <5>3, <5>5, <6>1, TradeIsHonest
        <5>7. RiskAtOpen # None /\ RiskAtOpen.direction = pending.direction
          BY <4>1 DEF None
        <5>8. QED BY <5>2, <5>4, <5>6, <5>7, BrokerIs
      <4>4. QED BY <4>2, <4>3
    <3>6. QED BY <3>4, <3>5
  <2>3. QED BY <2>1, <2>2
<1>8. Broker' = x
  <2>1. Becomes(x)
    BY <1>1, <1>3, PriceIdle
  <2> HIDE DEF x
  <2>2. QED BY <1>7, <2>1, BrokerBecomes
<1> HIDE DEF x
<1>9. paperOrders' = x.orders /\ books' = x.books
  BY <1>8, BrokerIs DEF Broker
<1>10. EngineSound(Broker)' /\ Recent(Broker, barFills, paperClock, bar)'
  BY <1>1, <1>2, <1>7, <1>8 DEF n
<1>11. RiskAtOpen = None \/ RiskAtOpen \in Directed
  BY <1>3 DEF RiskAtOpen, PendingOK, Directed
<1>12. EngineState'
  BY <1>1, <1>2, <1>11 DEF EngineState
<1>13. Protected'
  BY <1>2, <1>7, <1>9 DEF Protected
<1>14. Walked'
  BY <1>2 DEF Walked, HeldBehindItsStop
<1>15. Unused'
  <2>1. ASSUME NEW sender \in {"strategy", "risk-stop"}, NEW c \in Nat,
               <<sender, c>> \in SeenKeys(x.orders)
        PROVE  c <= clock
    <3>1. CASE <<sender, c>> \in SeenKeys(paperOrders)
      <4>1. c <= paperClock
        BY <1>3, <3>1 DEF Unused
      <4>2. QED BY <1>4, <4>1
    <3>2. CASE <<sender, c>> = <<"strategy", clock>>
      BY <1>4, <3>2
    <3>3. QED BY <1>7, <2>1, <3>1, <3>2
  <2>2. <<"risk-stop", clock>> \notin SeenKeys(x.orders)
    BY <1>6, <1>7
  <2>3. QED BY <1>2, <1>4, <1>9, <2>1, <2>2 DEF Unused
<1>16. QED BY <1>10, <1>12, <1>13, <1>14, <1>15 DEF EngineInv

\* A price of the walk that passes the stop by.
LEMMA WalksBy ==
  ASSUME EngineInv, NEW price \in Int, WalksTo(price), ~StopHit(Broker, price),
         step' \in {"low", "high", "close"}, step \in {"first", "low", "high"},
         books.quantity # 0 /\ step' = "low" => books.quantity < 0 /\ bar.high < openRisk.stop,
         books.quantity # 0 /\ step' = "high" => books.quantity > 0 /\ bar.low > openRisk.stop,
         books.quantity # 0 /\ step' = "close" =>
           IF books.quantity > 0 THEN bar.low > openRisk.stop ELSE bar.high < openRisk.stop
  PROVE  EngineInv'
<1> DEFINE x == [Broker EXCEPT !.books = MarkedAt(@, price)]
<1>1. /\ EngineSound(Broker) /\ Recent(Broker, barFills, paperClock, bar) /\ EngineState
      /\ Protected /\ Unused
  BY DEF EngineInv
<1>2. Priced(Broker, price, paperClock) = Broker
  BY <1>1, PriceIdle
<1>3. /\ EngineSound(x) /\ x.orders = Broker.orders /\ x.fills = Broker.fills
      /\ x.books.quantity = Broker.books.quantity
  BY <1>1, MarkIsHonest
<1>4. /\ Becomes(Enforced(x, price)) /\ openRisk' = RiskAfter(x, price)
      /\ UNCHANGED <<paperClock, bar, pending, barFills>>
  BY <1>2 DEF WalksTo
<1> HIDE DEF x
<1>5. ~StopHit(x, price)
  BY <1>3, BrokerIs DEF StopHit
<1>6. Broker' = x
  <2>1. Becomes(x)
    BY <1>4, <1>5 DEF Enforced
  <2>2. QED BY <1>3, <2>1, BrokerBecomes
<1>7. /\ paperOrders' = paperOrders /\ paperFills' = paperFills
      /\ books'.quantity = books.quantity
      /\ openRisk' = IF books.quantity = 0 THEN None ELSE openRisk
  <2>1. paperOrders' = x.orders /\ paperFills' = x.fills /\ books' = x.books
    BY <1>6, BrokerIs DEF Broker
  <2>2. QED BY <1>3, <1>4, <1>5, <2>1, BrokerIs DEF RiskAfter
<1>8. EngineSound(Broker)'
  BY <1>3, <1>6
<1>9. Recent(Broker, barFills, paperClock, bar)'
  <2>1. Recent(x, barFills, paperClock, bar)
    BY <1>1, <1>3 DEF Recent, FillAtBar
  <2>2. QED BY <1>4, <1>6, <2>1, SMTT(30)
<1>10. EngineState'
  BY <1>1, <1>4, <1>7 DEF EngineState
<1>11. Protected'
  BY <1>1, <1>7 DEF Protected
<1>12. Walked'
  <2>1. books.quantity # 0 => openRisk' = openRisk /\ openRisk # None
                              /\ (openRisk.direction = "LONG") = (books.quantity > 0)
    BY <1>1, <1>7 DEF Protected
  <2>2. QED BY <1>4, <1>7, <2>1 DEF Walked, HeldBehindItsStop
<1>13. Unused'
  BY <1>1, <1>4, <1>7 DEF Unused
<1>14. QED BY <1>8, <1>9, <1>10, <1>11, <1>12, <1>13 DEF EngineInv

\* The stop is reached at the first extreme: the position is closed there.
LEMMA WalksOut ==
  ASSUME EngineInv, step = "first", step' \in {"low", "high"},
         NEW price, price = (IF AdverseFirst THEN bar.high ELSE bar.low),
         WalksTo(price), StopHit(Broker, price)
  PROVE  EngineInv'
<1> DEFINE v == [Broker EXCEPT !.books = MarkedAt(@, price)]
           held == books.quantity
           shape == AtMarket(Exit(held), Magnitude(held), openRisk.stop)
           x == Traded(v, "risk-stop", shape, price, paperClock)
<1>1. /\ EngineSound(Broker) /\ Recent(Broker, barFills, paperClock, bar) /\ EngineState
      /\ Protected /\ Unused /\ bar \in Candles /\ pending = None
  BY DEF EngineInv, EngineState
<1>2. price \in Nat /\ Priced(Broker, price, paperClock) = Broker /\ held \in Int
  BY <1>1, PriceIdle, Held, Candle
<1>3. /\ EngineSound(v) /\ v.orders = Broker.orders /\ v.fills = Broker.fills
      /\ v.books.quantity = held
  <2>1. price \in Int
    BY <1>2
  <2>2. QED BY <1>1, <2>1, MarkIsHonest, BrokerIs
<1>4. /\ Becomes(Enforced(v, price)) /\ openRisk' = RiskAfter(v, price)
      /\ UNCHANGED <<paperClock, bar, pending, barFills>>
  BY <1>2 DEF WalksTo
<1> HIDE DEF v
<1>5. StopHit(v, price) /\ held # 0 /\ IsStopTriggered(price, openRisk) /\ openRisk \in Directed
  BY <1>1, <1>3, BrokerIs DEF StopHit, EngineState
<1>6. Enforced(v, price) = x /\ openRisk' = None
  BY <1>3, <1>4, <1>5 DEF Enforced, RiskAfter
<1>7. (openRisk.direction = "LONG") = (held > 0) /\ openRisk.stop \in Int
  BY <1>1, <1>5 DEF Protected, Directed
<1>8. shape \in EngineShapes /\ shape.quantity > 0 /\ held + Signed(shape) = 0
  BY <1>2, <1>5, <1>7 DEF AtMarket, EngineShapes, Exit, Magnitude, Signed
<1>9. TradesAt("risk-stop", shape, price, bar)
  <2>1. shape.side = Exit(held) /\ shape.stop = openRisk.stop
    BY DEF AtMarket
  <2>2. CASE held > 0
    BY <1>2, <1>5, <1>7, <2>1, <2>2 DEF TradesAt, Exit, IsStopTriggered, AdverseFirst
  <2>3. CASE held < 0
    BY <1>2, <1>5, <1>7, <2>1, <2>3 DEF TradesAt, Exit, IsStopTriggered, AdverseFirst
  <2>4. QED BY <1>2, <1>5, <2>2, <2>3
<1>10. InLots(0)
  BY NothingInLots, SMTT(30)
<1>11. Recent(v, barFills, paperClock, bar)
  BY <1>1, <1>3 DEF Recent, FillAtBar
<1>12. /\ EngineSound(x) /\ Recent(x, barFills, paperClock, bar)
       /\ SeenKeys(x.orders) = SeenKeys(v.orders) \cup {<<"risk-stop", paperClock>>}
       /\ x.books.quantity = v.books.quantity + Signed(shape)
  <2>1. /\ <<"risk-stop", paperClock>> \notin SeenKeys(v.orders) /\ paperClock \in Nat
        /\ v.books.quantity + Signed(shape) = 0 /\ InLots(v.books.quantity + Signed(shape))
    BY <1>1, <1>3, <1>8, <1>10, BrokerIs DEF Unused
  <2> HIDE DEF shape
  <2>2. QED BY <1>2, <1>3, <1>8, <1>9, <1>11, <2>1, TradeIsHonest
<1>13. x.books.quantity = 0
  BY <1>3, <1>8, <1>12
<1> HIDE DEF x, shape
<1>14. Broker' = x
  <2>1. Becomes(x)
    BY <1>4, <1>6
  <2>2. QED BY <1>12, <2>1, BrokerBecomes
<1>15. paperOrders' = x.orders /\ books' = x.books
  BY <1>14, BrokerIs DEF Broker
<1>16. EngineSound(Broker)' /\ Recent(Broker, barFills, paperClock, bar)'
  BY <1>4, <1>12, <1>14
<1>17. EngineState'
  BY <1>1, <1>4, <1>6 DEF EngineState
<1>18. Protected' /\ Walked'
  BY <1>13, <1>15 DEF Protected, Walked, HeldBehindItsStop
<1>19. Unused'
  <2>1. SeenKeys(x.orders) = SeenKeys(paperOrders) \cup {<<"risk-stop", paperClock>>}
    BY <1>3, <1>12, BrokerIs
  <2>2. ASSUME NEW sender \in {"strategy", "risk-stop"}, NEW c \in Nat,
               <<sender, c>> \in SeenKeys(x.orders)
        PROVE  c <= paperClock
    <3>1. CASE <<sender, c>> \in SeenKeys(paperOrders)
      BY <1>1, <3>1 DEF Unused
    <3>2. CASE <<sender, c>> = <<"risk-stop", paperClock>>
      BY <3>2
    <3>3. QED BY <2>1, <2>2, <3>1, <3>2
  <2>3. QED BY <1>1, <1>4, <1>15, <2>2 DEF Unused
<1>20. QED BY <1>16, <1>17, <1>18, <1>19 DEF EngineInv

LEMMA WalksHonestly == EngineInv /\ (ToFirstExtreme \/ ToSecondExtreme) => EngineInv'
<1> SUFFICES ASSUME EngineInv, ToFirstExtreme \/ ToSecondExtreme PROVE EngineInv'
  OBVIOUS
<1>1. /\ EngineSound(Broker) /\ EngineState /\ Protected /\ Walked
      /\ books.quantity \in Int
  BY Held DEF EngineInv
<1>2. openRisk # None => openRisk \in Directed /\ openRisk.direction \in {"LONG", "SHORT"} /\ openRisk.stop \in Int
  BY <1>1 DEF EngineState, Directed
<1>3. bar \in Candles /\ bar.low \in Nat /\ bar.high \in Nat /\ bar.low <= bar.high
  BY <1>1, Candle DEF EngineState, ToFirstExtreme, ToSecondExtreme
<1>4. CASE ToFirstExtreme
  <2> DEFINE price == IF AdverseFirst THEN bar.high ELSE bar.low
  <2>1. /\ step = "first" /\ WalksTo(price) /\ price \in Int
        /\ step' = IF AdverseFirst THEN "low" ELSE "high"
    BY <1>3, <1>4 DEF ToFirstExtreme
  <2>2. CASE StopHit(Broker, price)
    BY <2>1, <2>2, WalksOut
  <2>3. CASE ~StopHit(Broker, price)
    <3>1. ASSUME books.quantity # 0
          PROVE  /\ ~IsStopTriggered(price, openRisk) /\ openRisk # None
                 /\ (openRisk.direction = "LONG") = (books.quantity > 0)
      BY <1>1, <2>3, <3>1, BrokerIs DEF StopHit, Protected
    <3>2. books.quantity # 0 /\ step' = "low" => books.quantity < 0 /\ bar.high < openRisk.stop
      BY <1>1, <1>2, <1>3, <2>1, <3>1 DEF IsStopTriggered, AdverseFirst
    <3>3. books.quantity # 0 /\ step' = "high" => books.quantity > 0 /\ bar.low > openRisk.stop
      BY <1>1, <1>2, <1>3, <2>1, <3>1 DEF IsStopTriggered, AdverseFirst
    <3> HIDE DEF price
    <3>4. step' \in {"low", "high"}
      BY <2>1
    <3>5. QED BY <2>1, <2>3, <3>2, <3>3, <3>4, WalksBy
  <2>4. QED BY <2>2, <2>3
<1>5. CASE ToSecondExtreme
  <2>1. step \in {"low", "high"} /\ WalksTo(bar[step]) /\ step' = "close" /\ bar[step] \in Int
    <3>1. bar["low"] \in Int /\ bar["high"] \in Int
      BY <1>3
    <3>2. QED BY <1>5, <3>1 DEF ToSecondExtreme
  <2>2. ASSUME books.quantity # 0
        PROVE  /\ openRisk # None /\ (openRisk.direction = "LONG") = (books.quantity > 0)
               /\ step = "low" => books.quantity < 0 /\ bar.high < openRisk.stop
               /\ step = "high" => books.quantity > 0 /\ bar.low > openRisk.stop
    BY <1>1, <2>2 DEF Protected, Walked
  <2>3. ~StopHit(Broker, bar[step])
    <3> SUFFICES ASSUME books.quantity # 0, IsStopTriggered(bar[step], openRisk) PROVE FALSE
      BY BrokerIs DEF StopHit
    <3>1. CASE step = "low"
      BY <1>1, <1>2, <1>3, <2>2, <3>1 DEF IsStopTriggered
    <3>2. CASE step = "high"
      BY <1>1, <1>2, <1>3, <2>2, <3>2 DEF IsStopTriggered
    <3>3. QED BY <2>1, <3>1, <3>2
  <2>4. books.quantity # 0 =>
          IF books.quantity > 0 THEN bar.low > openRisk.stop ELSE bar.high < openRisk.stop
    BY <1>1, <2>1, <2>2
  <2>5. QED BY <2>1, <2>3, <2>4, WalksBy
<1>6. QED BY <1>4, <1>5

LEMMA ClosesHonestly == EngineInv /\ ToClose => EngineInv'
<1> SUFFICES ASSUME EngineInv, ToClose PROVE EngineInv'
  OBVIOUS
<1> DEFINE x == [Broker EXCEPT !.books = MarkedAt(@, bar.close)]
<1>1. /\ EngineSound(Broker) /\ Recent(Broker, barFills, paperClock, bar) /\ EngineState
      /\ Protected /\ Unused /\ step = "close"
  BY DEF EngineInv, ToClose
<1>2. bar \in Candles /\ bar.close \in Int /\ bar.high \in Int /\ bar.low \in Int
  BY <1>1, Candle DEF EngineState
<1>3. Priced(Broker, bar.close, paperClock) = Broker
  BY <1>1, PriceIdle
<1>4. /\ EngineSound(x) /\ x.orders = Broker.orders /\ x.fills = Broker.fills
      /\ x.books.quantity = Broker.books.quantity
  BY <1>1, <1>2, MarkIsHonest
<1>5. /\ Becomes(x) /\ step' = "decide" /\ UNCHANGED <<paperClock, bar, pending, barFills>>
      /\ openRisk' = IF x.books.quantity = 0 THEN None
                     ELSE IF Trailing /\ openRisk # None THEN Trail(openRisk, bar)
                     ELSE openRisk
  BY <1>3 DEF ToClose
<1> HIDE DEF x
<1>6. Broker' = x
  BY <1>4, <1>5, BrokerBecomes
<1>7. /\ paperOrders' = paperOrders /\ paperFills' = paperFills
      /\ books'.quantity = books.quantity
  <2>1. paperOrders' = x.orders /\ paperFills' = x.fills /\ books' = x.books
    BY <1>6, BrokerIs DEF Broker
  <2>2. QED BY <1>4, <2>1, BrokerIs
<1>8. openRisk \in Directed =>
        Trail(openRisk, bar) \in Directed /\ Trail(openRisk, bar).direction = openRisk.direction
  <2> SUFFICES ASSUME openRisk \in Directed
               PROVE  Trail(openRisk, bar) \in Directed /\ Trail(openRisk, bar).direction = openRisk.direction
    OBVIOUS
  <2> DEFINE distance == Greater(1, bar.high - bar.low) * TrailMultiple
             stop == IF openRisk.direction = "LONG"
                     THEN Greater(openRisk.stop, bar.close - distance)
                     ELSE Lesser(openRisk.stop, bar.close + distance)
  <2>1. distance \in Int
    <3>1. Greater(1, bar.high - bar.low) \in Int /\ TrailMultiple \in Int
      BY <1>2, BacktestAssumption DEF Greater
    <3>2. QED BY <3>1
  <2> HIDE DEF distance
  <2>2. openRisk.stop \in Int /\ openRisk.direction \in {"LONG", "SHORT"}
    BY DEF Directed
  <2>3. stop \in Int
    BY <1>2, <2>1, <2>2 DEF Greater, Lesser
  <2>4. Trail(openRisk, bar) = [openRisk EXCEPT !.stop = stop]
    BY <2>2 DEF Trail, distance
  <2> HIDE DEF stop
  <2>5. QED BY <2>3, <2>4 DEF Directed
<1>9. openRisk' = None \/ openRisk' \in Directed
  BY <1>1, <1>5, <1>8 DEF EngineState
<1>10. EngineState'
  BY <1>1, <1>5, <1>9 DEF EngineState
<1>11. Protected'
  <2> SUFFICES ASSUME books.quantity # 0
               PROVE  openRisk' # None /\ (openRisk'.direction = "LONG") = (books.quantity > 0)
    BY <1>7 DEF Protected
  <2>1. openRisk \in Directed /\ (openRisk.direction = "LONG") = (books.quantity > 0) /\ openRisk # None
    BY <1>1 DEF Protected, EngineState
  <2>2. openRisk' = (IF Trailing THEN Trail(openRisk, bar) ELSE openRisk)
    BY <1>4, <1>5, <2>1, BrokerIs
  <2>3. openRisk' \in Directed /\ openRisk'.direction = openRisk.direction
    BY <1>8, <2>1, <2>2
  <2>4. openRisk' # None
    BY <2>3 DEF Directed, None
  <2>5. QED BY <2>1, <2>3, <2>4
<1>12. Recent(Broker, barFills, paperClock, bar)'
  <2>1. Recent(x, barFills, paperClock, bar)
    BY <1>1, <1>4 DEF Recent, FillAtBar
  <2>2. QED BY <1>5, <1>6, <2>1, SMTT(30)
<1>13. Walked' /\ Unused'
  BY <1>1, <1>5, <1>7 DEF Walked, HeldBehindItsStop, Unused
<1>14. QED BY <1>4, <1>6, <1>10, <1>11, <1>12, <1>13 DEF EngineInv

LEMMA DecidesHonestly == EngineInv /\ Decide => EngineInv'
<1> SUFFICES ASSUME EngineInv, Decide PROVE EngineInv'
  OBVIOUS
<1>1. PICK signal \in Signals : pending' = Planned(signal)
  BY DEF Decide
<1>2. /\ step' = "next" /\ UNCHANGED <<paperVars, bar, openRisk, barFills>>
  BY DEF Decide
<1>3. /\ EngineSound(Broker) /\ Recent(Broker, barFills, paperClock, bar) /\ EngineState
      /\ Protected /\ Unused /\ books.quantity \in Int
  BY Held DEF EngineInv
<1>4. signal.direction = "FLAT" \/ signal \in [direction : {"LONG", "SHORT"}, quantity : Nat, stop : Int]
  BY BacktestAssumption
<1>5. UNCHANGED <<Broker, paperOrders, paperFills, books, paperClock>>
  BY <1>2 DEF paperVars, Broker
<1>6. PendingOK'
  <2>1. CASE signal.direction = "FLAT"
    BY <1>1, <1>3, <1>5, <2>1 DEF Planned, PendingOK, Exit, Magnitude
  <2>2. CASE signal.direction # "FLAT"
    BY <1>1, <1>3, <1>4, <1>5, <2>2 DEF Planned, PendingOK, Entry
  <2>3. QED BY <2>1, <2>2
<1>7. EngineState'
  BY <1>2, <1>3, <1>6 DEF EngineState
<1>8. Protected' /\ Walked' /\ Unused'
  BY <1>2, <1>3, <1>5 DEF Protected, Walked, HeldBehindItsStop, Unused
<1>9. EngineSound(Broker)' /\ Recent(Broker, barFills, paperClock, bar)'
  BY <1>2, <1>3, <1>5
<1>10. QED BY <1>7, <1>8, <1>9 DEF EngineInv

LEMMA EngineStep == EngineInv /\ [BacktestNext]_backtestVars => EngineInv'
<1>1. EngineInv /\ UNCHANGED backtestVars => EngineInv'
  <2> SUFFICES ASSUME EngineInv, UNCHANGED backtestVars PROVE EngineInv'
    OBVIOUS
  <2>1. UNCHANGED <<Broker, paperOrders, paperFills, books, paperClock, step, bar, pending, openRisk, barFills>>
    BY DEF backtestVars, paperVars, Broker
  <2>2. QED BY <2>1 DEF EngineInv, EngineState, PendingOK, Protected, Walked, HeldBehindItsStop, Unused
<1>2. QED BY <1>1, OpensHonestly, WalksHonestly, ClosesHonestly, DecidesHonestly
          DEF BacktestNext, BacktestEnds

LEMMA EngineIsSound == EngineInv => HonestFills /\ BooksBalance
<1> SUFFICES ASSUME EngineInv PROVE HonestFills /\ BooksBalance
  OBVIOUS
<1>1. /\ EngineSound(Broker) /\ Recent(Broker, barFills, paperClock, bar) /\ Walked
      /\ Broker \in EngineWorld /\ Sound(Broker)
  BY DEF EngineInv, EngineSound
<1>2. BooksBalance /\ LimitsKept
  BY <1>1, SoundBalances DEF EngineWorld
<1>3. /\ paperFills \in Seq(FillRecord) /\ barFills \in Nat
      /\ DOMAIN paperFills = 1 .. Len(paperFills) /\ Len(paperFills) \in Nat
  BY <1>1, BrokerIs DEF EngineWorld, World, Recent
<1>4. ASSUME NEW f \in FillsOfThisBar
      PROVE  /\ f.at = paperClock /\ f.side \in {"BUY", "SELL"}
             /\ ~OnStop(f) => f.price = Slipped(bar.open, f.side)
             /\ OnStop(f) /\ f.side = "SELL" => f.price = Slipped(bar.low, f.side) /\ f.price <= StopOf(f)
             /\ OnStop(f) /\ f.side = "BUY" => f.price = Slipped(bar.high, f.side) /\ f.price >= StopOf(f)
  <2>1. PICK j \in barFills + 1 .. Len(paperFills) : f = paperFills[j]
    BY DEF FillsOfThisBar
  <2>2. f \in FillRecord
    BY <1>3, <2>1
  <2>3. FillAtBar(Broker, j, paperClock, bar)
    BY <1>1, <2>1, BrokerIs DEF Recent
  <2>4. f.side \in {"BUY", "SELL"}
    BY <2>2 DEF FillRecord
  <2>5. QED BY <2>1, <2>3, <2>4, BrokerIs DEF FillAtBar, OnStop, StopOf
<1>5. StopsNeverFlatter
  BY <1>4 DEF StopsNeverFlatter
<1>6. FillsAtPricesOfTheBar
  BY <1>4 DEF FillsAtPricesOfTheBar
<1>7. NeverTurns
  BY <1>1, BrokerIs DEF EngineSound, NoTurn, NeverTurns
<1>8. HeldBehindItsStop
  BY <1>1 DEF Walked
<1>9. QED BY <1>2, <1>5, <1>6, <1>7, <1>8 DEF HonestFills, EngineIsHonest

\* For any bars, signals, lots and trailing stops: decisions are filled at the
\* open of the next bar, stops at the extreme that reached them and never better
\* than their level, nothing turns a position, and what is held at the close is
\* behind a stop the bar did not reach.
THEOREM BacktestIsHonest == BacktestSpec => []HonestFills
<1>1. BacktestInit => EngineInv
  BY EngineStarts
<1>2. EngineInv => HonestFills
  BY EngineIsSound
<1>3. QED BY <1>1, <1>2, EngineStep, PTL DEF BacktestSpec

\* And the books of a backtest balance after every step of a bar.
THEOREM BacktestBalances == BacktestSpec => []BooksBalance
<1>1. BacktestInit => EngineInv
  BY EngineStarts
<1>2. EngineInv => BooksBalance
  BY EngineIsSound
<1>3. QED BY <1>1, <1>2, EngineStep, PTL DEF BacktestSpec
=============================================================================
