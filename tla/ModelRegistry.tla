---------------------------- MODULE ModelRegistry ----------------------------
(***************************************************************************)
(* Which model is live.  The stored one: training jobs that save a model   *)
(* and promote it when it earns it (runTrainingJob in src/ai/training.ts,  *)
(* PgModelRepository in src/persistence/postgres.ts), at the isolation the *)
(* transaction runs at, READ COMMITTED.  The one in memory: ModelRegistry  *)
(* and the gate of InferenceEngine (src/ai/inference.ts), which demotes    *)
(* the model that drifted.  Metrics are told apart by whether they clear   *)
(* the criteria; predictions and vetoes change no state and are left out.  *)
(***************************************************************************)
EXTENDS Integers, FiniteSets

CONSTANTS
  Jobs,      \* training jobs
  Models,    \* ids with their version
  NoModel,
  MaxFaults  \* bound: connections that break, operators that demote

ASSUME ModelAssumption == NoModel \notin Models /\ MaxFaults \in Nat

VARIABLES
  job,      \* per job: its step, its model, the live rows its UPDATE saw when it
            \* began, the rows its transaction changed
  stored,   \* committed rows: is it stored, did its metrics pass, is it live
  wasLive,  \* some model was live, and nobody demoted it
  records,  \* the registry in memory: what was registered, and the flag of each
  liveKey,  \* promotedKey
  faults

modelVars == <<job, stored, wasLive, records, liveKey, faults>>

Row     == [there : BOOLEAN, passed : BOOLEAN, live : BOOLEAN]
NoRow   == [there |-> FALSE, passed |-> FALSE, live |-> FALSE]
Resting == [step |-> "idle", model |-> NoModel, seen |-> {}, demoted |-> {}]

ModelTypeOK ==
  /\ job \in [Jobs -> [step : {"idle", "saved", "demoting", "demoted", "promoted"},
                       model : Models \cup {NoModel}, seen : SUBSET Models, demoted : SUBSET Models]]
  /\ stored \in [Models -> Row] /\ wasLive \in BOOLEAN
  /\ records \in [Models -> Row] /\ liveKey \in Models \cup {NoModel}
  /\ faults \in 0..MaxFaults

ModelInit ==
  /\ job = [j \in Jobs |-> Resting] /\ stored = [m \in Models |-> NoRow] /\ wasLive = FALSE
  /\ records = [m \in Models |-> NoRow] /\ liveKey = NoModel /\ faults = 0

-----------------------------------------------------------------------------
(* The table.                                                              *)
inMemory == <<records, liveKey>>
Live     == {m \in Models : stored[m].live}

\* save(): an upsert that leaves the flag of an existing row alone.
Save(j, m, passes) ==
  /\ job[j].step = "idle"
  /\ \A i \in Jobs : m \notin job[i].demoted /\ (job[i].step = "promoted" => job[i].model # m)
  /\ stored' = [stored EXCEPT ![m] = [there |-> TRUE, passed |-> passes, live |-> @.live]]
  /\ job' = IF passes THEN [job EXCEPT ![j] = [Resting EXCEPT !.step = "saved", !.model = m]] ELSE job
  /\ UNCHANGED <<wasLive, inMemory, faults>>

\* promote(): BEGIN; the live rows are cleared.  Those are the rows that were live
\* when the UPDATE began; one that another transaction has changed is waited for,
\* and looked at again once that one is over.  What goes live meanwhile is not seen.
DemoteStarts(j) ==
  /\ job[j].step = "saved"
  /\ job' = [job EXCEPT ![j].step = "demoting", ![j].seen = Live]
  /\ UNCHANGED <<stored, wasLive, inMemory, faults>>

Locked(j) == {m \in job[j].seen : \E i \in Jobs \ {j} : m \in job[i].demoted}
AtOnce(demoted)  ==   \* mutant: no transaction, each UPDATE commits by itself
  stored' = [m \in Models |-> [stored[m] EXCEPT !.live = @ /\ m \notin demoted]]
Visibly(demoted) == UNCHANGED stored
DemoteLive(j) ==
  /\ job[j].step = "demoting" /\ Locked(j) = {}
  /\ job' = [job EXCEPT ![j].step = "demoted", ![j].demoted = job[j].seen \cap Live]
  /\ Visibly(job[j].seen)
  /\ UNCHANGED <<wasLive, inMemory, faults>>

\* The new row is flagged.  The partial unique index allows one live row: an
\* uncommitted one is waited for, a committed one is an error, which is how the
\* loser of two promotions fails.
Others(j)   == {i \in Jobs \ {j} : job[i].step = "promoted" \/ job[j].model \in job[i].demoted}
Refused(j)  == Live \ (job[j].demoted \cup {job[j].model}) # {}
SetLive(j) ==
  /\ job[j].step = "demoted" /\ Others(j) = {}
  /\ job' = [job EXCEPT ![j] = IF Refused(j) THEN Resting ELSE [@ EXCEPT !.step = "promoted"]]
  /\ UNCHANGED <<stored, wasLive, inMemory, faults>>

CommitModel(j) ==
  /\ job[j].step = "promoted"
  /\ stored' = [m \in Models |->
       [stored[m] EXCEPT !.live = (@ /\ m \notin job[j].demoted) \/ m = job[j].model]]
  /\ wasLive' = TRUE /\ job' = [job EXCEPT ![j] = Resting]
  /\ UNCHANGED <<inMemory, faults>>

JobBreaks(j) ==
  /\ job[j].step # "idle" /\ faults < MaxFaults /\ faults' = faults + 1
  /\ job' = [job EXCEPT ![j] = Resting]
  /\ UNCHANGED <<stored, wasLive, inMemory>>

DemoteAll ==
  /\ Live # {} /\ \A j \in Jobs : job[j].demoted = {} /\ faults < MaxFaults /\ faults' = faults + 1
  /\ stored' = [m \in Models |-> [stored[m] EXCEPT !.live = FALSE]] /\ wasLive' = FALSE
  /\ UNCHANGED <<job, inMemory>>

-----------------------------------------------------------------------------
(* The registry in memory.                                                 *)
inTable == <<job, stored, wasLive, faults>>

Register(m, passes) ==
  /\ records' = [records EXCEPT ![m] = [there |-> TRUE, passed |-> passes, live |-> FALSE]]
  /\ UNCHANGED <<liveKey, inTable>>

Unflagged(r, key) == IF key = NoModel THEN r ELSE [r EXCEPT ![key].live = FALSE]
LeftFlagged(r, key) == r     \* mutant: the model before keeps its flag
Promote(m) ==
  /\ records[m].there /\ records[m].passed
  /\ records' = [Unflagged(records, liveKey) EXCEPT ![m].live = TRUE] /\ liveKey' = m
  /\ UNCHANGED inTable

Demote == /\ liveKey # NoModel
          /\ records' = Unflagged(records, liveKey) /\ liveKey' = NoModel
          /\ UNCHANGED inTable

\* gate(): an entry signal while a model is live, when the window of features
\* has drifted from the baseline; every other verdict leaves the registry alone.
Drifts == Demote

ModelNext ==
  \/ \E j \in Jobs : DemoteStarts(j) \/ DemoteLive(j) \/ SetLive(j) \/ CommitModel(j) \/ JobBreaks(j)
                     \/ \E m \in Models, passes \in BOOLEAN : Save(j, m, passes)
  \/ DemoteAll \/ Drifts
  \/ \E m \in Models : Promote(m) \/ \E passes \in BOOLEAN : Register(m, passes)
ModelSpec == ModelInit /\ [][ModelNext]_modelVars

-----------------------------------------------------------------------------
(* Properties                                                              *)

\* However promotions race and whatever breaks between their statements, there
\* is never a second live model, and never none once there was one.
OneInTable  == Cardinality(Live) <= 1 /\ (wasLive => Live # {})
\* In memory the flag of a record and the key of the live one agree: a model
\* that was replaced or demoted does not read as live.
OneInMemory == \A m \in Models : records[m].live => m = liveKey
OneLiveModel == OneInTable /\ OneInMemory
=============================================================================
