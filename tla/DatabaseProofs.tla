--------------------------- MODULE DatabaseProofs ---------------------------
(***************************************************************************)
(* Theorems about what several processes do to one database: the model     *)
(* table and the registry in memory, the migrations at boot, the audit     *)
(* log, the row of the lease.  For any number of processes, models, files, *)
(* records and invocations.                                                *)
(***************************************************************************)
EXTENDS Migrator, AuditChain, ModelRegistry, TickLease,
        FiniteSetTheorems, WellFoundedInduction, TLAPS

-----------------------------------------------------------------------------
(* The models.  A promotion that has flagged its row has all live rows in  *)
(* its hands, and no other promotion is as far.                            *)

JobShape ==
  job \in [Jobs -> [step : {"idle", "saved", "demoting", "demoted", "promoted"},
                    model : Models \cup {NoModel}, seen : SUBSET Models, demoted : SUBSET Models]]
RowShape == stored \in [Models -> Row]
HasModel == \A j \in Jobs : job[j].step # "idle" => job[j].model \in Models
AtMostOneLive == \A m, n \in Live : m = n
StillLive     == wasLive => Live # {}
OnePromotes   == \A i, j \in Jobs : job[i].step = "promoted" /\ job[j].step = "promoted" => i = j
HoldsTheLive  == \A j \in Jobs : job[j].step = "promoted" => Live \subseteq job[j].demoted \cup {job[j].model}

TableInv  == JobShape /\ RowShape /\ HasModel /\ AtMostOneLive /\ StillLive /\ OnePromotes /\ HoldsTheLive
MemoryInv == records \in [Models -> Row] /\ liveKey \in Models \cup {NoModel} /\ OneInMemory
ModelInv  == TableInv /\ MemoryInv

LEMMA ModelStarts == ModelInit => ModelInv
BY DEF ModelInit, ModelInv, TableInv, MemoryInv, JobShape, RowShape, HasModel, AtMostOneLive,
       StillLive, OnePromotes, HoldsTheLive, Live, Row, NoRow, Resting, OneInMemory

LEMMA CommitKeeps ==
  ASSUME TableInv, NEW j \in Jobs, CommitModel(j) PROVE TableInv'
<1> USE DEF TableInv
<1>1. /\ job[j].step = "promoted" /\ job[j].model \in Models
      /\ Live \subseteq job[j].demoted \cup {job[j].model}
  BY DEF CommitModel, HasModel, HoldsTheLive
<1>2. stored' = [m \in Models |->
         [stored[m] EXCEPT !.live = (@ /\ m \notin job[j].demoted) \/ m = job[j].model]]
  BY DEF CommitModel
<1>3. wasLive' = TRUE /\ job' = [job EXCEPT ![j] = Resting]
  BY DEF CommitModel
<1>4. \A m \in Models : stored'[m].live <=> m = job[j].model
  BY <1>1, <1>2 DEF RowShape, Row, Live
<1>5. Live' = {job[j].model}
  BY <1>1, <1>4 DEF Live
<1>6. RowShape'
  BY <1>2 DEF RowShape, Row
<1>7. JobShape' /\ HasModel'
  BY <1>3 DEF JobShape, HasModel, Resting
<1>8. AtMostOneLive' /\ StillLive'
  BY <1>5 DEF AtMostOneLive, StillLive
<1>9. \A i \in Jobs : job'[i].step # "promoted"
  BY <1>1, <1>3 DEF JobShape, OnePromotes, Resting
<1>10. QED BY <1>6, <1>7, <1>8, <1>9 DEF OnePromotes, HoldsTheLive

LEMMA PromotionKeeps ==
  ASSUME TableInv, NEW j \in Jobs, DemoteStarts(j) \/ DemoteLive(j) \/ SetLive(j) \/ JobBreaks(j)
  PROVE  TableInv'
<1> USE DEF TableInv
<1>1. UNCHANGED <<stored, wasLive>>
  BY DEF DemoteStarts, DemoteLive, Visibly, SetLive, JobBreaks
<1>2. Live' = Live /\ RowShape' /\ AtMostOneLive' /\ StillLive'
  BY <1>1 DEF Live, RowShape, AtMostOneLive, StillLive
<1>3. CASE DemoteLive(j)
  <2>1. job' = [job EXCEPT ![j].step = "demoted", ![j].demoted = job[j].seen \cap Live] /\ job[j].step = "demoting"
    BY <1>3 DEF DemoteLive
  <2>2. JobShape' /\ HasModel'
    BY <2>1 DEF JobShape, HasModel, Live
  <2>3. OnePromotes' /\ HoldsTheLive'
    BY <1>2, <2>1 DEF JobShape, OnePromotes, HoldsTheLive
  <2>4. QED BY <1>2, <2>2, <2>3
<1>4. CASE SetLive(j) /\ ~Refused(j)
  <2>1. job' = [job EXCEPT ![j].step = "promoted"] /\ job[j].step = "demoted" /\ Others(j) = {}
    BY <1>4 DEF SetLive
  <2>2. JobShape' /\ HasModel'
    BY <2>1 DEF JobShape, HasModel
  <2>3. OnePromotes'
    BY <2>1 DEF JobShape, OnePromotes, Others
  <2>4. HoldsTheLive'
    BY <1>2, <1>4, <2>1 DEF JobShape, HoldsTheLive, Refused
  <2>5. QED BY <1>2, <2>2, <2>3, <2>4
<1>5. CASE JobBreaks(j) \/ (SetLive(j) /\ Refused(j))
  <2>1. job' = [job EXCEPT ![j] = Resting]
    BY <1>5 DEF JobBreaks, SetLive
  <2>2. JobShape' /\ HasModel' /\ OnePromotes' /\ HoldsTheLive'
    BY <1>2, <2>1 DEF JobShape, HasModel, OnePromotes, HoldsTheLive, Resting
  <2>3. QED BY <1>2, <2>2
<1>6. CASE DemoteStarts(j)
  <2>1. job' = [job EXCEPT ![j].step = "demoting", ![j].seen = Live] /\ job[j].step = "saved"
    BY <1>6 DEF DemoteStarts
  <2>2. JobShape' /\ HasModel'
    BY <2>1 DEF JobShape, HasModel, Live
  <2>3. OnePromotes' /\ HoldsTheLive'
    BY <1>2, <2>1 DEF JobShape, OnePromotes, HoldsTheLive
  <2>4. QED BY <1>2, <2>2, <2>3
<1>7. QED BY <1>3, <1>4, <1>5, <1>6

LEMMA SaveKeeps ==
  ASSUME TableInv, NEW j \in Jobs, NEW m \in Models, NEW passes \in BOOLEAN, Save(j, m, passes)
  PROVE  TableInv'
<1> USE DEF TableInv
<1>1. stored' = [stored EXCEPT ![m] = [there |-> TRUE, passed |-> passes, live |-> stored[m].live]]
  BY DEF Save
<1>2. RowShape' /\ Live' = Live
  BY <1>1 DEF RowShape, Row, Live
<1>3. /\ wasLive' = wasLive /\ job[j].step = "idle"
      /\ job' = job \/ job' = [job EXCEPT ![j] = [Resting EXCEPT !.step = "saved", !.model = m]]
  BY DEF Save
<1>4. JobShape' /\ HasModel'
  BY <1>3 DEF JobShape, HasModel, Resting
<1>5. \A i \in Jobs : job'[i].step = "promoted" => job'[i] = job[i]
  BY <1>3 DEF JobShape, Resting
<1>6. OnePromotes' /\ HoldsTheLive' /\ AtMostOneLive' /\ StillLive'
  BY <1>2, <1>3, <1>5 DEF OnePromotes, HoldsTheLive, AtMostOneLive, StillLive
<1>7. QED BY <1>2, <1>4, <1>6

LEMMA TableKeeps == TableInv /\ [ModelNext]_modelVars => TableInv'
<1> SUFFICES ASSUME TableInv, [ModelNext]_modelVars PROVE TableInv'
  OBVIOUS
<1>1. CASE UNCHANGED inTable
  BY <1>1 DEF inTable, TableInv, JobShape, RowShape, HasModel, AtMostOneLive, StillLive,
              OnePromotes, HoldsTheLive, Live
<1>2. CASE DemoteAll
  <2>1. stored' = [m \in Models |-> [stored[m] EXCEPT !.live = FALSE]] /\ wasLive' = FALSE /\ job' = job
    BY <1>2 DEF DemoteAll
  <2>2. RowShape' /\ Live' = {}
    BY <2>1 DEF TableInv, RowShape, Row, Live
  <2>3. QED BY <2>1, <2>2 DEF TableInv, JobShape, HasModel, AtMostOneLive, StillLive, OnePromotes,
                              HoldsTheLive
<1>3. CASE UNCHANGED modelVars \/ Drifts \/ \E m \in Models : Promote(m) \/ \E passes \in BOOLEAN : Register(m, passes)
  BY <1>1, <1>3 DEF modelVars, inTable, Drifts, Demote, Promote, Register
<1>4. QED BY <1>2, <1>3, CommitKeeps, PromotionKeeps, SaveKeeps DEF ModelNext

LEMMA MemoryKeeps == MemoryInv /\ [ModelNext]_modelVars => MemoryInv'
<1> SUFFICES ASSUME MemoryInv, [ModelNext]_modelVars PROVE MemoryInv'
  OBVIOUS
<1> USE ModelAssumption DEF MemoryInv, OneInMemory
<1>1. ASSUME NEW m \in Models, Promote(m) PROVE MemoryInv'
  <2> DEFINE before == Unflagged(records, liveKey)
  <2>1. before \in [Models -> Row] /\ \A n \in Models : ~before[n].live
    BY DEF Unflagged, Row
  <2>2. records' = [before EXCEPT ![m].live = TRUE] /\ liveKey' = m
    BY <1>1 DEF Promote
  <2>3. records' \in [Models -> Row] /\ \A n \in Models : records'[n].live => n = m
    BY <2>1, <2>2 DEF Row
  <2>4. QED BY <2>2, <2>3
<1>2. ASSUME NEW m \in Models, NEW passes \in BOOLEAN, Register(m, passes) PROVE MemoryInv'
  BY <1>2 DEF Register, Row
<1>3. CASE Drifts
  BY <1>3 DEF Drifts, Demote, Unflagged, Row
<1>4. CASE UNCHANGED inMemory
  BY <1>4 DEF inMemory
<1>5. QED
  BY <1>1, <1>2, <1>3, <1>4 DEF ModelNext, modelVars, inMemory, DemoteAll, DemoteStarts, DemoteLive, SetLive,
     CommitModel, JobBreaks, Save

LEMMA OneMeansAtMostOne == ModelInv => OneLiveModel
<1> SUFFICES ASSUME ModelInv PROVE OneLiveModel
  OBVIOUS
<1>1. Cardinality(Live) <= 1
  <2>1. CASE Live = {}
    BY <2>1, FS_EmptySet
  <2>2. CASE Live # {}
    <3>1. PICK m \in Live : Live = {m}
      BY <2>2 DEF ModelInv, TableInv, AtMostOneLive
    <3>2. QED BY <3>1, FS_Singleton
  <2>3. QED BY <2>1, <2>2
<1>2. QED BY <1>1 DEF ModelInv, TableInv, MemoryInv, StillLive, OneLiveModel, OneInTable

\* However promotions race, and whatever breaks between their statements: one
\* live model at most in the table, one as soon as there was one, and a
\* registry whose flags agree with its key.
THEOREM OneModelIsLive == ModelSpec => []OneLiveModel
<1>1. ModelInv /\ [ModelNext]_modelVars => ModelInv'
  BY TableKeeps, MemoryKeeps DEF ModelInv
<1>2. QED BY <1>1, ModelStarts, OneMeansAtMostOne, PTL DEF ModelSpec

-----------------------------------------------------------------------------
(* Migrations.  Whoever is between reading the ledger and giving the lock  *)
(* back is alone there, so that what it read and what it applied is all    *)
(* there is.                                                               *)

Inside == {"reading", "applying", "sent"}
Boot   == [at : BootStages, files : Seq(SqlFile), read : SUBSET SqlFile, next : Nat]

BootShape ==
  /\ boot \in [Booters -> Boot] /\ ledger \in SUBSET SqlFile /\ effects \in Seq(SqlFile)
  /\ \A p \in Booters : InOrder(boot[p].files) /\ boot[p].read \subseteq ledger
LockHeld == \A p \in Booters : boot[p].at \in Inside => holder = p
Progress(b) ==
  /\ b.next \in 1..Len(b.files) + 1
  /\ \A i \in 1..b.next - 1 : b.files[i] \in ledger
  /\ \A r \in ledger : r \in b.read \/ \E i \in 1..b.next - 1 : r = b.files[i]
  /\ b.at = "sent" => b.next <= Len(b.files) /\ \A r \in b.read : r.version # b.files[b.next].version
AllKnown == \A p \in Booters : boot[p].at \in {"applying", "sent"} => Progress(boot[p])
EffectsOnce ==
  /\ \A i \in DOMAIN effects : effects[i] \in ledger
  /\ \A r \in ledger : \E i \in DOMAIN effects : effects[i] = r
  /\ \A i, j \in DOMAIN effects : effects[i] = effects[j] => i = j

MigratorInv ==
  BootShape /\ LockHeld /\ AllKnown /\ EffectsOnce /\ NobodyLosesARace /\ DoneMeansApplied

LEMMA MigratorStarts == MigratorInit => MigratorInv
BY DEF MigratorInit, MigratorInv, BootShape, Boot, BootStages, BootOver, LockHeld, Inside, AllKnown,
       EffectsOnce, NobodyLosesARace, DoneMeansApplied, NotYet, InOrder

\* A process that moves and leaves the ledger alone.
LEMMA MovesOnly ==
  ASSUME MigratorInv, NEW p \in Booters, NEW b \in Boot, InOrder(b.files), b.read \subseteq ledger,
         boot' = [boot EXCEPT ![p] = b], UNCHANGED <<ledger, effects>>,
         b.at # "lostRace",
         b.at = "done" => \A i \in DOMAIN b.files : b.files[i] \in ledger,
         b.at \in Inside => holder' = p,
         \A q \in Booters \ {p} : holder = q => holder' = q,
         b.at \in {"applying", "sent"} => Progress(b)
  PROVE  MigratorInv'
<1> USE DEF MigratorInv
<1>1. \A q \in Booters : boot'[q] = IF q = p THEN b ELSE boot[q]
  BY DEF BootShape
<1>2. BootShape' /\ EffectsOnce'
  BY <1>1 DEF BootShape, EffectsOnce, InOrder
<1>3. LockHeld'
  BY <1>1 DEF LockHeld
<1>4. AllKnown'
  BY <1>1 DEF AllKnown, Progress
<1>5. NobodyLosesARace' /\ DoneMeansApplied'
  BY <1>1 DEF NobodyLosesARace, DoneMeansApplied
<1>6. QED BY <1>2, <1>3, <1>4, <1>5

\* What is about to be committed is in nobody's way.
LEMMA NoConflict ==
  ASSUME MigratorInv, NEW p \in Booters, boot[p].at = "sent"
  PROVE  /\ ~Conflict(p) /\ File(p) \in SqlFile /\ File(p) \notin ledger
         /\ holder = p /\ Progress(boot[p]) /\ boot[p].next \in 1..Len(boot[p].files)
<1>1. holder = p /\ Progress(boot[p])
  BY DEF MigratorInv, LockHeld, Inside, AllKnown
<1>2. boot[p].files \in Seq(SqlFile) /\ InOrder(boot[p].files) /\ boot[p].next \in 1..Len(boot[p].files)
  BY <1>1 DEF MigratorInv, BootShape, Boot, Progress
<1>3. File(p) \in SqlFile
  BY <1>2 DEF File
<1>4. ASSUME NEW r \in ledger PROVE r.version # File(p).version
  <2>1. CASE r \in boot[p].read
    BY <1>1, <2>1 DEF Progress, File
  <2>2. CASE \E i \in 1..boot[p].next - 1 : r = boot[p].files[i]
    <3>1. PICK i \in 1..boot[p].next - 1 : r = boot[p].files[i]
      BY <2>2
    <3>2. boot[p].files[i].version < boot[p].files[boot[p].next].version
      BY <1>2 DEF InOrder
    <3>3. boot[p].files[i] \in SqlFile
      BY <1>2
    <3>4. QED BY <1>3, <3>1, <3>2, <3>3 DEF File, SqlFile
  <2>3. QED BY <1>1, <2>1, <2>2 DEF Progress
<1>5. QED BY <1>1, <1>2, <1>3, <1>4 DEF Conflict, RowOf

\* A commit, by itself or with the process that sent it.
LEMMA CommitLands ==
  ASSUME MigratorInv, NEW p \in Booters, boot[p].at = "sent", Both(p),
         NEW b \in Boot, boot' = [boot EXCEPT ![p] = b],
         \/ b = [boot[p] EXCEPT !.at = "applying", !.next = @ + 1] /\ holder' = p
         \/ b = [boot[p] EXCEPT !.at = "idle"]
  PROVE  MigratorInv'
<1> USE DEF MigratorInv
<1> DEFINE file == File(p)
<1>1. /\ file \in SqlFile /\ file \notin ledger /\ holder = p /\ Progress(boot[p])
      /\ boot[p].next \in 1..Len(boot[p].files)
  BY NoConflict
<1>2. ledger' = ledger \cup {file} /\ effects' = Append(effects, file) /\ effects \in Seq(SqlFile)
  BY DEF Both, BootShape
<1>3. \A q \in Booters : boot'[q] = IF q = p THEN b ELSE boot[q]
  BY DEF BootShape
<1>4. \A q \in Booters \ {p} : boot[q].at \notin Inside
  BY <1>1 DEF LockHeld
<1>5. b.files = boot[p].files /\ b.at # "lostRace" /\ b.at # "done" /\ b.at \in {"applying", "idle"}
  BY DEF BootShape, Boot
<1>6. BootShape'
  <2>1. InOrder(b.files)
    BY <1>5 DEF BootShape, InOrder
  <2>2. b.read \subseteq ledger
    BY DEF BootShape, Boot
  <2>3. QED BY <1>1, <1>2, <1>3, <2>1, <2>2 DEF BootShape, InOrder
<1>7. LockHeld'
  <2>1. b.at \in Inside => holder' = p
    BY DEF BootShape, Boot, Inside
  <2>2. QED BY <1>3, <1>4, <2>1 DEF LockHeld
<1>8. AllKnown'
  <2>1. ASSUME b.at = "applying" PROVE Progress(b)'
    <3>1. b = [boot[p] EXCEPT !.at = "applying", !.next = boot[p].next + 1]
      BY <2>1 DEF BootShape, Boot
    <3>2. b.next = boot[p].next + 1 /\ b.read = boot[p].read /\ b.files = boot[p].files
      BY <3>1 DEF BootShape, Boot
    <3>3. b.files[boot[p].next] = file
      BY <3>2 DEF File
    <3>4. b.next - 1 = boot[p].next /\ b.next \in 1..Len(b.files) + 1
      BY <1>1, <3>2 DEF Progress
    <3>5. \A i \in 1..b.next - 1 : b.files[i] \in ledger'
      BY <1>1, <1>2, <3>2, <3>3, <3>4 DEF Progress
    <3>6. \A r \in ledger' : r \in b.read \/ \E i \in 1..b.next - 1 : r = b.files[i]
      BY <1>1, <1>2, <3>2, <3>3, <3>4 DEF Progress
    <3>7. QED BY <2>1, <3>4, <3>5, <3>6 DEF Progress
  <2>2. QED BY <1>3, <1>4, <1>5, <2>1 DEF AllKnown, Inside
<1>9. EffectsOnce'
  <2>1. DOMAIN effects' = 1..Len(effects) + 1 /\ DOMAIN effects = 1..Len(effects)
    BY <1>1, <1>2
  <2>2. \A i \in DOMAIN effects : effects'[i] = effects[i]
    BY <1>1, <1>2
  <2>3. effects'[Len(effects) + 1] = file
    BY <1>1, <1>2
  <2>4. \A i \in DOMAIN effects : effects[i] # file
    BY <1>1 DEF EffectsOnce
  <2>5. QED BY <1>2, <2>1, <2>2, <2>3, <2>4 DEF EffectsOnce
<1>10. NobodyLosesARace' /\ DoneMeansApplied'
  BY <1>2, <1>3, <1>5 DEF NobodyLosesARace, DoneMeansApplied
<1>11. QED BY <1>6, <1>7, <1>8, <1>9, <1>10

LEMMA MigratorKeeps == MigratorInv /\ [MigratorNext]_migratorVars => MigratorInv'
<1> SUFFICES ASSUME MigratorInv, [MigratorNext]_migratorVars PROVE MigratorInv'
  OBVIOUS
<1> USE MigratorAssumption
<1>1. ASSUME NEW p \in Booters, NEW files \in Releases, BootUp(p, files) PROVE MigratorInv'
  <2> DEFINE b == [at |-> "locking", files |-> files, read |-> {}, next |-> 0]
  <2>1. files \in Seq(SqlFile) /\ InOrder(files)
    OBVIOUS
  <2>2. b \in Boot /\ b.files = files /\ b.at = "locking" /\ b.read = {}
    BY <2>1 DEF Boot, BootStages, BootOver
  <2>3. boot' = [boot EXCEPT ![p] = b] /\ UNCHANGED <<holder, ledger, effects>>
    BY <1>1 DEF BootUp
  <2>4. InOrder(b.files)
    BY <2>1, <2>2
  <2> HIDE DEF b
  <2>5. QED BY <2>2, <2>3, <2>4, MovesOnly DEF Inside
<1>2. ASSUME NEW p \in Booters, Lock(p) PROVE MigratorInv'
  <2> DEFINE b == [boot[p] EXCEPT !.at = "reading"]
  <2>1. b \in Boot /\ InOrder(b.files) /\ b.at = "reading" /\ b.read \subseteq ledger
    BY DEF MigratorInv, BootShape, Boot, BootStages, BootOver
  <2>2. boot' = [boot EXCEPT ![p] = b] /\ UNCHANGED <<ledger, effects>> /\ holder = Nobody /\ holder' = p
    BY <1>2 DEF Lock, Unheld, Set
  <2> HIDE DEF b
  <2>3. QED BY <2>1, <2>2, MovesOnly DEF Nobody
<1>3. ASSUME NEW p \in Booters, ReadLedger(p) PROVE MigratorInv'
  <2> DEFINE b == [boot[p] EXCEPT !.at = "applying", !.read = ledger, !.next = 1]
  <2>1. boot[p] \in Boot /\ ledger \in SUBSET SqlFile /\ InOrder(boot[p].files)
    BY DEF MigratorInv, BootShape
  <2>2. /\ b \in Boot /\ b.at = "applying" /\ b.read = ledger /\ b.next = 1
        /\ b.files = boot[p].files
    BY <2>1 DEF Boot, BootStages, BootOver
  <2>3. InOrder(b.files)
    BY <2>1, <2>2
  <2>4. boot[p].at = "reading" /\ boot' = [boot EXCEPT ![p] = b] /\ UNCHANGED <<holder, ledger, effects>>
    BY <1>3 DEF ReadLedger
  <2>5. holder' = p
    BY <2>4 DEF MigratorInv, LockHeld, Inside
  <2>6. Progress(b)
    <3>1. b.files \in Seq(SqlFile)
      BY <2>2 DEF Boot
    <3>2. QED BY <2>2, <3>1 DEF Progress
  <2> HIDE DEF b
  <2>7. QED BY <2>2, <2>3, <2>4, <2>5, <2>6, MovesOnly
<1>4. ASSUME NEW p \in Booters, NEW end \in {"idle", "done", "failed", "drift"},
             LeaveWith(p, end), UNCHANGED <<ledger, effects>>,
             end = "done" => boot[p].at = "applying" /\ boot[p].next > Len(boot[p].files)
      PROVE  MigratorInv'
  <2> DEFINE b == [boot[p] EXCEPT !.at = end]
  <2>1. boot[p] \in Boot /\ InOrder(boot[p].files) /\ boot[p].read \subseteq ledger
    BY DEF MigratorInv, BootShape
  <2>a. end \in BootStages
    BY DEF BootStages, BootOver
  <2>2. b \in Boot /\ b.at = end /\ b.files = boot[p].files /\ b.read = boot[p].read
    BY <2>1, <2>a DEF Boot
  <2>3. InOrder(b.files)
    BY <2>1, <2>2
  <2>4. boot' = [boot EXCEPT ![p] = b] /\ holder' = IF holder = p THEN Nobody ELSE holder
    BY <1>4 DEF LeaveWith, Set
  <2>5. end = "done" => \A i \in DOMAIN boot[p].files : boot[p].files[i] \in ledger
    <3> SUFFICES ASSUME end = "done", NEW i \in DOMAIN boot[p].files PROVE boot[p].files[i] \in ledger
      OBVIOUS
    <3>1. Progress(boot[p]) /\ boot[p].next > Len(boot[p].files)
      BY <1>4 DEF MigratorInv, AllKnown
    <3>2. boot[p].files \in Seq(SqlFile) /\ boot[p].next \in Nat
      BY <2>1 DEF Boot
    <3>3. i \in 1..boot[p].next - 1
      BY <3>1, <3>2
    <3>4. QED BY <3>1, <3>3 DEF Progress
  <2> HIDE DEF b
  <2>6. QED BY <1>4, <2>1, <2>2, <2>3, <2>4, <2>5, MovesOnly DEF Inside
<1>5. ASSUME NEW p \in Booters, Skip(p) PROVE MigratorInv'
  <2>1. CASE \E r \in Known(p) : r.text # File(p).text
    BY <1>4, <1>5, <2>1 DEF Skip
  <2>2. CASE \A r \in Known(p) : r.text = File(p).text
    <3> DEFINE b == [boot[p] EXCEPT !.next = @ + 1]
    <3>1. /\ boot[p] \in Boot /\ InOrder(boot[p].files) /\ boot[p].at = "applying"
          /\ boot[p].read \subseteq ledger
      BY <1>5 DEF MigratorInv, BootShape, Skip
    <3>2. /\ b \in Boot /\ b.at = "applying" /\ b.files = boot[p].files /\ b.read = boot[p].read
          /\ b.next = boot[p].next + 1
      BY <3>1 DEF Boot
    <3>3. InOrder(b.files)
      BY <3>1, <3>2
    <3>4. /\ boot' = [boot EXCEPT ![p] = b] /\ UNCHANGED <<holder, ledger, effects>>
          /\ boot[p].next <= Len(boot[p].files) /\ Known(p) # {}
      BY <1>5, <2>2 DEF Skip
    <3>5. Progress(boot[p]) /\ holder' = p
      BY <3>1, <3>4 DEF MigratorInv, AllKnown, LockHeld, Inside
    <3>6. boot[p].files \in Seq(SqlFile) /\ boot[p].next \in 1..Len(boot[p].files)
      BY <3>1, <3>4, <3>5 DEF Boot, Progress
    <3>7. File(p) \in ledger
      <4>1. PICK r \in boot[p].read : r.version = File(p).version
        BY <3>4 DEF Known, RowOf
      <4>2. r.text = File(p).text
        BY <2>2, <4>1 DEF Known, RowOf
      <4>3. r \in SqlFile /\ File(p) \in SqlFile
        BY <3>1, <3>6 DEF Boot, File
      <4>4. r = File(p)
        BY <4>1, <4>2, <4>3 DEF SqlFile
      <4>5. r \in ledger
        BY <3>1, <4>1
      <4>6. QED BY <4>4, <4>5
    <3>8. Progress(b)
      <4>1. b.next - 1 = boot[p].next /\ b.next \in 1..Len(b.files) + 1 /\ b.at # "sent"
        BY <3>2, <3>6
      <4>2. \A i \in 1..b.next - 1 : b.files[i] \in ledger
        BY <3>2, <3>5, <3>6, <3>7, <4>1 DEF Progress, File
      <4>3. \A r \in ledger : r \in b.read \/ \E i \in 1..b.next - 1 : r = b.files[i]
        BY <3>2, <3>5, <3>6, <4>1 DEF Progress
      <4>4. QED BY <4>1, <4>2, <4>3 DEF Progress
    <3> HIDE DEF b
    <3>9. QED BY <3>1, <3>2, <3>3, <3>4, <3>5, <3>8, MovesOnly
  <2>3. QED BY <2>1, <2>2
<1>6. ASSUME NEW p \in Booters, Begin(p) PROVE MigratorInv'
  <2>1. CASE File(p).text \in Broken
    BY <1>4, <1>6, <2>1 DEF Begin
  <2>2. CASE File(p).text \notin Broken
    <3> DEFINE b == [boot[p] EXCEPT !.at = "sent"]
    <3>1. /\ boot[p] \in Boot /\ InOrder(boot[p].files) /\ boot[p].at = "applying"
          /\ boot[p].read \subseteq ledger
      BY <1>6 DEF MigratorInv, BootShape, Begin
    <3>2. /\ b \in Boot /\ b.at = "sent" /\ b.files = boot[p].files /\ b.read = boot[p].read
          /\ b.next = boot[p].next
      BY <3>1 DEF Boot, BootStages, BootOver
    <3>3. InOrder(b.files)
      BY <3>1, <3>2
    <3>4. /\ boot' = [boot EXCEPT ![p] = b] /\ UNCHANGED <<holder, ledger, effects>>
          /\ boot[p].next <= Len(boot[p].files) /\ Known(p) = {}
      BY <1>6, <2>2 DEF Begin, Set
    <3>5. Progress(boot[p]) /\ holder' = p
      BY <3>1, <3>4 DEF MigratorInv, AllKnown, LockHeld, Inside
    <3>6. \A r \in b.read : r.version # b.files[b.next].version
      BY <3>2, <3>4 DEF Known, RowOf, File
    <3>7. Progress(b)
      BY <3>2, <3>4, <3>5, <3>6 DEF Progress
    <3> HIDE DEF b
    <3>8. QED BY <3>1, <3>2, <3>3, <3>4, <3>5, <3>7, MovesOnly
  <2>3. QED BY <2>1, <2>2
<1>7. ASSUME NEW p \in Booters, boot[p].at = "sent", Both(p),
             \/ boot' = [boot EXCEPT ![p].at = "applying", ![p].next = @ + 1] /\ UNCHANGED holder
             \/ boot' = [boot EXCEPT ![p].at = "idle"]
      PROVE  MigratorInv'
  <2>1. boot[p] \in Boot /\ holder = p
    BY <1>7 DEF MigratorInv, BootShape, LockHeld, Inside
  <2>2. CASE boot' = [boot EXCEPT ![p].at = "applying", ![p].next = @ + 1] /\ UNCHANGED holder
    <3> DEFINE b == [boot[p] EXCEPT !.at = "applying", !.next = @ + 1]
    <3>1. b \in Boot
      <4>1. boot[p].next + 1 \in Nat
        BY <2>1 DEF Boot
      <4>2. QED BY <2>1, <4>1 DEF Boot, BootStages, BootOver
    <3>2. boot' = [boot EXCEPT ![p] = b]
      BY <2>2 DEF MigratorInv, BootShape
    <3>3. QED BY <1>7, <2>1, <2>2, <3>1, <3>2, CommitLands
  <2>3. CASE boot' = [boot EXCEPT ![p].at = "idle"]
    <3> DEFINE b == [boot[p] EXCEPT !.at = "idle"]
    <3>1. b \in Boot
      BY <2>1 DEF Boot, BootStages, BootOver
    <3>2. boot' = [boot EXCEPT ![p] = b]
      BY <2>3 DEF MigratorInv, BootShape
    <3>3. QED BY <1>7, <3>1, <3>2, CommitLands
  <2>4. QED BY <1>7, <2>2, <2>3
<1>8. ASSUME NEW p \in Booters, Done(p) PROVE MigratorInv'
  BY <1>4, <1>8 DEF Done
<1>9. ASSUME NEW p \in Booters, Commit(p) PROVE MigratorInv'
  <2>1. boot[p].at = "sent" /\ ~Conflict(p)
    BY <1>9, NoConflict DEF Commit
  <2>2. QED BY <1>7, <1>9, <2>1 DEF Commit
<1>10. ASSUME NEW p \in Booters, Breaks(p) PROVE MigratorInv'
  <2>1. CASE Aborted(p)
    BY <1>4, <1>10, <2>1 DEF Breaks, Aborted
  <2>2. CASE boot[p].at = "sent" /\ Both(p)
    BY <1>7, <1>10, <2>2 DEF Breaks, LeaveWith, Set
  <2>3. QED BY <1>10, <2>1, <2>2 DEF Breaks
<1>11. ASSUME NEW p \in Booters, Restart(p) PROVE MigratorInv'
  <2>1. NotYet \in Boot /\ InOrder(NotYet.files) /\ NotYet.at = "idle" /\ NotYet.read = {}
    BY DEF NotYet, Boot, BootStages, BootOver, InOrder
  <2>2. boot' = [boot EXCEPT ![p] = NotYet] /\ UNCHANGED <<holder, ledger, effects>>
    BY <1>11 DEF Restart
  <2>3. QED BY <2>1, <2>2, MovesOnly DEF Inside
<1>a. ASSUME NEW p \in Booters, GivesUp(p) PROVE MigratorInv'
  <2> DEFINE b == [boot[p] EXCEPT !.at = "gaveUp"]
  <2>1. boot[p] \in Boot /\ InOrder(boot[p].files) /\ boot[p].read \subseteq ledger
    BY DEF MigratorInv, BootShape
  <2>a. "gaveUp" \in BootStages
    BY DEF BootStages, BootOver
  <2>2. b \in Boot /\ b.at = "gaveUp" /\ b.files = boot[p].files /\ b.read = boot[p].read
    BY <2>1, <2>a DEF Boot
  <2>3. InOrder(b.files)
    BY <2>1, <2>2
  <2>4. boot' = [boot EXCEPT ![p] = b] /\ UNCHANGED <<holder, ledger, effects>>
    BY <1>a DEF GivesUp, Set
  <2> HIDE DEF b
  <2>5. QED BY <2>1, <2>2, <2>3, <2>4, MovesOnly DEF Inside
<1>b. ASSUME NEW p \in Booters, Cancelled(p) PROVE MigratorInv'
  BY <1>4, <1>b DEF Cancelled
<1>12. CASE UNCHANGED migratorVars
  BY <1>12 DEF migratorVars, MigratorInv, BootShape, LockHeld, AllKnown, Progress, EffectsOnce,
               NobodyLosesARace, DoneMeansApplied
<1>13. QED
  BY <1>1, <1>2, <1>3, <1>5, <1>6, <1>8, <1>9, <1>10, <1>11, <1>12, <1>a, <1>b DEF MigratorNext

LEMMA OnceMeansOnce == MigratorInv => MigratedOnce
<1> SUFFICES ASSUME MigratorInv, NEW r \in ledger PROVE Times(r) = 1
  BY DEF MigratorInv, EffectsOnce, MigratedOnce, LedgerIsSchema
<1>1. PICK i \in DOMAIN effects : effects[i] = r
  BY DEF MigratorInv, EffectsOnce
<1>2. {j \in DOMAIN effects : effects[j] = r} = {i}
  BY <1>1 DEF MigratorInv, EffectsOnce
<1>3. QED BY <1>2, FS_Singleton DEF Times

\* However many processes boot at once, give up waiting for the lock, are cut off,
\* crash between any two steps or lose the answer of a commit: a migration takes
\* effect exactly once, none finds its row taken, and whoever is done has all of
\* its files.
THEOREM EachMigrationOnce == MigratorSpec => []MigratedOnce
BY MigratorStarts, MigratorKeeps, OnceMeansOnce, PTL DEF MigratorSpec

-----------------------------------------------------------------------------
(* The audit log.  Records are numbered as they are made; the predecessor  *)
(* a record names is the one its process made before it in the same life.  *)

LessThan == {ss \in Nat \X Nat : ss[1] < ss[2]}

LEMMA FirstExists ==
  ASSUME NEW S \in SUBSET Nat, S # {} PROVE \E x \in S : \A y \in S : x <= y
<1>1. IsWellFoundedOn(LessThan, Nat)
  BY NatLessThanWellFounded DEF OpToRel, LessThan
<1>2. PICK x \in S : \A y \in S : <<y, x>> \notin LessThan
  BY <1>1, WFMin
<1>3. ASSUME NEW y \in S PROVE x <= y
  <2>1. ~(y < x) /\ x \in Nat /\ y \in Nat
    BY <1>2 DEF LessThan
  <2>2. QED BY <2>1
<1>4. QED BY <1>3

LEMMA LastExists ==
  ASSUME NEW n \in Nat, NEW S \in SUBSET (0..n), S # {}
  PROVE  \E b \in S : \A c \in S : c <= b
<1> DEFINE T == {n - b : b \in S}
<1>1. T \in SUBSET Nat
  OBVIOUS
<1>2. T # {}
  <2>1. PICK b \in S : TRUE
    OBVIOUS
  <2>2. n - b \in T
    OBVIOUS
  <2>3. QED BY <2>2
<1>3. PICK x \in T : \A y \in T : x <= y
  <2> HIDE DEF T
  <2> QED BY <1>1, <1>2, FirstExists
<1>4. PICK b \in S : x = n - b
  OBVIOUS
<1>5. \A c \in S : n - b <= n - c
  BY <1>3, <1>4
<1>6. QED BY <1>4, <1>5

Made      == Cardinality(made)
AnyRecord == [id : Nat, sequence : Nat, previous : Nat, by : Writers, life : Nat]
LogEntry  == [up : BOOLEAN, since : Nat, sequence : Nat, hash : Nat]
LogShape  ==
  /\ log \in [Writers -> LogEntry]
  /\ made \subseteq AnyRecord /\ flying \subseteq made /\ table \subseteq made
  /\ IsFiniteSet(made) /\ lost \in Nat
Numbered ==
  /\ \A r \in made : r.id \in 1..Made /\ r.sequence \in 1..Made /\ r.life < r.id
  /\ \A r, q \in made : r.id = q.id => r = q
  /\ \A p \in Writers : log[p].sequence <= Made

\* The records a process made since it started, and the last of them.
Of(p, life)  == {r \in made : r.by = p /\ r.life = life}
LastInMemory ==
  \A p \in Writers : log[p].up =>
    /\ log[p].since <= Made
    /\ \A r \in Of(p, log[p].since) :
         \E q \in Of(p, log[p].since) : q.id = log[p].hash /\ r.id <= q.id
Chained ==
  \A r, s \in made : r.by = s.by /\ r.life = s.life /\ r.id < s.id =>
    \E q \in Of(s.by, s.life) : q.id = s.previous /\ r.id <= q.id /\ q.id < s.id

AuditInv == LogShape /\ Numbered /\ LastInMemory /\ Chained

LEMMA AuditStarts == AuditInit => AuditInv
<1> SUFFICES ASSUME AuditInit PROVE AuditInv
  OBVIOUS
<1>1. made = {} /\ Made = 0 /\ IsFiniteSet(made)
  BY FS_EmptySet DEF AuditInit, Made
<1>2. QED BY <1>1 DEF AuditInit, AuditInv, LogShape, LogEntry, Numbered, LastInMemory, Chained, Down, Genesis, Of

\* The table has a newest record, if any.
LEMMA NewestExists ==
  ASSUME AuditInv, NEW T \in SUBSET made, T # {}
  PROVE  \E r \in T : \A q \in T : q.sequence <= r.sequence
<1> DEFINE S == {r.sequence : r \in T}
<1>1. Made \in Nat
  BY FS_CardinalityType DEF AuditInv, LogShape, Made
<1>2. S \in SUBSET (0..Made)
  BY <1>1 DEF AuditInv, Numbered
<1>3. S # {}
  <2>1. PICK r \in T : TRUE
    OBVIOUS
  <2>2. r.sequence \in S
    OBVIOUS
  <2>3. QED BY <2>2
<1>4. PICK b \in S : \A c \in S : c <= b
  <2> HIDE DEF S
  <2> QED BY <1>1, <1>2, <1>3, LastExists
<1>5. PICK r \in T : r.sequence = b
  OBVIOUS
<1>6. QED BY <1>4, <1>5

LEMMA NewestIsStored ==
  ASSUME AuditInv, table # {}
  PROVE  Newest \in table /\ \A q \in table : q.sequence <= Newest.sequence
<1>1. \E r \in table : \A q \in table : q.sequence <= r.sequence
  BY NewestExists DEF AuditInv, LogShape
<1>2. QED BY <1>1 DEF Newest

LEMMA AppendKeeps ==
  ASSUME AuditInv, NEW p \in Writers, AppendRecord(p) PROVE AuditInv'
<1> DEFINE s == NewRecord(p)
<1> USE DEF AuditInv, LogShape, LogEntry
<1>1. Made \in Nat /\ s.id = Made + 1 /\ s.life = log[p].since /\ s.by = p /\ s \in AnyRecord
      /\ s.previous = log[p].hash /\ s.sequence = log[p].sequence + 1
  BY FS_CardinalityType DEF NewRecord, Made, Previous, AnyRecord
<1>2. /\ log[p].up /\ made' = made \cup {s} /\ flying' = flying \cup {s} /\ UNCHANGED <<table, lost>>
      /\ log' = [log EXCEPT ![p] = [log[p] EXCEPT !.sequence = s.sequence, !.hash = s.id]]
  BY DEF AppendRecord
<1> HIDE DEF s
<1>3. s \notin made
  BY <1>1 DEF Numbered
<1>4. Made' = Made + 1 /\ IsFiniteSet(made')
  BY <1>2, <1>3, FS_AddElement DEF Made
<1>5. LogShape'
  BY <1>1, <1>2, <1>4 DEF AnyRecord
<1>6. log[p].since <= Made /\ log[p].since \in Nat
  BY <1>2 DEF LastInMemory
<1>7. Numbered'
  <2>1. s.id \in 1..Made' /\ s.sequence \in 1..Made' /\ s.life < s.id
    BY <1>1, <1>4, <1>6 DEF Numbered
  <2>2. \A r \in made : r.id # s.id
    BY <1>1 DEF Numbered
  <2>3. \A q \in Writers : log'[q].sequence <= Made'
    BY <1>1, <1>2, <1>4 DEF Numbered
  <2>4. QED BY <1>1, <1>2, <1>4, <2>1, <2>2, <2>3 DEF Numbered, AnyRecord
<1>8. LastInMemory'
  <2>1. \A q \in Writers \ {p} : log'[q] = log[q]
    BY <1>2
  <2>2. log'[p].up = log[p].up /\ log'[p].since = log[p].since /\ log'[p].hash = s.id
    BY <1>2
  <2>3. s \in Of(p, log[p].since)' /\ \A r \in made' : r.id <= s.id
    BY <1>1, <1>2, <1>4 DEF Of, Numbered
  <2>4. ASSUME NEW q \in Writers \ {p}, log'[q].up
        PROVE  /\ log'[q].since <= Made'
               /\ \A r \in Of(q, log[q].since)' :
                    \E x \in Of(q, log[q].since)' : x.id = log'[q].hash /\ r.id <= x.id
    <3>1. log[q].up /\ log[q].since <= Made /\ log[q].since \in Nat
      BY <2>1, <2>4 DEF LastInMemory
    <3>2. Of(q, log[q].since)' = Of(q, log[q].since)
      BY <1>1, <1>2, <2>1 DEF Of
    <3>3. \A r \in Of(q, log[q].since) :
            \E x \in Of(q, log[q].since) : x.id = log[q].hash /\ r.id <= x.id
      BY <3>1 DEF LastInMemory
    <3>4. QED BY <1>1, <1>4, <2>1, <3>1, <3>2, <3>3
  <2>5. /\ log'[p].since <= Made'
        /\ \A r \in Of(p, log[p].since)' :
             \E x \in Of(p, log[p].since)' : x.id = log'[p].hash /\ r.id <= x.id
    <3>1. log'[p].since <= Made'
      BY <1>1, <1>4, <1>6, <2>2
    <3>2. Of(p, log[p].since)' \subseteq made'
      BY DEF Of
    <3>3. QED BY <2>2, <2>3, <3>1, <3>2
  <2>6. QED BY <2>4, <2>5 DEF LastInMemory
<1>9. Chained'
  <2> SUFFICES ASSUME NEW r \in made', NEW t \in made', r.by = t.by, r.life = t.life, r.id < t.id
               PROVE  \E q \in Of(t.by, t.life)' : q.id = t.previous /\ r.id <= q.id /\ q.id < t.id
    BY DEF Chained
  <2>1. r \in made
    BY <1>1, <1>2 DEF Numbered
  <2>2. CASE t \in made
    BY <1>2, <2>1, <2>2 DEF Chained, Of
  <2>3. CASE t = s
    <3>1. r \in Of(p, log[p].since)
      BY <1>1, <2>1, <2>3 DEF Of
    <3>2. PICK q \in Of(p, log[p].since) : q.id = log[p].hash /\ r.id <= q.id
      BY <1>2, <3>1 DEF LastInMemory
    <3>3. q \in made /\ q.id <= Made /\ q.id \in Nat
      BY <1>1 DEF Of, Numbered
    <3>4. QED BY <1>1, <1>2, <2>3, <3>2, <3>3 DEF Of
  <2>4. QED BY <1>2, <2>2, <2>3
<1>10. QED BY <1>5, <1>7, <1>8, <1>9

\* A process that starts or stops: nothing is made, nothing of it is lost.
LEMMA EntryKeeps ==
  ASSUME AuditInv, NEW p \in Writers,
         NEW entry \in LogEntry,
         log' = [log EXCEPT ![p] = entry], made' = made, table' = table, flying' \subseteq made,
         lost' \in Nat, entry.sequence <= Made,
         entry.up => entry.since <= Made /\ Of(p, entry.since) = {}
  PROVE  AuditInv'
<1> USE DEF AuditInv
<1>1. LogShape' /\ Made' = Made
  BY DEF LogShape, Made
<1>2. Numbered' /\ Chained'
  BY <1>1 DEF LogShape, Numbered, Chained, Of
<1>3. \A q, life : Of(q, life)' = Of(q, life)
  BY DEF Of
<1>4. LastInMemory'
  BY <1>1, <1>3 DEF LogShape, LastInMemory
<1>5. QED BY <1>1, <1>2, <1>4

LEMMA AuditKeeps == AuditInv /\ [AuditNext]_auditVars => AuditInv'
<1> SUFFICES ASSUME AuditInv, [AuditNext]_auditVars PROVE AuditInv'
  OBVIOUS
<1>1. ASSUME UNCHANGED <<log, made>>, flying' \subseteq made, table' \subseteq made, lost' \in Nat
      PROVE  AuditInv'
  BY <1>1 DEF AuditInv, LogShape, Numbered, LastInMemory, Chained, Of, Made
<1>3. Made \in Nat
  BY FS_CardinalityType DEF AuditInv, LogShape, Made
<1>4. ASSUME NEW p \in Writers, Resume(p) PROVE AuditInv'
  <2> DEFINE entry == [up |-> TRUE, since |-> Cardinality(made),
                       sequence |-> IF table = {} THEN 0 ELSE Newest.sequence,
                       hash |-> IF table = {} THEN Genesis ELSE Newest.id]
  <2>1. log' = [log EXCEPT ![p] = entry] /\ UNCHANGED <<made, flying, table, lost>>
    BY <1>4 DEF Resume
  <2>2. entry.sequence \in Nat /\ entry.sequence <= Made /\ entry.hash \in Nat
    <3>1. CASE table = {}
      BY <1>3, <3>1 DEF Genesis
    <3>2. CASE table # {}
      <4>1. Newest \in made
        BY <3>2, NewestIsStored DEF AuditInv, LogShape
      <4>2. Newest.sequence \in 1..Made /\ Newest.id \in 1..Made
        BY <4>1 DEF AuditInv, Numbered
      <4>3. QED BY <1>3, <3>2, <4>2
    <3>3. QED BY <3>1, <3>2
  <2>3. entry \in LogEntry /\ entry.since = Made
    BY <1>3, <2>2 DEF Made, LogEntry
  <2>4. Of(p, Made) = {}
    BY <1>3 DEF AuditInv, Of, Numbered
  <2> HIDE DEF entry
  <2>5. flying' \subseteq made /\ lost' \in Nat
    BY <2>1 DEF AuditInv, LogShape
  <2>6. made' = made /\ table' = table /\ log' = [log EXCEPT ![p] = entry]
    BY <2>1
  <2>7. entry.since <= Made /\ Of(p, entry.since) = {}
    BY <1>3, <2>3, <2>4
  <2>8. QED BY <2>2, <2>3, <2>5, <2>6, <2>7, EntryKeeps
<1>5. ASSUME NEW p \in Writers, StopCleanly(p) \/ DieSuddenly(p) PROVE AuditInv'
  <2>1. Down \in LogEntry /\ ~Down.up /\ Down.sequence = 0
    BY DEF Down, Genesis, LogEntry
  <2>2. log' = [log EXCEPT ![p] = Down] /\ UNCHANGED <<made, table>>
    BY <1>5 DEF StopCleanly, DieSuddenly
  <2>3. flying' \subseteq made /\ lost' \in Nat
    BY <1>5 DEF StopCleanly, DieSuddenly, Loses, AuditInv, LogShape
  <2>4. made' = made /\ table' = table /\ Down.sequence <= Made
    BY <1>3, <2>1, <2>2
  <2>5. QED BY <2>1, <2>2, <2>3, <2>4, EntryKeeps
<1>6. ASSUME NEW r \in flying, InsertLands(r) \/ InsertFails(r) PROVE AuditInv'
  BY <1>1, <1>6 DEF InsertLands, InsertFails, Loses, AuditInv, LogShape
<1>7. CASE UNCHANGED auditVars
  BY <1>1, <1>7 DEF auditVars, AuditInv, LogShape
<1>8. QED BY <1>4, <1>5, <1>6, <1>7, AppendKeeps DEF AuditNext

\* The predecessor by number is well defined.
LEMMA PredecessorIsStored ==
  ASSUME AuditInv, NEW r \in table, Before(r) # {}
  PROVE  LET q == CHOOSE q \in Before(r) : \A x \in Before(r) : x.sequence <= q.sequence
         IN  q \in Before(r) /\ \A x \in Before(r) : x.sequence <= q.sequence
<1>1. Before(r) \in SUBSET made
  BY DEF Before, AuditInv, LogShape
<1>2. \E q \in Before(r) : \A x \in Before(r) : x.sequence <= q.sequence
  BY <1>1, NewestExists
<1>3. QED BY <1>2

\* If the table verified, the first stored record above a missing one of its
\* process would name a record that is stored, and is the missing one.
LEMMA LossIsSeen == AuditInv => LossShows
<1> SUFFICES ASSUME AuditInv, Verifies, NEW r \in Missing PROVE FALSE
  BY DEF LossShows
<1> DEFINE Above == {s \in table : s.by = r.by /\ s.life = r.life /\ s.id > r.id}
           Ids   == {s.id : s \in Above}
<1>1. r \in made /\ r \notin table
  BY DEF Missing
<1>2. Ids \in SUBSET Nat
  BY DEF AuditInv, LogShape, AnyRecord
<1>3. Ids # {}
  <2>1. PICK s \in table : s.by = r.by /\ s.life = r.life /\ s.id > r.id
    BY DEF Missing
  <2>2. s.id \in Ids
    BY <2>1
  <2>3. QED BY <2>2
<1>4. PICK x \in Ids : \A y \in Ids : x <= y
  <2> HIDE DEF Ids
  <2> QED BY <1>2, <1>3, FirstExists
<1>5. PICK s \in Above : s.id = x
  OBVIOUS
<1>6. s \in made /\ s \in table /\ r.by = s.by /\ r.life = s.life /\ r.id < s.id
  BY <1>1 DEF AuditInv, LogShape, AnyRecord
<1>7. PICK q \in Of(s.by, s.life) : q.id = s.previous /\ r.id <= q.id /\ q.id < s.id
  BY <1>1, <1>6 DEF AuditInv, Chained
<1>8. q \in made /\ q.by = r.by /\ q.life = r.life /\ q.id \in Nat \ {0} /\ r.id \in Nat
  BY <1>1, <1>6 DEF Of, AuditInv, LogShape, AnyRecord, Numbered
<1>9. q \in table
  <2>1. Linked(s)
    BY <1>6 DEF Verifies
  <2>2. Before(s) # {}
    BY <1>7, <1>8, <2>1 DEF Linked, Genesis
  <2> DEFINE b == CHOOSE b \in Before(s) : \A c \in Before(s) : c.sequence <= b.sequence
  <2>3. b \in Before(s)
    BY <1>6, <2>2, PredecessorIsStored
  <2>4. b.id = s.previous
    BY <2>1, <2>2 DEF Linked
  <2> HIDE DEF b
  <2>5. b \in table /\ b \in made
    BY <2>3 DEF Before, AuditInv, LogShape
  <2>6. b = q
    BY <1>7, <1>8, <2>4, <2>5 DEF AuditInv, Numbered
  <2>7. QED BY <2>5, <2>6
<1>10. CASE q.id = r.id
  BY <1>1, <1>8, <1>9, <1>10 DEF AuditInv, Numbered
<1>11. CASE q.id > r.id
  <2>1. q.id \in Ids
    BY <1>8, <1>9, <1>11
  <2>2. x <= q.id /\ x = s.id /\ s.id \in Nat
    BY <1>2, <1>4, <1>5, <2>1
  <2>3. QED BY <1>7, <1>8, <2>2
<1>12. QED BY <1>7, <1>8, <1>10, <1>11

\* One process that loses nothing: the records are one chain, stored or on
\* their way, and a process that starts finds its end.
AtTheEnd(p) == (\E r \in made : r.by # p) \/ (log[p].sequence = Made /\ log[p].hash = Made)
NoGap       == \A k \in 1..Made : \E r \in made : r.id = k
SoloInv ==
  Alone /\ lost = 0 =>
    /\ \A r \in made : r.sequence = r.id /\ r.previous = r.id - 1
    /\ made = table \cup flying
    /\ \A r \in flying : log[r.by].up
    /\ \A p \in Writers : log[p].up => AtTheEnd(p)

ChainInv == AuditInv /\ NoGap /\ SoloInv

LEMMA ChainStarts == AuditInit => ChainInv
<1> SUFFICES ASSUME AuditInit PROVE ChainInv
  OBVIOUS
<1>1. made = {} /\ Made = 0
  BY FS_EmptySet DEF AuditInit, Made
<1>2. QED BY <1>1, AuditStarts DEF AuditInit, ChainInv, NoGap, SoloInv, Down

LEMMA NoGapKeeps == AuditInv /\ NoGap /\ [AuditNext]_auditVars => NoGap'
<1> SUFFICES ASSUME AuditInv, NoGap, [AuditNext]_auditVars PROVE NoGap'
  OBVIOUS
<1>1. CASE made' = made
  BY <1>1 DEF NoGap, Made
<1>2. ASSUME NEW p \in Writers, AppendRecord(p) PROVE NoGap'
  <2> DEFINE s == NewRecord(p)
  <2>1. made' = made \cup {s} /\ s.id = Made + 1 /\ Made \in Nat /\ IsFiniteSet(made)
    BY <1>2, FS_CardinalityType DEF AppendRecord, NewRecord, Made, AuditInv, LogShape
  <2> HIDE DEF s
  <2>2. Made' = Made + 1
    <3>1. s \notin made
      BY <2>1 DEF AuditInv, Numbered
    <3>2. QED BY <2>1, <3>1, FS_AddElement DEF Made
  <2>3. QED BY <2>1, <2>2 DEF NoGap
<1>3. QED
  BY <1>1, <1>2 DEF AuditNext, auditVars, Resume, StopCleanly, DieSuddenly, InsertLands, InsertFails

LEMMA SoloKeeps == ChainInv /\ [AuditNext]_auditVars => SoloInv'
<1> SUFFICES ASSUME ChainInv, [AuditNext]_auditVars, Alone', lost' = 0 PROVE SoloInv'
  BY DEF SoloInv
<1>1. lost \in Nat
  BY DEF ChainInv, AuditInv, LogShape
<1>2. made \subseteq made' /\ lost = 0 /\ ~(\E p \in Writers : DieSuddenly(p))
      /\ ~(\E r \in flying : InsertFails(r))
  <2>1. ASSUME Loses PROVE FALSE
    BY <1>1, <2>1 DEF Loses
  <2>2. made \subseteq made' /\ lost = 0
    BY <2>1 DEF AuditNext, auditVars, Resume, AppendRecord, StopCleanly, DieSuddenly, InsertLands,
                InsertFails
  <2>3. QED BY <2>1, <2>2 DEF DieSuddenly, InsertFails
<1>11. Alone
  BY <1>2 DEF Alone
<1>3. /\ \A r \in made : r.sequence = r.id /\ r.previous = r.id - 1
      /\ made = table \cup flying
      /\ \A r \in flying : log[r.by].up
      /\ \A p \in Writers : log[p].up => AtTheEnd(p)
  BY <1>2, <1>11 DEF ChainInv, SoloInv
<1>4. AuditInv /\ NoGap /\ LogShape /\ Numbered /\ Made \in Nat
  BY FS_CardinalityType DEF ChainInv, AuditInv, LogShape, Made
<1>5. ASSUME NEW p \in Writers, AppendRecord(p) PROVE SoloInv'
  <2> DEFINE s == NewRecord(p)
  <2>1. /\ s.id = Made + 1 /\ s.by = p /\ s.previous = log[p].hash
        /\ s.sequence = log[p].sequence + 1
    BY DEF NewRecord, Made, Previous
  <2>2. /\ log[p].up /\ made' = made \cup {s} /\ flying' = flying \cup {s} /\ table' = table
        /\ log' = [log EXCEPT ![p] = [log[p] EXCEPT !.sequence = s.sequence, !.hash = s.id]]
    BY <1>5 DEF AppendRecord
  <2> HIDE DEF s
  <2>3. Made' = Made + 1
    <3>1. s \notin made
      BY <1>4, <2>1 DEF Numbered
    <3>2. QED BY <1>4, <2>2, <3>1, FS_AddElement DEF Made, LogShape
  <2>4. \A r \in made : r.by = p
    BY <2>1, <2>2 DEF Alone
  <2>5. log[p].sequence = Made /\ log[p].hash = Made
    BY <1>3, <2>2, <2>4 DEF AtTheEnd
  <2>6. \A r \in made' : r.sequence = r.id /\ r.previous = r.id - 1
    BY <1>3, <1>4, <2>1, <2>2, <2>5
  <2>7. made' = table' \cup flying'
    BY <1>3, <2>2
  <2>8. /\ \A q \in Writers : log'[q].up = log[q].up
        /\ log'[p].sequence = s.sequence /\ log'[p].hash = s.id
    BY <1>4, <2>2 DEF LogShape, LogEntry
  <2>9. \A r \in flying' : log'[r.by].up
    <3>1. \A r \in flying : r.by \in Writers
      BY <1>4 DEF LogShape, AnyRecord
    <3>2. QED BY <1>3, <2>1, <2>2, <2>8, <3>1
  <2>10. ASSUME NEW q \in Writers, log'[q].up PROVE AtTheEnd(q)'
    <3>1. CASE q = p
      <4>1. log'[p].sequence = Made' /\ log'[p].hash = Made'
        <5>1. log'[p].sequence = s.sequence /\ log'[p].hash = s.id
          BY <2>8
        <5>2. s.sequence = Made + 1 /\ s.id = Made + 1
          BY <2>1, <2>5
        <5>3. QED BY <2>3, <5>1, <5>2
      <4>2. QED BY <3>1, <4>1 DEF AtTheEnd
    <3>2. CASE q # p
      BY <2>1, <2>2, <3>2 DEF AtTheEnd
    <3>3. QED BY <3>1, <3>2
  <2>11. QED BY <2>6, <2>7, <2>9, <2>10 DEF SoloInv
<1>6. ASSUME NEW p \in Writers, Resume(p) PROVE SoloInv'
  <2> DEFINE entry == [up |-> TRUE, since |-> Cardinality(made),
                       sequence |-> IF table = {} THEN 0 ELSE Newest.sequence,
                       hash |-> IF table = {} THEN Genesis ELSE Newest.id]
  <2>1. ~log[p].up /\ log' = [log EXCEPT ![p] = entry] /\ UNCHANGED <<made, flying, table, lost>>
    BY <1>6 DEF Resume
  <2>2. ASSUME \A r \in made : r.by = p PROVE entry.sequence = Made /\ entry.hash = Made
    <3>1. flying = {} /\ table = made
      BY <1>3, <1>4, <2>1, <2>2 DEF LogShape
    <3>2. CASE made = {}
      BY <3>1, <3>2, FS_EmptySet DEF Made, Genesis
    <3>3. CASE made # {}
      <4>1. Newest \in made /\ \A q \in made : q.sequence <= Newest.sequence
        BY <1>4, <3>1, <3>3, NewestIsStored
      <4>2. Made \in 1..Made
        BY <1>4, <3>3, <4>1 DEF Numbered
      <4>3. PICK r \in made : r.id = Made
        BY <4>2 DEF NoGap, ChainInv
      <4>4. Newest.sequence = Newest.id /\ r.sequence = Made /\ Newest.id \in 1..Made
        BY <1>3, <1>4, <4>1, <4>3 DEF Numbered
      <4>5. Newest.sequence = Made /\ Newest.id = Made
        BY <1>4, <4>1, <4>3, <4>4
      <4>6. QED BY <3>1, <3>3, <4>5
    <3>4. QED BY <3>2, <3>3
  <2>3. entry.up
    OBVIOUS
  <2> HIDE DEF entry
  <2>4. \A q \in Writers : log'[q] = IF q = p THEN entry ELSE log[q]
    BY <1>4, <2>1 DEF LogShape
  <2>5. \A r \in flying' : log'[r.by].up
    <3>1. \A r \in flying : r.by \in Writers
      BY <1>4 DEF LogShape, AnyRecord
    <3>2. QED BY <1>3, <2>1, <2>3, <2>4, <3>1
  <2>6. ASSUME NEW q \in Writers, log'[q].up PROVE AtTheEnd(q)'
    <3>1. Made' = Made
      BY <2>1 DEF Made
    <3>2. QED BY <1>3, <2>1, <2>2, <2>4, <2>6, <3>1 DEF AtTheEnd
  <2>7. QED BY <1>3, <2>1, <2>5, <2>6 DEF SoloInv
<1>7. ASSUME NEW p \in Writers, StopCleanly(p) PROVE SoloInv'
  <2>1. /\ log' = [log EXCEPT ![p] = Down] /\ UNCHANGED <<made, flying, table, lost>>
        /\ \A r \in flying : r.by # p
    BY <1>7 DEF StopCleanly
  <2>2. \A q \in Writers : log'[q] = IF q = p THEN Down ELSE log[q]
    BY <1>4, <2>1 DEF LogShape
  <2>3. \A r \in flying' : log'[r.by].up
    <3>1. \A r \in flying : r.by \in Writers
      BY <1>4 DEF LogShape, AnyRecord
    <3>2. QED BY <1>3, <2>1, <2>2, <3>1
  <2>4. ASSUME NEW q \in Writers, log'[q].up PROVE AtTheEnd(q)'
    <3>1. Made' = Made /\ q # p
      BY <2>1, <2>2, <2>4 DEF Made, Down
    <3>2. QED BY <1>3, <2>1, <2>2, <2>4, <3>1 DEF AtTheEnd
  <2>5. QED BY <1>3, <2>1, <2>3, <2>4 DEF SoloInv
<1>8. ASSUME NEW r \in flying, InsertLands(r) PROVE SoloInv'
  <2>1. flying' = flying \ {r} /\ table' = (IF Taken(r) THEN table ELSE table \cup {r})
        /\ UNCHANGED <<log, made, lost>>
    BY <1>8 DEF InsertLands
  <2>2. Taken(r) => r \in table
    <3> SUFFICES ASSUME NEW q \in table, q.sequence = r.sequence PROVE r \in table
      BY DEF Taken
    <3>1. q \in made /\ r \in made
      BY <1>4 DEF LogShape
    <3>2. q.id = r.id
      BY <1>3, <3>1
    <3>3. q = r
      BY <1>4, <3>1, <3>2 DEF Numbered
    <3>4. QED BY <3>3
  <2>3. made' = table' \cup flying'
    BY <1>3, <2>1, <2>2
  <2>4. QED BY <1>3, <2>1, <2>3 DEF SoloInv, AtTheEnd, Made
<1>9. CASE UNCHANGED auditVars
  BY <1>3, <1>9 DEF auditVars, SoloInv, AtTheEnd, Made
<1>10. QED BY <1>2, <1>5, <1>6, <1>7, <1>8, <1>9 DEF AuditNext

LEMMA SoloVerifies == ChainInv => OneChain
<1> SUFFICES ASSUME ChainInv, Alone, lost = 0, flying = {}, NEW r \in table PROVE Linked(r)
  BY DEF OneChain, Verifies
<1>1. table = made /\ \A q \in made : q.sequence = q.id /\ q.previous = q.id - 1
  BY DEF ChainInv, SoloInv
<1>2. r.id \in 1..Made /\ Made \in Nat /\ \A q \in made : q.id \in 1..Made
  BY <1>1, FS_CardinalityType DEF ChainInv, AuditInv, LogShape, Numbered, Made
<1>3. CASE r.id = 1
  <2>1. Before(r) = {}
    BY <1>1, <1>2, <1>3 DEF Before
  <2>2. QED BY <1>1, <1>3, <2>1 DEF Linked, Genesis
<1>4. CASE r.id # 1
  <2>1. PICK q \in made : q.id = r.id - 1
    BY <1>2, <1>4 DEF ChainInv, NoGap
  <2>2. q \in Before(r)
    BY <1>1, <1>2, <2>1 DEF Before
  <2> DEFINE b == CHOOSE b \in Before(r) : \A x \in Before(r) : x.sequence <= b.sequence
  <2>3. b \in Before(r) /\ \A x \in Before(r) : x.sequence <= b.sequence
    BY <2>2, PredecessorIsStored DEF ChainInv
  <2>4. Linked(r) <=> r.previous = b.id
    BY <2>2 DEF Linked
  <2> HIDE DEF b
  <2>5. b.id = r.id - 1
    BY <1>1, <1>2, <2>1, <2>2, <2>3 DEF Before
  <2>6. QED BY <1>1, <2>4, <2>5
<1>5. QED BY <1>3, <1>4

\* Whatever processes do to each other and whatever is lost, a record missing
\* below a stored one of its process shows; a process alone that loses nothing
\* keeps a chain that verifies, across its restarts.
THEOREM LossIsEvident == AuditSpec => []AuditIsEvident
<1>1. ChainInv /\ [AuditNext]_auditVars => ChainInv'
  BY AuditKeeps, NoGapKeeps, SoloKeeps DEF ChainInv
<1>2. ChainInv => AuditIsEvident
  BY LossIsSeen, SoloVerifies DEF ChainInv, AuditIsEvident
<1>3. QED BY <1>1, <1>2, ChainStarts, PTL DEF AuditSpec

-----------------------------------------------------------------------------
(* The lease.  An invocation that works owns a row that expires after its  *)
(* own deadline; a statement in flight was sampled between the start of    *)
(* its sender and now.                                                     *)

LEMMA TypeInit == Init => TypeOK
BY DurationsAssumption, NoOwnerAssumption DEF Init, TypeOK, Stages, Statement, NoStmt

LEMMA TypeStep == TypeOK /\ [Next]_vars => TypeOK'
<1> USE DurationsAssumption, NoOwnerAssumption
<1> SUFFICES ASSUME TypeOK, [Next]_vars PROVE TypeOK'
  OBVIOUS
<1> USE DEF TypeOK, Stages, Statement, NoStmt
<1>1. CASE Elapse
  BY <1>1 DEF Elapse
<1>2. ASSUME NEW i \in Invocations, Step(i) PROVE TypeOK'
  <2>0. Now(i) \in Nat
    BY DEF Now
  <2>1. CASE Invoke(i)
    BY <2>1 DEF Invoke, Move
  <2>2. CASE Kill(i)
    BY <2>2 DEF Kill, Move
  <2>3. CASE AcquireSends(i)
    BY <2>3, <2>0 DEF AcquireSends, Move, Sends
  <2>4. CASE AcquireLands(i)
    BY <2>4 DEF AcquireLands, Landed, Until
  <2>5. CASE AcquireThrows(i)
    BY <2>5 DEF AcquireThrows, Move
  <2>6. CASE RenewSends(i)
    BY <2>6, <2>0 DEF RenewSends, Sends
  <2>7. CASE RenewLands(i)
    BY <2>7 DEF RenewLands, Landed, Extended
  <2>8. CASE ReleaseSends(i)
    BY <2>8, <2>0 DEF ReleaseSends, Move, Sends
  <2>9. CASE ReleaseLands(i)
    BY <2>9 DEF ReleaseLands, Landed, Ended
  <2>10. CASE Lost(i)
    BY <2>10 DEF Lost, Landed
  <2>11. QED BY <1>2, <2>1, <2>2, <2>3, <2>4, <2>5, <2>6, <2>7, <2>8, <2>9, <2>10 DEF Step
<1>3. CASE UNCHANGED vars
  BY <1>3 DEF vars
<1>4. QED BY <1>1, <1>2, <1>3 DEF Next

\* Every variable keeps its type, whatever the constants are.
THEOREM TypeCorrect == Spec => []TypeOK
BY TypeInit, TypeStep, PTL DEF Spec

\* A working invocation's lease cannot be taken: no clock has reached its end.
LEMMA LeaseInForce ==
  ASSUME TypeOK, TakenInTurns, LeaseOutlastsWork,
         NEW i \in Invocations, at[i] = "working", NEW j \in Invocations
  PROVE  ~Free(stmt[j].now)
<1>1. lease.owner = i /\ lease.expires >= born[i] + skew[i] + TTL
  BY DEF TakenInTurns, WorkerHolds
<1>2. clock <= born[i] + MaxDuration
  BY DEF TakenInTurns, WithinLimits, Deadline, Running
<1>3. stmt[j].now <= clock + skew[j]
  BY DEF TakenInTurns, Sequential, Now
<1>4. /\ clock \in Nat /\ born[i] \in Nat /\ skew[i] \in 0..Skew /\ skew[j] \in 0..Skew
      /\ lease.expires \in Nat /\ stmt[j].now \in Nat
  BY DEF TypeOK, Statement
<1>5. stmt[j].now < lease.expires
  BY <1>1, <1>2, <1>3, <1>4, DurationsAssumption DEF LeaseOutlastsWork
<1>6. QED BY <1>1, <1>4, <1>5, NoOwnerAssumption DEF Free

\* TakenInTurns is inductive.
LEMMA TurnsInit == Init => TakenInTurns
BY DurationsAssumption
   DEF Init, TakenInTurns, WorkerHolds, WithinLimits, Sequential, NoStmt, Now, Running

LEMMA TurnsStep ==
  ASSUME TypeOK, TakenInTurns, LeaseOutlastsWork, [Next]_vars
  PROVE  TakenInTurns'
<1> USE DurationsAssumption
<1>t. TypeOK'
  BY TypeStep
<1>1. CASE Elapse
  <2>1. WorkerHolds'
    BY <1>1 DEF Elapse, TakenInTurns, WorkerHolds
  <2>2. WithinLimits'
    BY <1>1 DEF Elapse, TakenInTurns, WithinLimits, TypeOK, Deadline
  <2>3. Sequential'
    BY <1>1 DEF Elapse, TakenInTurns, Sequential, TypeOK, Statement, Now
  <2>4. QED BY <2>1, <2>2, <2>3 DEF TakenInTurns
<1>2. ASSUME NEW i \in Invocations, Step(i) PROVE TakenInTurns'
  <2>1. CASE Invoke(i)
    <3>1. WorkerHolds'
      BY <2>1 DEF Invoke, Move, TakenInTurns, WorkerHolds, TypeOK
    <3>2. WithinLimits'
      BY <2>1 DEF Invoke, Move, TakenInTurns, WithinLimits, TypeOK, Deadline, Running
    <3>3. Sequential'
      BY <2>1 DEF Invoke, Move, TakenInTurns, Sequential, TypeOK, Now, Statement
    <3>4. QED BY <3>1, <3>2, <3>3 DEF TakenInTurns
  <2>2. CASE Kill(i) \/ AcquireThrows(i)
    <3>1. WorkerHolds'
      BY <2>2 DEF Kill, AcquireThrows, Move, TakenInTurns, WorkerHolds, TypeOK
    <3>2. WithinLimits'
      BY <2>2 DEF Kill, AcquireThrows, Move, TakenInTurns, WithinLimits, TypeOK, Deadline, Running
    <3>3. Sequential'
      BY <2>2 DEF Kill, AcquireThrows, Move, TakenInTurns, Sequential, TypeOK, Now, Statement
    <3>4. QED BY <3>1, <3>2, <3>3 DEF TakenInTurns
  <2>3. CASE AcquireSends(i)
    <3>1. WorkerHolds'
      BY <2>3 DEF AcquireSends, Move, Sends, TakenInTurns, WorkerHolds, TypeOK
    <3>2. WithinLimits'
      BY <2>3 DEF AcquireSends, Move, Sends, TakenInTurns, WithinLimits, TypeOK, Deadline, Running
    <3>3. Sequential'
      BY <2>3 DEF AcquireSends, Move, Sends, TakenInTurns, Sequential, WithinLimits, TypeOK, Now,
                  Statement
    <3>4. QED BY <3>1, <3>2, <3>3 DEF TakenInTurns
  <2>4. CASE AcquireLands(i)
    <3>1. Free(stmt[i].now) => \A j \in Invocations : at[j] # "working"
      BY LeaseInForce
    <3>2. stmt[i].now \in Nat /\ stmt[i].now >= born[i] + skew[i]
      BY <2>4 DEF AcquireLands, TakenInTurns, Sequential, TypeOK, Statement
    <3>3. WorkerHolds'
      BY <2>4, <3>1, <3>2 DEF AcquireLands, Landed, Until, TakenInTurns, WorkerHolds, TypeOK
    <3>4. WithinLimits'
      BY <2>4 DEF AcquireLands, Landed, TakenInTurns, WithinLimits, TypeOK, Deadline, Running
    <3>5. Sequential'
      BY <2>4 DEF AcquireLands, Landed, NoStmt, TakenInTurns, Sequential, TypeOK, Now, Statement
    <3>6. QED BY <3>3, <3>4, <3>5 DEF TakenInTurns
  <2>5. CASE RenewSends(i)
    <3>1. WorkerHolds' /\ WithinLimits'
      BY <2>5 DEF RenewSends, Sends, TakenInTurns, WorkerHolds, WithinLimits, Deadline
    <3>2. Sequential'
      BY <2>5 DEF RenewSends, Sends, TakenInTurns, Sequential, WithinLimits, TypeOK, Now,
                  Statement
    <3>3. QED BY <3>1, <3>2 DEF TakenInTurns
  <2>6. CASE RenewLands(i)
    <3>1. stmt[i].now \in Nat /\ stmt[i].now >= born[i] + skew[i]
      BY <2>6 DEF RenewLands, TakenInTurns, Sequential, TypeOK, Statement
    <3>2. WorkerHolds'
      BY <2>6, <3>1 DEF RenewLands, Landed, Extended, TakenInTurns, WorkerHolds, TypeOK
    <3>3. WithinLimits'
      BY <2>6 DEF RenewLands, TakenInTurns, WithinLimits, Deadline
    <3>4. Sequential'
      BY <2>6 DEF RenewLands, Landed, NoStmt, TakenInTurns, Sequential, TypeOK, Now, Statement
    <3>5. QED BY <3>2, <3>3, <3>4 DEF TakenInTurns
  <2>7. CASE ReleaseSends(i)
    <3>1. WorkerHolds'
      BY <2>7 DEF ReleaseSends, Move, Sends, TakenInTurns, WorkerHolds, TypeOK
    <3>2. WithinLimits'
      BY <2>7 DEF ReleaseSends, Move, Sends, TakenInTurns, WithinLimits, TypeOK, Deadline, Running
    <3>3. Sequential'
      BY <2>7 DEF ReleaseSends, Move, Sends, TakenInTurns, Sequential, TypeOK, Now, Statement
    <3>4. QED BY <3>1, <3>2, <3>3 DEF TakenInTurns
  <2>8. CASE ReleaseLands(i)
    <3>1. at[i] # "working"
      BY <2>8 DEF ReleaseLands, TakenInTurns, Sequential
    <3>2. WorkerHolds'
      BY <2>8, <3>1 DEF ReleaseLands, Landed, Own, TakenInTurns, WorkerHolds, TypeOK
    <3>3. WithinLimits'
      BY <2>8 DEF ReleaseLands, Landed, TakenInTurns, WithinLimits, Sequential, TypeOK, Deadline,
                  Running
    <3>4. Sequential'
      BY <2>8 DEF ReleaseLands, Landed, NoStmt, TakenInTurns, Sequential, TypeOK, Now, Statement
    <3>5. QED BY <3>2, <3>3, <3>4 DEF TakenInTurns
  <2>9. CASE Lost(i)
    <3>1. WorkerHolds' /\ WithinLimits'
      BY <2>9 DEF Lost, TakenInTurns, WorkerHolds, WithinLimits, Deadline
    <3>2. Sequential'
      BY <2>9 DEF Lost, Landed, NoStmt, TakenInTurns, Sequential, TypeOK, Now, Statement
    <3>3. QED BY <3>1, <3>2 DEF TakenInTurns
  <2>10. QED BY <1>2, <2>1, <2>2, <2>3, <2>4, <2>5, <2>6, <2>7, <2>8, <2>9 DEF Step
<1>3. CASE UNCHANGED vars
  BY <1>3 DEF vars, TakenInTurns, WorkerHolds, WithinLimits, Sequential, Deadline, Now
<1>4. QED BY <1>1, <1>2, <1>3 DEF Next

LEMMA TurnsExclude == TakenInTurns => NoTwoWorkers
BY DEF TakenInTurns, WorkerHolds, NoTwoWorkers

\* Under the lease two invocations never work at once, for every ttl that is
\* longer than the platform lets an invocation run plus the clocks' spread.
THEOREM OneAtATime ==
  ASSUME LeaseOutlastsWork PROVE Spec => []NoTwoWorkers
<1>1. Init => TypeOK /\ TakenInTurns
  BY TypeInit, TurnsInit
<1>2. TypeOK /\ TakenInTurns /\ [Next]_vars => TypeOK' /\ TakenInTurns'
  BY TypeStep, TurnsStep
<1>3. QED BY <1>1, <1>2, TurnsExclude, PTL DEF Spec

\* A statement was sampled before it lands.
Sampled == \A i \in Invocations : stmt[i].now <= Now(i)

LEMMA SampledStep ==
  ASSUME TypeOK, Sampled, [Next]_vars PROVE Sampled'
<1> USE DurationsAssumption DEF TypeOK, Statement, NoStmt, Sampled, Now
<1>1. CASE Elapse
  BY <1>1 DEF Elapse
<1>2. ASSUME NEW i \in Invocations, Step(i) PROVE Sampled'
  <2>1. CASE Invoke(i) \/ Kill(i) \/ AcquireThrows(i)
    BY <2>1 DEF Invoke, Kill, AcquireThrows
  <2>2. CASE AcquireSends(i) \/ RenewSends(i) \/ ReleaseSends(i)
    BY <2>2 DEF AcquireSends, RenewSends, ReleaseSends, Sends
  <2>3. CASE AcquireLands(i) \/ RenewLands(i) \/ ReleaseLands(i) \/ Lost(i)
    <3>1. stmt' = [stmt EXCEPT ![i] = NoStmt] /\ clock' = clock /\ skew' = skew
      BY <2>3 DEF AcquireLands, RenewLands, ReleaseLands, Lost, Landed
    <3>2. QED BY <3>1
  <2>4. QED BY <1>2, <2>1, <2>2, <2>3 DEF Step
<1>3. CASE UNCHANGED vars
  BY <1>3 DEF vars
<1>4. QED BY <1>1, <1>2, <1>3 DEF Next

LEMMA BlockedStep ==
  ASSUME TypeOK, Sampled, NeverBlockedLonger, [Next]_vars PROVE NeverBlockedLonger'
<1> USE DurationsAssumption DEF TypeOK, Statement, NeverBlockedLonger
<1>1. CASE Elapse
  BY <1>1 DEF Elapse
<1>2. ASSUME NEW i \in Invocations, Step(i) PROVE NeverBlockedLonger'
  <2>1. stmt[i].now <= clock + Skew /\ stmt[i].now \in Nat /\ clock \in Nat
    BY DEF Sampled, Now
  <2>2. CASE AcquireLands(i)
    BY <2>1, <2>2 DEF AcquireLands, Until
  <2>3. CASE RenewLands(i)
    BY <2>1, <2>3 DEF RenewLands, Extended
  <2>4. CASE ReleaseLands(i)
    BY <2>1, <2>4 DEF ReleaseLands, Ended
  <2>5. CASE Invoke(i) \/ Kill(i) \/ AcquireThrows(i) \/ AcquireSends(i) \/ RenewSends(i)
             \/ ReleaseSends(i) \/ Lost(i)
    BY <2>5 DEF Invoke, Kill, AcquireThrows, AcquireSends, RenewSends, ReleaseSends, Lost
  <2>6. QED BY <1>2, <2>2, <2>3, <2>4, <2>5 DEF Step
<1>3. CASE UNCHANGED vars
  BY <1>3 DEF vars
<1>4. QED BY <1>1, <1>2, <1>3 DEF Next

\* A dead invocation's lease blocks the others for its ttl and no longer.
THEOREM BlockedForTTL == Spec => []NeverBlockedLonger
<1>1. Init => TypeOK /\ Sampled /\ NeverBlockedLonger
  BY TypeInit, DurationsAssumption DEF Init, Sampled, NeverBlockedLonger, NoStmt, Now
<1>2. TypeOK /\ Sampled /\ NeverBlockedLonger /\ [Next]_vars
      => TypeOK' /\ Sampled' /\ NeverBlockedLonger'
  BY TypeStep, SampledStep, BlockedStep
<1>3. QED BY <1>1, <1>2, PTL DEF Spec
=============================================================================
