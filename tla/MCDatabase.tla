----------------------------- MODULE MCDatabase -----------------------------
(* What processes that know nothing of each other do to one database: the   *)
(* tick lease, the migrations at boot, the audit log and the model table.   *)
(* The four share no row, so that each scenario moves one of them; the      *)
(* fifth moves the model registry, which is in memory.                      *)
EXTENDS TickLease, Migrator, AuditChain, ModelRegistry, TLC

VARIABLE scenario
mcvars == <<vars, migratorVars, auditVars, modelVars, scenario>>

\* Three builds that follow each other and one whose second file is broken;
\* the third has an edited first file.
MigrationFile(v, text) == [version |-> v, text |-> text]
MCReleases ==
  {<<MigrationFile(1, "a")>>,
   <<MigrationFile(1, "a"), MigrationFile(2, "b")>>,
   <<MigrationFile(1, "edited"), MigrationFile(2, "b")>>,
   <<MigrationFile(1, "a"), MigrationFile(2, "broken")>>}

MCInit ==
  /\ Init /\ MigratorInit /\ AuditInit /\ ModelInit
  /\ scenario \in {"lease", "migrate", "audit", "models", "registry"}
  /\ scenario # "lease" => \A i \in Invocations : skew[i] = 0

MCNext ==
  /\ CASE scenario = "lease"    -> UNCHANGED <<migratorVars, auditVars, modelVars>> /\ Next
       [] scenario = "migrate"  -> UNCHANGED <<vars, auditVars, modelVars>> /\ MigratorNext
       [] scenario = "audit"    -> UNCHANGED <<vars, migratorVars, modelVars>> /\ AuditNext
       [] scenario = "models"   -> UNCHANGED <<vars, migratorVars, auditVars, inMemory>> /\ ModelNext
       [] scenario = "registry" -> UNCHANGED <<vars, migratorVars, auditVars, inTable>> /\ ModelNext
  /\ UNCHANGED scenario

MCSpec   == MCInit /\ [][MCNext]_mcvars
ForkSpec == MCInit /\ scenario = "audit" /\ [][MCNext]_mcvars

Symmetry == Permutations(Invocations)
=============================================================================
