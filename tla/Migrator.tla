------------------------------- MODULE Migrator -------------------------------
(***************************************************************************)
(* Schema migrations (src/persistence/migrator.ts): every process that     *)
(* boots applies the files it was built with, under an advisory lock, each *)
(* in a transaction with its row in the ledger.  A file is its version and *)
(* its text; what the SQL does is left out, except that it may fail.       *)
(***************************************************************************)
EXTENDS Integers, FiniteSets, Sequences

CONSTANTS
  Booters,    \* processes that migrate at boot: main.ts, serverless.ts, a backfill
  Releases,   \* the builds: each a sequence of files in version order
  Broken,     \* texts whose SQL fails
  MaxBreaks   \* bound: crashes, broken connections, lost answers, statements cut off

\* loadMigrations() sorts by file name and refuses two files of one version.
InOrder(files) == \A i, j \in DOMAIN files : i < j => files[i].version < files[j].version
SqlFile == [version : Nat, text : STRING]
ASSUME MigratorAssumption ==
  /\ Releases \subseteq Seq(SqlFile) /\ \A files \in Releases : InOrder(files)
  /\ "nobody" \notin Booters /\ MaxBreaks \in Nat

VARIABLES
  boot,     \* per process: where it is, the files it has, what it read of the ledger
  holder,   \* the session that holds the advisory lock
  ledger,   \* schema_migration
  effects,  \* files whose SQL took effect, in order
  breaks

migratorVars == <<boot, holder, ledger, effects, breaks>>

Nobody  == "nobody"
NotYet  == [at |-> "idle", files |-> <<>>, read |-> {}, next |-> 0]
BootOver    == {"done", "failed", "drift", "gaveUp", "lostRace"}
BootStages  == {"idle", "locking", "reading", "applying", "sent"} \cup BootOver

MigratorTypeOK ==
  /\ \A p \in Booters : boot[p].at \in BootStages /\ boot[p].read \subseteq ledger
  /\ holder \in Booters \cup {Nobody}
  /\ breaks \in 0..MaxBreaks

MigratorInit ==
  /\ boot = [p \in Booters |-> NotYet] /\ holder = Nobody
  /\ ledger = {} /\ effects = <<>> /\ breaks = 0

-----------------------------------------------------------------------------
Set(p, at)  == boot' = [boot EXCEPT ![p].at = at]
File(p)     == boot[p].files[boot[p].next]
RowOf(v, rows) == {r \in rows : r.version = v}

BootUp(p, files) ==
  /\ boot[p].at = "idle"
  /\ boot' = [boot EXCEPT ![p] = [at |-> "locking", files |-> files, read |-> {}, next |-> 0]]
  /\ UNCHANGED <<holder, ledger, effects, breaks>>

Unlocked(p) == TRUE      \* mutant: pg_try_advisory_lock, its answer not looked at

\* withLock(): waits for whoever holds it, but no longer than the statement
\* timeout of the pool, which pg_advisory_lock() is a statement of.
Unheld(p) == holder = Nobody
Lock(p) ==
  /\ boot[p].at = "locking" /\ Unheld(p)
  /\ holder' = p /\ Set(p, "reading")
  /\ UNCHANGED <<ledger, effects, breaks>>

GivesUp(p) ==
  /\ boot[p].at = "locking" /\ ~Unheld(p) /\ Set(p, "gaveUp")
  /\ UNCHANGED <<holder, ledger, effects, breaks>>

ReadLedger(p) ==
  /\ boot[p].at = "reading"
  /\ boot' = [boot EXCEPT ![p].at = "applying", ![p].read = ledger, ![p].next = 1]
  /\ UNCHANGED <<holder, ledger, effects, breaks>>

\* The finally block: the lock is given back, whatever happened.
LeaveWith(p, at) == Set(p, at) /\ holder' = IF holder = p THEN Nobody ELSE holder

Done(p) ==
  /\ boot[p].at = "applying" /\ boot[p].next > Len(boot[p].files)
  /\ LeaveWith(p, "done") /\ UNCHANGED <<ledger, effects, breaks>>

Known(p)   == RowOf(File(p).version, boot[p].read)
Skip(p) ==
  /\ boot[p].at = "applying" /\ boot[p].next <= Len(boot[p].files)
  /\ Known(p) # {}
  /\ IF \E r \in Known(p) : r.text # File(p).text
     THEN LeaveWith(p, "drift")
     ELSE boot' = [boot EXCEPT ![p].next = @ + 1] /\ UNCHANGED holder
  /\ UNCHANGED <<ledger, effects, breaks>>

\* BEGIN, the SQL and the row; COMMIT makes both visible.
Begin(p) ==
  /\ boot[p].at = "applying" /\ boot[p].next <= Len(boot[p].files) /\ Known(p) = {}
  /\ IF File(p).text \in Broken THEN LeaveWith(p, "failed") ELSE Set(p, "sent") /\ UNCHANGED holder
  /\ UNCHANGED <<ledger, effects, breaks>>

\* The SQL of a file is cut off by the statement timeout, and rolled back.
Cancelled(p) ==
  /\ boot[p].at = "applying" /\ boot[p].next <= Len(boot[p].files) /\ Known(p) = {}
  /\ breaks < MaxBreaks /\ breaks' = breaks + 1
  /\ LeaveWith(p, "failed") /\ UNCHANGED <<ledger, effects>>

Both(p)     == ledger' = ledger \cup {File(p)} /\ effects' = Append(effects, File(p))
Aborted(p)  == UNCHANGED <<ledger, effects>>
Conflict(p) == RowOf(File(p).version, ledger) # {}
Commit(p) ==
  /\ boot[p].at = "sent"
  /\ IF Conflict(p)                       \* the version is the primary key
     THEN LeaveWith(p, "lostRace") /\ Aborted(p)
     ELSE boot' = [boot EXCEPT ![p].at = "applying", ![p].next = @ + 1] /\ Both(p) /\ UNCHANGED holder
  /\ UNCHANGED breaks

\* The process dies or its connection does, with or without the COMMIT taking
\* effect; its session ends, so that the lock is free.  The next boot starts over.
Breaks(p) ==
  /\ boot[p].at \notin {"idle"} /\ breaks < MaxBreaks /\ breaks' = breaks + 1
  /\ LeaveWith(p, "idle")
  /\ \/ Aborted(p)
     \/ boot[p].at = "sent" /\ ~Conflict(p) /\ Both(p)

\* A process that could not migrate exits and is started again.
Restart(p) ==
  /\ boot[p].at \in BootOver /\ breaks < MaxBreaks
  /\ breaks' = breaks + 1
  /\ boot' = [boot EXCEPT ![p] = NotYet] /\ UNCHANGED <<holder, ledger, effects>>

MigratorNext ==
  \E p \in Booters :
    \/ \E files \in Releases : BootUp(p, files)
    \/ Lock(p) \/ GivesUp(p) \/ ReadLedger(p) \/ Done(p) \/ Skip(p)
    \/ Begin(p) \/ Cancelled(p) \/ Commit(p) \/ Breaks(p) \/ Restart(p)
MigratorSpec == MigratorInit /\ [][MigratorNext]_migratorVars

-----------------------------------------------------------------------------
(* Properties                                                              *)

\* The ledger says what the schema is: a migration took effect exactly once if
\* it is in the ledger and not at all if it is not.
Times(file) == Cardinality({i \in DOMAIN effects : effects[i] = file})
LedgerIsSchema ==
  /\ \A r \in ledger : Times(r) = 1
  /\ \A i \in DOMAIN effects : effects[i] \in ledger

\* However boots overlap, no file is applied behind the back of one that has the
\* lock: none finds the row it commits taken by another (though it may have given
\* up waiting for the lock); and one that is done has all of its files.
NobodyLosesARace == \A p \in Booters : boot[p].at # "lostRace"
DoneMeansApplied == \A p \in Booters : boot[p].at = "done" => \A i \in DOMAIN boot[p].files : boot[p].files[i] \in ledger
MigratedOnce == LedgerIsSchema /\ NobodyLosesARace /\ DoneMeansApplied
=============================================================================
