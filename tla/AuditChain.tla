------------------------------ MODULE AuditChain ------------------------------
(***************************************************************************)
(* The audit log (src/audit/log.ts) and its table (DurableAuditLog in      *)
(* src/runtime/tradingService.ts, PgAuditRepository): a chain of hashed    *)
(* records that each process keeps in memory and writes out without        *)
(* waiting.  A hash stands for the record it was computed from, so that a  *)
(* record carries the identity of its predecessor; payloads are left out.  *)
(***************************************************************************)
EXTENDS Integers, FiniteSets

CONSTANTS
  Writers,    \* processes that keep an audit log: a leader, its followers, warm containers
  MaxRecords, \* bound: records made
  MaxLost     \* bound: crashes, and statements that fail

ASSUME AuditAssumption == MaxRecords \in Nat /\ MaxLost \in Nat

VARIABLES
  log,     \* per process: is it up, since when (in records made), the last number and hash
  made,    \* every record made, in memory or not
  flying,  \* records whose INSERT is under way
  table,   \* audit_record
  lost     \* crashes and failures so far

auditVars == <<log, made, flying, table, lost>>

Genesis == 0
Record  == [id : 1..MaxRecords, sequence : 1..MaxRecords, previous : 0..MaxRecords,
            by : Writers, life : 0..MaxRecords]
Down    == [up |-> FALSE, since |-> 0, sequence |-> 0, hash |-> Genesis]

AuditTypeOK ==
  /\ log \in [Writers -> [up : BOOLEAN, since : 0..MaxRecords,
                         sequence : 0..MaxRecords, hash : 0..MaxRecords]]
  /\ made \subseteq Record /\ flying \subseteq made /\ table \subseteq made
  /\ lost \in 0..MaxLost

AuditInit ==
  /\ log = [p \in Writers |-> Down] /\ made = {} /\ flying = {} /\ table = {} /\ lost = 0

-----------------------------------------------------------------------------
\* resumeFrom(head()): the stored record of the highest sequence number.
Newest == CHOOSE r \in table : \A q \in table : q.sequence <= r.sequence
Resume(p) ==
  /\ ~log[p].up
  /\ log' = [log EXCEPT ![p] =
       [up |-> TRUE, since |-> Cardinality(made),
        sequence |-> IF table = {} THEN 0 ELSE Newest.sequence,
        hash |-> IF table = {} THEN Genesis ELSE Newest.id]]
  /\ UNCHANGED <<made, flying, table, lost>>

LastStored(p) == IF table = {} THEN Genesis ELSE Newest.id   \* mutant: chained to the table

\* append(): chained to the last record of this process, stored or not.
Previous(p) == log[p].hash
NewRecord(p) ==
  [id |-> Cardinality(made) + 1, sequence |-> log[p].sequence + 1, previous |-> Previous(p),
   by |-> p, life |-> log[p].since]
AppendRecord(p) ==
  /\ log[p].up /\ Cardinality(made) < MaxRecords
  /\ made' = made \cup {NewRecord(p)} /\ flying' = flying \cup {NewRecord(p)}
  /\ log' = [log EXCEPT ![p] = [@ EXCEPT !.sequence = NewRecord(p).sequence, !.hash = NewRecord(p).id]]
  /\ UNCHANGED <<table, lost>>

\* INSERT: the sequence number is the primary key, so a second record of that
\* number is refused; the refusal is written to the console and that is all.
Taken(r) == \E q \in table : q.sequence = r.sequence
InsertLands(r) ==
  /\ r \in flying /\ flying' = flying \ {r}
  /\ table' = IF Taken(r) THEN table ELSE table \cup {r}
  /\ UNCHANGED <<log, made, lost>>

Loses == lost < MaxLost /\ lost' = lost + 1
InsertFails(r) ==
  /\ r \in flying /\ Loses /\ flying' = flying \ {r}
  /\ UNCHANGED <<log, made, table>>

\* A process stops when its pool is drained; one that dies leaves statements
\* under way, which land after all or never.
StopCleanly(p) ==
  /\ log[p].up /\ \A r \in flying : r.by # p
  /\ log' = [log EXCEPT ![p] = Down] /\ UNCHANGED <<made, flying, table, lost>>
DieSuddenly(p) ==
  /\ log[p].up /\ Loses
  /\ log' = [log EXCEPT ![p] = Down]
  /\ flying' \in {flying, {r \in flying : r.by # p}}
  /\ UNCHANGED <<made, table>>

AuditNext ==
  \/ \E p \in Writers : Resume(p) \/ AppendRecord(p) \/ StopCleanly(p) \/ DieSuddenly(p)
  \/ \E r \in flying : InsertLands(r) \/ InsertFails(r)
AuditSpec == AuditInit /\ [][AuditNext]_auditVars

-----------------------------------------------------------------------------
(* Properties                                                              *)

\* What a reader of the table can check, as verifyChain() does in memory: each
\* record names its predecessor in the order of the sequence numbers.
Before(r)   == {q \in table : q.sequence < r.sequence}
Linked(r)   == r.previous = IF Before(r) = {} THEN Genesis
                            ELSE (CHOOSE q \in Before(r) : \A x \in Before(r) : x.sequence <= q.sequence).id
Verifies    == \A r \in table : Linked(r)

\* Records made before a stored one by the same process in the same life that
\* are not in the table and not on their way.
Missing == {r \in made \ (table \cup flying) : \E s \in table : s.by = r.by /\ s.life = r.life /\ s.id > r.id}

\* "A system that moves money": whatever processes do to each other and
\* whatever is lost, a record that is missing below a stored record of its
\* process shows, for the table no longer verifies.
LossShows == Missing # {} => ~Verifies

\* A process that is alone, stops cleanly and loses no statement keeps one
\* chain across its restarts.
Alone          == \A r, q \in made : r.by = q.by
OneChain       == Alone /\ lost = 0 /\ flying = {} => Verifies
AuditIsEvident == LossShows /\ OneChain

\* "Production writes the same records to Postgres": with nothing lost, what
\* is appended is stored.
EveryRecordIsStored == lost = 0 => made \subseteq table \cup flying
=============================================================================
