----------------------------- MODULE EventChain -----------------------------
(***************************************************************************)
(* The hash chains of CodeER: the events of one incident, investigation,   *)
(* recovery and publication and the audit log of one organization, and the *)
(* transactions that append to them (packages/database client.ts and the   *)
(* stores).  The stores guard one table in different ways: some take an    *)
(* advisory lock, under names that differ, some lock the newest row, some  *)
(* do neither, and the isolation of the transactions differs too.  The     *)
(* rows that the operations lock before they append are left out: no chain *)
(* may depend on them.                                                     *)
(***************************************************************************)
EXTENDS Integers, Sequences, FiniteSets

CONSTANTS
  Concurrent,   \* the number of operations under way at the same time
  MaxRetries    \* maxRetries of withTransaction

ASSUME EventChainAssumption == Concurrent \in Nat \ {0} /\ MaxRetries \in Nat \ {0}

VARIABLES
  op,     \* the operation each transaction belongs to
  rows,   \* the committed rows of every table, in the order of the commits
  tx      \* the state of every transaction

vars == <<op, rows, tx>>

Txn == 1 .. Concurrent
Events == {"IncidentEvent", "InvestigationEvent", "RecoveryEvent", "PublicationEvent"}
Table == Events \cup {"AuditLog"}
Unlocked == "no advisory lock"
ReadCommitted == "READ COMMITTED"
LockName == {"incidentId", "incident-event", "investigationId", "recovery-event", "publication-event", "organizationId"}

(* The appenders: the table, the name of the advisory lock, whether the      *)
(* newest row is selected FOR UPDATE, whether an equal event is stored once. *)
Appender(table, lock, forUpdate) ==
  [table |-> table, lock |-> lock, forUpdate |-> forUpdate, once |-> FALSE]

appendIncidentEvent == Appender("IncidentEvent", Unlocked, TRUE)
appendSandboxIncidentEvent == Appender("IncidentEvent", "incidentId", TRUE)
appendInvestigationIncidentEvent == Appender("IncidentEvent", "incidentId", TRUE)
appendRecoveryIncidentEvent == Appender("IncidentEvent", "incident-event", FALSE)
appendInvestigationEvent == Appender("InvestigationEvent", "investigationId", TRUE)
appendRecoveryEvent == Appender("RecoveryEvent", "recovery-event", FALSE)
appendWebhookEvent == Appender("PublicationEvent", Unlocked, FALSE)
appendAuditLog == Appender("AuditLog", "organizationId", FALSE)
appendSandboxAudit == Appender("AuditLog", "organizationId", FALSE)
appendInvestigationAudit == Appender("AuditLog", "organizationId", FALSE)

appendPublicationEvent == [Appender("PublicationEvent", "publication-event", FALSE) EXCEPT !.once = TRUE]

(* The operations: the isolation of their transaction and what it appends.   *)
(* The first event of a new investigation or recovery has no competitor and  *)
(* is left out.                                                              *)
Operation(isolation, appends) == [isolation |-> isolation, appends |-> appends]

(* Mutant of transitionIncident: a weaker isolation. *)
transitionRepeatable == Operation("REPEATABLE READ", <<appendIncidentEvent, appendAuditLog>>)

transitionIncident == Operation("SERIALIZABLE", <<appendIncidentEvent, appendAuditLog>>)
processTriage == Operation("SERIALIZABLE", <<appendIncidentEvent, appendIncidentEvent, appendAuditLog>>)
createReproduction == Operation("SERIALIZABLE", <<appendSandboxIncidentEvent, appendSandboxAudit>>)
updateStatus == Operation(ReadCommitted, <<appendSandboxIncidentEvent>>)
createInvestigation == Operation("SERIALIZABLE", <<appendInvestigationIncidentEvent, appendInvestigationAudit>>)
cancelInvestigation == Operation("SERIALIZABLE", <<appendInvestigationEvent, appendInvestigationAudit>>)
failInvestigation == Operation(ReadCommitted, <<appendInvestigationEvent>>)
createRecovery == Operation("SERIALIZABLE", <<appendRecoveryIncidentEvent>>)
checkpointRecovery == Operation("SERIALIZABLE", <<appendRecoveryEvent>>)
advancePublication == Operation("SERIALIZABLE", <<appendPublicationEvent>>)
upsertPublicationCheck == Operation(ReadCommitted, <<appendWebhookEvent>>)

Operations ==
  <<transitionIncident, processTriage, createReproduction, updateStatus, createInvestigation,
    cancelInvestigation, failInvestigation, createRecovery, checkpointRecovery, advancePublication,
    upsertPublicationCheck>>

isolation(t) == Operations[op[t]].isolation
appends(t) == Operations[op[t]].appends
Current(t) == appends(t)[tx[t].at]
At(t, step) == tx[t].step = step

(* A row is known by its position and its transaction; previousHash names    *)
(* the row before it.                                                        *)
Id(row) == <<row.seq, row.by>>
Genesis == <<0, 0>>

(* The row of the transaction that created the incident, the investigation   *)
(* or the recovery.                                                          *)
Created == <<[seq |-> 1, by |-> 0, prev |-> Genesis]>>

Newest(log) == IF log = <<>> THEN Genesis ELSE Id(log[Len(log)])

(* What a statement of t sees: READ COMMITTED the rows committed by now, the *)
(* stronger levels those of the snapshot, and each its own.                  *)
Visible(t, table) ==
  (IF isolation(t) = ReadCommitted THEN rows[table] ELSE SubSeq(rows[table], 1, tx[t].snapshot[table]))
  \o tx[t].rows[table]

Empty == [table \in Table |-> <<>>]
Fresh == [step |-> "begin", at |-> 1, attempt |-> 1, snapshot |-> [table \in Table |-> 0],
          latest |-> Genesis, locks |-> {}, rows |-> Empty]

(* Every chain but that of the publication has the row of its creation.  The *)
(* transactions are named in the order of their operations.                  *)
Init ==
  /\ op \in {f \in [Txn -> DOMAIN Operations] : \A t \in Txn \ {1} : f[t - 1] <= f[t]}
  /\ rows = [Empty EXCEPT !["IncidentEvent"] = Created, !["InvestigationEvent"] = Created,
                          !["RecoveryEvent"] = Created, !["AuditLog"] = Created]
  /\ tx = [t \in Txn |-> Fresh]

Become(t, fields) == tx' = [tx EXCEPT ![t] = fields]

mayRetry(attempt) == attempt < MaxRetries

isRetryableDatabaseError(error) == error \in {"40001", "40P01"}

(* Mutant of rollback: locks of the session instead of the transaction. *)
rollbackKeepingLocks(t, error) ==
  Become(t, [Fresh EXCEPT !.attempt = IF mayRetry(tx[t].attempt) /\ isRetryableDatabaseError(error)
                                      THEN tx[t].attempt + 1 ELSE tx[t].attempt,
                          !.locks = tx[t].locks,
                          !.step = IF mayRetry(tx[t].attempt) /\ isRetryableDatabaseError(error)
                                   THEN "begin" ELSE "failed"])

(* withTransaction after an error: the rows and the locks are gone; what may *)
(* be tried again starts from the beginning, anything else is thrown.        *)
rollback(t, error) ==
  LET again == mayRetry(tx[t].attempt) /\ isRetryableDatabaseError(error) IN
  Become(t, [Fresh EXCEPT !.attempt = IF again THEN tx[t].attempt + 1 ELSE tx[t].attempt,
                          !.step = IF again THEN "begin" ELSE "failed"])
-----------------------------------------------------------------------------
(* BEGIN, and the first set_config, which takes the snapshot. *)
begin(t) ==
  /\ At(t, "begin")
  /\ Become(t, [tx[t] EXCEPT !.step = "lock", !.snapshot = [table \in Table |-> Len(rows[table])]])
  /\ UNCHANGED <<op, rows>>

Free(t, lock) == \A u \in Txn \ {t} : lock \notin tx[u].locks

(* pg_advisory_xact_lock *)
takeLock(t) ==
  /\ At(t, "lock")
  /\ LET lock == <<Current(t).lock, 0>> IN
     IF Current(t).lock = Unlocked
     THEN Become(t, [tx[t] EXCEPT !.step = "select"])
     ELSE Free(t, lock) /\ Become(t, [tx[t] EXCEPT !.step = "select", !.locks = @ \cup {lock}])
  /\ UNCHANGED <<op, rows>>

(* SELECT ... ORDER BY ... LIMIT 1 *)
selectLatest(t) ==
  /\ At(t, "select")
  /\ LET latest == Newest(Visible(t, Current(t).table)) IN
     Become(t, [tx[t] EXCEPT !.latest = latest,
                             !.step = IF Current(t).forUpdate /\ latest # Genesis THEN "row" ELSE "insert"])
  /\ UNCHANGED <<op, rows>>

(* FOR UPDATE waits for the row that was found; a newer one is not looked    *)
(* for again.                                                                *)
lockRow(t) ==
  /\ At(t, "row")
  /\ LET lock == <<Current(t).table, tx[t].latest[1]>> IN
     Free(t, lock) /\ Become(t, [tx[t] EXCEPT !.step = "insert", !.locks = @ \cup {lock}])
  /\ UNCHANGED <<op, rows>>

(* Rows of others under the same number, in a table that has a unique key.   *)
Pending(t) ==
  \E u \in Txn \ {t} : \E i \in DOMAIN tx[u].rows[Current(t).table] :
    tx[u].rows[Current(t).table][i].seq = tx[t].latest[1] + 1

(* Mutant of Taken: a table without the unique key. *)
neverTaken(t) == FALSE

Taken(t) == \E i \in DOMAIN rows[Current(t).table] : rows[Current(t).table][i].seq = tx[t].latest[1] + 1

(* The place of the new row: the next number; of an audit entry the time,    *)
(* taken under the lock, after every entry committed before.                 *)
Place(t) == IF Current(t).table = "AuditLog" THEN Len(rows["AuditLog"]) + 1 ELSE tx[t].latest[1] + 1

Advance(t, log) ==
  Become(t, [tx[t] EXCEPT !.rows[Current(t).table] = log, !.latest = Genesis,
                          !.at = IF @ < Len(appends(t)) THEN @ + 1 ELSE @,
                          !.step = IF tx[t].at < Len(appends(t)) THEN "lock" ELSE "commit"])

Equal(t) == {i \in DOMAIN rows[Current(t).table] : op[rows[Current(t).table][i].by] = op[t]}

(* INSERT: an equal event that is stored once; a unique key that is in use,  *)
(* which the isolation may report as a conflict; a unique key that another   *)
(* transaction may still give up, for which it waits.                        *)
insertRow(t) ==
  /\ At(t, "insert")
  /\ LET own == tx[t].rows[Current(t).table]
         row == [seq |-> Place(t), by |-> t, prev |-> tx[t].latest]
     IN IF Current(t).once /\ Equal(t) # {}
        THEN IF \E i \in Equal(t) : i > tx[t].snapshot[Current(t).table] THEN rollback(t, "40001")
             ELSE Advance(t, own)
        ELSE IF Current(t).table = "AuditLog" THEN Advance(t, Append(own, row))
        ELSE IF Taken(t)
        THEN \/ rollback(t, "23505")
             \/ isolation(t) = "SERIALIZABLE" /\ rollback(t, "40001")
        ELSE ~Pending(t) /\ Advance(t, Append(own, row))
  /\ UNCHANGED <<op, rows>>

(* Two serializable transactions, each of which missed a row of the other:   *)
(* the second one to commit is refused.                                      *)
Refused(t) ==
  /\ isolation(t) = "SERIALIZABLE"
  /\ \E a \in DOMAIN appends(t) : LET table == appends(t)[a].table IN
       \E i \in tx[t].snapshot[table] + 1 .. Len(rows[table]) : isolation(rows[table][i].by) = "SERIALIZABLE"

commit(t) ==
  /\ At(t, "commit")
  /\ IF Refused(t) THEN rollback(t, "40001") /\ UNCHANGED rows
     ELSE /\ rows' = [table \in Table |-> rows[table] \o tx[t].rows[table]]
          /\ Become(t, [Fresh EXCEPT !.step = "done", !.attempt = tx[t].attempt])
  /\ UNCHANGED op

(* lock_timeout, while t waits for another transaction. *)
lockTimeout(t) ==
  /\ \/ At(t, "lock") /\ ~Free(t, <<Current(t).lock, 0>>)
     \/ At(t, "row") /\ ~Free(t, <<Current(t).table, tx[t].latest[1]>>)
     \/ At(t, "insert") /\ Current(t).table # "AuditLog" /\ ~Taken(t) /\ Pending(t)
  /\ rollback(t, "55P03")
  /\ UNCHANGED <<op, rows>>

Step(t) == begin(t) \/ takeLock(t) \/ selectLatest(t) \/ lockRow(t) \/ insertRow(t) \/ commit(t)

Next == \E t \in Txn : Step(t) \/ lockTimeout(t)

Spec == Init /\ [][Next]_vars

(* A transaction that waits for nobody goes on. *)
FairSpec == Spec /\ \A t \in Txn : WF_vars(Step(t))
-----------------------------------------------------------------------------
Row == [seq : Nat \ {0}, by : Txn \cup {0}, prev : Nat \X (Txn \cup {0})]

TypeOK ==
  /\ op \in [Txn -> DOMAIN Operations]
  /\ rows \in [Table -> Seq(Row)]
  /\ tx \in [Txn -> [step : {"begin", "lock", "select", "row", "insert", "commit", "done", "failed"},
                     at : 1 .. 3, attempt : 1 .. MaxRetries, snapshot : [Table -> Nat],
                     latest : Nat \X (Txn \cup {0}),
                     locks : SUBSET ((LockName \cup Table) \X Nat),
                     rows : [Table -> Seq(Row)]]]

(* The check that the timeline of an incident is given: numbers without gap  *)
(* from 1, and each row names the one before it.                             *)
verifyIncidentEventChain(log) ==
  \A n \in 1 .. Len(log) :
    \E i \in DOMAIN log :
      /\ log[i].seq = n
      /\ \A j \in DOMAIN log : log[j].seq = n => j = i
      /\ IF n = 1 THEN log[i].prev = Genesis
         ELSE \E j \in DOMAIN log : log[j].seq = n - 1 /\ log[i].prev = Id(log[j])

(* Whatever the stores lock and however isolated they are, the events of an   *)
(* incident, an investigation, a recovery and a publication always form one   *)
(* chain that verifies.                                                       *)
ChainsVerify == \A table \in Events : verifyIncidentEventChain(rows[table])

(* The audit entries of an organization form one chain as well, although no   *)
(* key forbids two entries with one predecessor and the newest entry is read  *)
(* from a snapshot older than the lock.                                       *)
AuditIsLinear ==
  \A i \in DOMAIN rows["AuditLog"] :
    rows["AuditLog"][i].prev = IF i = 1 THEN Genesis ELSE Id(rows["AuditLog"][i - 1])

(* A step of the publication worker that is done again adds no second event   *)
(* to the history.                                                            *)
EventOnce ==
  LET log == rows["PublicationEvent"] IN
  \A i, j \in DOMAIN log :
    op[log[i].by] = op[log[j].by] /\ Operations[op[log[i].by]] = advancePublication => i = j

(* The conjunction the run checks: the types, chains that verify and no event *)
(* twice.                                                                     *)
ChainInv == TypeOK /\ ChainsVerify /\ EventOnce

(* The locks of the stores never leave transactions waiting for each other,   *)
(* and retries come to an end: every operation commits or throws.             *)
OperationsEnd == \A t \in Txn : <>(tx[t].step \in {"done", "failed"})
=============================================================================
