-------------------------- MODULE EventChain_proofs --------------------------
(***************************************************************************)
(* The chains of events and the audit log verify for any number of         *)
(* transactions, whatever operations they belong to and however often they *)
(* are tried again.                                                        *)
(***************************************************************************)
EXTENDS EventChain, SequenceTheorems, TLAPS

Steps == {"begin", "lock", "select", "row", "insert", "commit", "done", "failed"}
RowId == Nat \X (Txn \cup {0})
Transaction == [step : Steps, at : 1 .. 3, attempt : 1 .. MaxRetries, snapshot : [Table -> Nat], latest : RowId,
                locks : SUBSET ((LockName \cup Table) \X Nat), rows : [Table -> Seq(Row)]]

\* The operation that stores its event once.
Once == 10

\* The table of the event a transaction is appending.
Target(o, x) == Operations[o].appends[x.at].table

\* Events numbered from 1, each of which names the one before.
Chain(log) ==
  \A i \in DOMAIN log : log[i].seq = i /\ log[i].prev = IF i = 1 THEN Genesis ELSE Id(log[i - 1])

\* Uncommitted events of a transaction that go on where the committed ones end.
Follows(own, log, t) ==
  \A i \in DOMAIN own : /\ own[i].seq = Len(log) + i /\ own[i].by = t
                        /\ own[i].prev = IF i = 1 THEN Newest(log) ELSE Id(own[i - 1])

\* The audit log: each entry names the one before, and all but the first were
\* written by serializable transactions.
Linked(log, ops) ==
  /\ \A i \in DOMAIN log : log[i].prev = IF i = 1 THEN Genesis ELSE Id(log[i - 1])
  /\ \A i \in DOMAIN log : i > 1 => log[i].by \in Txn /\ Operations[ops[log[i].by]].isolation = "SERIALIZABLE"
  /\ Len(log) >= 1

\* The event that is stored once is there once.
Single(log, ops) ==
  /\ \A i \in DOMAIN log : log[i].by \in Txn
  /\ \A i, j \in DOMAIN log : ops[log[i].by] = Once /\ ops[log[j].by] = Once => i = j

\* The snapshot of a transaction, which holds the first audit entry.
Seen(x, log) ==
  /\ \A table \in Table : x.snapshot[table] <= Len(log[table])
  /\ x.step \in {"lock", "select", "row", "insert", "commit"} => x.snapshot["AuditLog"] >= 1

\* What a transaction has read before it appends: its own last event, or a committed
\* one; of the audit log the last one of its snapshot.
Looked(x, o, log) ==
  x.step \in {"row", "insert"} =>
    LET table == Target(o, x)
        own == x.rows[table]
    IN /\ table \in Events =>
            IF own # <<>> THEN x.latest = Newest(own)
            ELSE x.latest = Genesis \/ \E k \in DOMAIN log[table] : x.latest = Id(log[table][k])
       /\ table = "AuditLog" => x.latest = Id(log["AuditLog"][x.snapshot["AuditLog"]])

\* What a transaction has appended and not committed: events that go on where the
\* committed ones end, at the end one audit entry that names the last one of the
\* snapshot, and the event that is stored once.
Queued(t, x, o, log, ops) ==
  /\ \A table \in Events : Follows(x.rows[table], log[table], t)
  /\ x.step # "commit" => x.rows["AuditLog"] = <<>> /\ (o = Once => x.rows["PublicationEvent"] = <<>>)
  /\ x.rows["AuditLog"] # <<>> =>
       /\ Len(x.rows["AuditLog"]) = 1 /\ x.rows["AuditLog"][1].by = t
       /\ x.rows["AuditLog"][1].prev = Id(log["AuditLog"][x.snapshot["AuditLog"]])
       /\ \E a \in DOMAIN Operations[o].appends : Operations[o].appends[a].table = "AuditLog"
  /\ o = Once /\ x.rows["PublicationEvent"] # <<>> =>
       /\ Len(x.rows["PublicationEvent"]) = 1
       /\ \A i \in DOMAIN log["PublicationEvent"] : ops[log["PublicationEvent"][i].by] # Once

Knows(t, x, o, log, ops) ==
  /\ x \in Transaction /\ x.at \in DOMAIN Operations[o].appends
  /\ Seen(x, log) /\ Looked(x, o, log) /\ Queued(t, x, o, log, ops)

\* No two transactions have uncommitted events in one table.
Exclusive(txs) ==
  \A t, u \in Txn : \A table \in Events : t # u => txs[t].rows[table] = <<>> \/ txs[u].rows[table] = <<>>

Committed(log, ops) ==
  /\ log \in [Table -> Seq(Row)]
  /\ \A table \in Events : Chain(log[table])
  /\ Linked(log["AuditLog"], ops) /\ Single(log["PublicationEvent"], ops)

\* The inductive invariant.
IInv ==
  /\ op \in [Txn -> DOMAIN Operations] /\ tx \in [Txn -> Transaction]
  /\ Committed(rows, op)
  /\ \A t \in Txn : Knows(t, tx[t], op[t], rows, op)
  /\ Exclusive(tx)

-----------------------------------------------------------------------------
(* The operations.                                                         *)

LEMMA Tables ==
  /\ Events \subseteq Table /\ "AuditLog" \in Table /\ "AuditLog" \notin Events
  /\ Table = Events \cup {"AuditLog"} /\ "PublicationEvent" \in Events
BY DEF Events, Table

\* What is true of the i-th of the n appenders of an operation.
Fine(a, i, n, level, o) ==
  /\ a.table \in Table /\ a.lock \in LockName \cup {Unlocked}
  /\ a.once <=> o = Once
  /\ a.table = "AuditLog" => i = n /\ level = "SERIALIZABLE" /\ o # Once
  /\ o = Once => n = 1 /\ a.table = "PublicationEvent"

\* What is true of every operation.
Proper(o) ==
  /\ Len(Operations[o].appends) \in 1 .. 3
  /\ DOMAIN Operations[o].appends = 1 .. Len(Operations[o].appends)
  /\ \A i \in DOMAIN Operations[o].appends :
       Fine(Operations[o].appends[i], i, Len(Operations[o].appends), Operations[o].isolation, o)

LEMMA OneAppend ==
  ASSUME NEW o, NEW level, NEW a,
         Operations[o] = Operation(level, <<a>>), Fine(a, 1, 1, level, o)
  PROVE  Proper(o)
<1>. DEFINE list == <<a>>
<1>1. Operations[o].isolation = level /\ Operations[o].appends = list  BY DEF Operation
<1>2. Len(list) = 1 /\ DOMAIN list = 1 .. 1 /\ list[1] = a  OBVIOUS
<1>3. \A i \in 1 .. 1 : i = 1  OBVIOUS
<1>. HIDE DEF list
<1>4. Fine(a, 1, 1, level, o)  OBVIOUS
<1>5. \A i \in DOMAIN list : Fine(list[i], i, Len(list), level, o)  BY <1>2, <1>3, <1>4
<1>6. 1 \in 1 .. 3  OBVIOUS
<1>. QED  BY <1>1, <1>2, <1>5, <1>6 DEF Proper

LEMMA TwoAppends ==
  ASSUME NEW o, NEW level, NEW a, NEW b,
         Operations[o] = Operation(level, <<a, b>>), Fine(a, 1, 2, level, o), Fine(b, 2, 2, level, o)
  PROVE  Proper(o)
<1>. DEFINE list == <<a, b>>
<1>1. Operations[o].isolation = level /\ Operations[o].appends = list  BY DEF Operation
<1>2. Len(list) = 2 /\ DOMAIN list = 1 .. 2 /\ list[1] = a /\ list[2] = b  OBVIOUS
<1>3. \A i \in 1 .. 2 : i = 1 \/ i = 2  OBVIOUS
<1>. HIDE DEF list
<1>4. Fine(a, 1, 2, level, o) /\ Fine(b, 2, 2, level, o)  OBVIOUS
<1>5. \A i \in DOMAIN list : Fine(list[i], i, Len(list), level, o)  BY <1>2, <1>3, <1>4
<1>6. 2 \in 1 .. 3  OBVIOUS
<1>. QED  BY <1>1, <1>2, <1>5, <1>6 DEF Proper

LEMMA ThreeAppends ==
  ASSUME NEW o, NEW level, NEW a, NEW b, NEW c,
         Operations[o] = Operation(level, <<a, b, c>>),
         Fine(a, 1, 3, level, o), Fine(b, 2, 3, level, o), Fine(c, 3, 3, level, o)
  PROVE  Proper(o)
<1>. DEFINE list == <<a, b, c>>
<1>1. Operations[o].isolation = level /\ Operations[o].appends = list  BY DEF Operation
<1>2. Len(list) = 3 /\ DOMAIN list = 1 .. 3 /\ list[1] = a /\ list[2] = b /\ list[3] = c  OBVIOUS
<1>3. \A i \in 1 .. 3 : i = 1 \/ i = 2 \/ i = 3  OBVIOUS
<1>. HIDE DEF list
<1>4. Fine(a, 1, 3, level, o) /\ Fine(b, 2, 3, level, o) /\ Fine(c, 3, 3, level, o)  OBVIOUS
<1>5. \A i \in DOMAIN list : Fine(list[i], i, Len(list), level, o)  BY <1>2, <1>3, <1>4
<1>6. 3 \in 1 .. 3  OBVIOUS
<1>. QED  BY <1>1, <1>2, <1>5, <1>6 DEF Proper

\* The appenders: none but one is stored once, and those of the audit log come last.
LEMMA Appenders ==
  ASSUME NEW o \in 1 .. 11, o # Once, NEW i, NEW n, NEW level, NEW a, ~a.once,
         a \in {appendIncidentEvent, appendSandboxIncidentEvent, appendInvestigationIncidentEvent,
                appendRecoveryIncidentEvent, appendInvestigationEvent, appendRecoveryEvent, appendWebhookEvent}
         \/ (a \in {appendAuditLog, appendSandboxAudit, appendInvestigationAudit} /\ i = n /\ level = "SERIALIZABLE")
  PROVE  Fine(a, i, n, level, o)
<1>1. CASE a \in {appendIncidentEvent, appendSandboxIncidentEvent, appendInvestigationIncidentEvent,
                  appendRecoveryIncidentEvent, appendInvestigationEvent, appendRecoveryEvent, appendWebhookEvent}
  <2>1. a.table \in Events /\ a.lock \in LockName \cup {Unlocked}
    BY <1>1 DEF Appender, Events, LockName, appendIncidentEvent, appendSandboxIncidentEvent,
       appendInvestigationIncidentEvent, appendRecoveryIncidentEvent, appendInvestigationEvent, appendRecoveryEvent,
       appendWebhookEvent
  <2>. QED  BY <2>1, Tables DEF Fine
<1>2. CASE a \in {appendAuditLog, appendSandboxAudit, appendInvestigationAudit} /\ i = n /\ level = "SERIALIZABLE"
  <2>1. a.table = "AuditLog" /\ a.lock \in LockName
    BY <1>2 DEF Appender, LockName, appendAuditLog, appendSandboxAudit, appendInvestigationAudit
  <2>. QED  BY <1>2, <2>1, Tables DEF Fine
<1>. QED  BY <1>1, <1>2

LEMMA NotOnce ==
  /\ ~appendIncidentEvent.once /\ ~appendSandboxIncidentEvent.once /\ ~appendInvestigationIncidentEvent.once
  /\ ~appendRecoveryIncidentEvent.once /\ ~appendInvestigationEvent.once /\ ~appendRecoveryEvent.once
  /\ ~appendWebhookEvent.once /\ ~appendAuditLog.once /\ ~appendSandboxAudit.once /\ ~appendInvestigationAudit.once
BY DEF Appender, appendIncidentEvent, appendSandboxIncidentEvent,
       appendInvestigationIncidentEvent, appendRecoveryIncidentEvent, appendInvestigationEvent, appendRecoveryEvent,
       appendWebhookEvent, appendAuditLog, appendSandboxAudit, appendInvestigationAudit

LEMMA OperationList ==
  /\ DOMAIN Operations = 1 .. 11
  /\ Operations[1] = transitionIncident /\ Operations[2] = processTriage /\ Operations[3] = createReproduction
  /\ Operations[4] = updateStatus /\ Operations[5] = createInvestigation /\ Operations[6] = cancelInvestigation
  /\ Operations[7] = failInvestigation /\ Operations[8] = createRecovery /\ Operations[9] = checkpointRecovery
  /\ Operations[10] = advancePublication /\ Operations[11] = upsertPublicationCheck
BY DEF Operations

LEMMA OperationFacts == \A o \in DOMAIN Operations : Proper(o)
<1>1. Proper(1)
  BY OperationList, NotOnce, Appenders, TwoAppends DEF transitionIncident, Once
<1>2. Proper(2)
  BY OperationList, NotOnce, Appenders, ThreeAppends DEF processTriage, Once
<1>3. Proper(3)
  BY OperationList, NotOnce, Appenders, TwoAppends DEF createReproduction, Once
<1>4. Proper(4)
  BY OperationList, NotOnce, Appenders, OneAppend DEF updateStatus, Once
<1>5. Proper(5)
  BY OperationList, NotOnce, Appenders, TwoAppends DEF createInvestigation, Once
<1>6. Proper(6)
  BY OperationList, NotOnce, Appenders, TwoAppends DEF cancelInvestigation, Once
<1>7. Proper(7)
  BY OperationList, NotOnce, Appenders, OneAppend DEF failInvestigation, Once
<1>8. Proper(8)
  BY OperationList, NotOnce, Appenders, OneAppend DEF createRecovery, Once
<1>9. Proper(9)
  BY OperationList, NotOnce, Appenders, OneAppend DEF checkpointRecovery, Once
<1>10. Proper(10)
  <2>1. Fine(appendPublicationEvent, 1, 1, "SERIALIZABLE", 10)
    BY DEF Fine, appendPublicationEvent, Appender, Once, Table, Events, LockName
  <2>. QED  BY <2>1, OperationList, OneAppend DEF advancePublication
<1>11. Proper(11)
  BY OperationList, NotOnce, Appenders, OneAppend DEF upsertPublicationCheck, Once
<1>12. \A o \in 1 .. 11 : o = 1 \/ o = 2 \/ o = 3 \/ o = 4 \/ o = 5 \/ o = 6 \/ o = 7 \/ o = 8 \/ o = 9 \/ o = 10 \/ o = 11
  OBVIOUS
<1>. QED
  BY <1>1, <1>2, <1>3, <1>4, <1>5, <1>6, <1>7, <1>8, <1>9, <1>10, <1>11, <1>12, OperationList

\* The operation whose event is stored once is advancePublication.
LEMMA OnceIs ==
  ASSUME NEW o \in DOMAIN Operations
  PROVE  Operations[o] = advancePublication => o = Once
<1>1. Proper(o) /\ Proper(10) /\ 1 \in DOMAIN Operations[10].appends
  <2>1. 10 \in DOMAIN Operations  BY OperationList
  <2>2. Proper(o) /\ Proper(10)  BY <2>1, OperationFacts
  <2>. DEFINE list == Operations[10].appends
              n == Len(list)
  <2>3. n \in 1 .. 3 /\ DOMAIN list = 1 .. n  BY <2>2 DEF Proper
  <2>. HIDE DEF n, list
  <2>4. 1 \in DOMAIN list  BY <2>3
  <2>5. 1 \in DOMAIN Operations[10].appends  BY <2>4 DEF list
  <2>. QED  BY <2>2, <2>5
<1>2. Operations[10].appends[1].once  BY <1>1 DEF Proper, Fine, Once
<1>3. Operations[o] = Operations[10] => Operations[o].appends[1].once /\ 1 \in DOMAIN Operations[o].appends
  <2>1. SUFFICES ASSUME Operations[o] = Operations[10]
                 PROVE  Operations[o].appends[1].once /\ 1 \in DOMAIN Operations[o].appends
    OBVIOUS
  <2>2. Operations[o].appends = Operations[10].appends  BY <2>1
  <2>. QED  BY <1>1, <1>2, <2>2
<1>. QED  BY <1>1, <1>3, OperationList DEF Proper, Fine

-----------------------------------------------------------------------------
(* Sequences of rows.                                                      *)

LEMMA RowFields ==
  ASSUME NEW row \in Row
  PROVE  /\ row.seq \in Nat \ {0} /\ row.by \in Txn \cup {0} /\ row.prev \in RowId
         /\ Id(row) \in RowId /\ Id(row)[1] = row.seq
BY DEF Row, RowId, Id

LEMMA NewestOf ==
  ASSUME NEW log \in Seq(Row)
  PROVE  /\ Newest(log) \in RowId
         /\ log # <<>> => Newest(log) = Id(log[Len(log)]) /\ Len(log) \in DOMAIN log
         /\ log = <<>> => Newest(log) = Genesis
<1>1. Genesis \in RowId  BY DEF Genesis, RowId
<1>2. log # <<>> => Len(log) \in DOMAIN log /\ log[Len(log)] \in Row  OBVIOUS
<1>. QED  BY <1>1, <1>2, RowFields DEF Newest

\* What was read before the last row of two sequences together.
LEMMA NewestTogether ==
  ASSUME NEW log \in Seq(Row), NEW own \in Seq(Row)
  PROVE  /\ own = <<>> => Newest(log \o own) = Newest(log)
         /\ own # <<>> => Newest(log \o own) = Newest(own)
<1>1. CASE own = <<>>
  <2>1. log \o own = log  BY <1>1
  <2>. QED  BY <1>1, <2>1
<1>2. CASE own # <<>>
  <2>. DEFINE both == log \o own
              m == Len(log)
              n == Len(own)
  <2>1. m \in Nat /\ n \in Nat /\ n # 0  BY <1>2
  <2>2. both \in Seq(Row) /\ Len(both) = m + n /\ \A i \in 1 .. m + n : both[i] = IF i <= m THEN log[i] ELSE own[i - m]
    BY ConcatProperties
  <2>. HIDE DEF both, m, n
  <2>3. both # <<>> /\ m + n \in 1 .. m + n /\ ~(m + n <= m) /\ (m + n) - m = n  BY <2>1, <2>2
  <2>4. both[Len(both)] = own[n]  BY <2>2, <2>3
  <2>5. Newest(both) = Id(own[n])  BY <2>3, <2>4 DEF Newest
  <2>. QED  BY <1>2, <2>5 DEF both, n, Newest
<1>. QED  BY <1>1, <1>2

\* A chain and what follows it are a chain.
LEMMA ChainGrows ==
  ASSUME NEW log \in Seq(Row), NEW own \in Seq(Row), NEW t, Chain(log), Follows(own, log, t)
  PROVE  Chain(log \o own)
<1>. DEFINE both == log \o own
            m == Len(log)
            n == Len(own)
<1>1. m \in Nat /\ n \in Nat /\ DOMAIN log = 1 .. m /\ DOMAIN own = 1 .. n  OBVIOUS
<1>2. both \in Seq(Row) /\ Len(both) = m + n /\ DOMAIN both = 1 .. m + n
      /\ \A i \in 1 .. m + n : both[i] = IF i <= m THEN log[i] ELSE own[i - m]
  BY ConcatProperties
<1>3. log # <<>> => Newest(log) = Id(log[m])  BY DEF Newest
<1>4. log = <<>> <=> m = 0  BY <1>1
<1>5. log = <<>> => Newest(log) = Genesis  BY DEF Newest
<1>6. SUFFICES ASSUME NEW i \in DOMAIN both
               PROVE  both[i].seq = i /\ both[i].prev = IF i = 1 THEN Genesis ELSE Id(both[i - 1])
  BY DEF Chain
<1>7. \A k \in DOMAIN own : own[k].seq = m + k /\ own[k].prev = IF k = 1 THEN Newest(log) ELSE Id(own[k - 1])
  BY DEF Follows
<1>8. \A k \in DOMAIN log : log[k].seq = k /\ log[k].prev = IF k = 1 THEN Genesis ELSE Id(log[k - 1])
  BY DEF Chain
<1>. HIDE DEF both, m, n
<1>9. CASE i <= m
  <2>1. i \in 1 .. m /\ both[i] = log[i]  BY <1>1, <1>2, <1>9
  <2>2. i # 1 => i - 1 \in 1 .. m + n /\ i - 1 <= m  BY <1>1, <2>1
  <2>3. i # 1 => both[i - 1] = log[i - 1]  BY <1>2, <2>2
  <2>. QED  BY <1>1, <1>8, <2>1, <2>3
<1>10. CASE i = m + 1
  <2>1. 1 \in DOMAIN own /\ both[i] = own[1]  BY <1>1, <1>2, <1>10
  <2>2. own[1].seq = i /\ own[1].prev = Newest(log)  BY <1>1, <1>7, <1>10, <2>1
  <2>3. m # 0 => m \in 1 .. m + n /\ m <= m /\ i - 1 = m /\ i # 1  BY <1>1, <1>10
  <2>4. m # 0 => both[i - 1] = log[m]  BY <1>2, <2>3
  <2>5. m = 0 => i = 1  BY <1>1, <1>10
  <2>. QED  BY <1>3, <1>4, <1>5, <2>1, <2>2, <2>3, <2>4, <2>5
<1>11. CASE i > m + 1
  <2>. DEFINE k == i - m
  <2>1. k \in 1 .. n /\ k # 1 /\ i # 1 /\ ~(i <= m) /\ ~(i - 1 <= m) /\ i \in 1 .. m + n /\ i - 1 \in 1 .. m + n
        /\ (i - 1) - m = k - 1 /\ m + k = i
    BY <1>1, <1>2, <1>11
  <2>2. both[i] = own[k] /\ both[i - 1] = own[k - 1]  BY <1>2, <2>1
  <2>3. own[k].seq = m + k /\ own[k].prev = Id(own[k - 1])  BY <1>1, <1>7, <2>1
  <2>. QED  BY <2>1, <2>2, <2>3
<1>12. i \in Nat /\ m \in Nat  BY <1>1, <1>2
<1>. QED  BY <1>9, <1>10, <1>11, <1>12

\* One more row that follows.
LEMMA FollowsMore ==
  ASSUME NEW log \in Seq(Row), NEW own \in Seq(Row), NEW t, Follows(own, log, t), NEW row \in Row,
         row.seq = Len(log) + Len(own) + 1, row.by = t, row.prev = Newest(log \o own)
  PROVE  Follows(Append(own, row), log, t)
<1>. DEFINE new == Append(own, row)
            m == Len(log)
            n == Len(own)
<1>1. m \in Nat /\ n \in Nat /\ DOMAIN own = 1 .. n /\ (own = <<>> <=> n = 0)  OBVIOUS
<1>2. DOMAIN new = 1 .. n + 1 /\ new[n + 1] = row /\ \A i \in 1 .. n : new[i] = own[i]  OBVIOUS
<1>3. row.prev = IF own = <<>> THEN Newest(log) ELSE Newest(own)  BY NewestTogether
<1>4. own # <<>> => Newest(own) = Id(own[n])  BY DEF Newest
<1>5. \A k \in DOMAIN own : /\ own[k].seq = m + k /\ own[k].by = t
                            /\ own[k].prev = IF k = 1 THEN Newest(log) ELSE Id(own[k - 1])
  BY DEF Follows
<1>6. row.seq = m + (n + 1)  BY <1>1
<1>. HIDE DEF new, m, n
<1>7. ASSUME NEW i \in DOMAIN new
      PROVE  new[i].seq = m + i /\ new[i].by = t /\ new[i].prev = IF i = 1 THEN Newest(log) ELSE Id(new[i - 1])
  <2>1. CASE i = n + 1
    <3>1. n = 0 => i = 1  BY <1>1, <2>1
    <3>2. n # 0 => i # 1 /\ i - 1 = n /\ n \in 1 .. n  BY <1>1, <2>1
    <3>3. n # 0 => new[i - 1] = own[n]  BY <1>2, <3>2
    <3>4. new[i] = row  BY <1>2, <2>1
    <3>5. row.seq = m + i  BY <1>6, <2>1
    <3>. QED  BY <1>1, <1>3, <1>4, <3>1, <3>2, <3>3, <3>4, <3>5
  <2>2. CASE i # n + 1
    <3>1. i \in 1 .. n /\ new[i] = own[i]  BY <1>1, <1>2, <2>2
    <3>2. i # 1 => i - 1 \in 1 .. n  BY <1>1, <3>1
    <3>3. i # 1 => new[i - 1] = own[i - 1]  BY <1>2, <3>2
    <3>. QED  BY <1>1, <1>5, <3>1, <3>3
  <2>. QED  BY <2>1, <2>2
<1>. QED  BY <1>7 DEF Follows, new, m

\* A log and one more row.
LEMMA OneMore ==
  ASSUME NEW log \in Seq(Row), NEW own \in Seq(Row), Len(own) = 1
  PROVE  /\ log \o own \in Seq(Row) /\ DOMAIN (log \o own) = 1 .. Len(log) + 1 /\ DOMAIN log = 1 .. Len(log)
         /\ (log \o own)[Len(log) + 1] = own[1] /\ \A i \in DOMAIN log : (log \o own)[i] = log[i]
         /\ Len(log) \in Nat /\ Len(log \o own) = Len(log) + 1
<1>. DEFINE both == log \o own
            m == Len(log)
<1>1. m \in Nat /\ DOMAIN log = 1 .. m  OBVIOUS
<1>2. both \in Seq(Row) /\ Len(both) = m + 1 /\ DOMAIN both = 1 .. m + 1
      /\ \A i \in 1 .. m + 1 : both[i] = IF i <= m THEN log[i] ELSE own[i - m]
  <2>1. /\ both \in Seq(Row) /\ Len(both) = Len(log) + Len(own)
        /\ \A i \in 1 .. Len(log) + Len(own) : both[i] = IF i <= Len(log) THEN log[i] ELSE own[i - Len(log)]
    BY ConcatProperties
  <2>2. DOMAIN both = 1 .. Len(both)  BY <2>1
  <2>. QED  BY <2>1, <2>2
<1>. HIDE DEF both, m
<1>3. m + 1 \in 1 .. m + 1 /\ ~(m + 1 <= m) /\ (m + 1) - m = 1  BY <1>1
<1>4. both[m + 1] = own[1]  BY <1>2, <1>3
<1>5. \A i \in 1 .. m : i \in 1 .. m + 1 /\ i <= m  BY <1>1
<1>6. \A i \in 1 .. m : both[i] = log[i]  BY <1>2, <1>5
<1>. QED  BY <1>1, <1>2, <1>4, <1>6 DEF both, m

\* The audit log grows by an entry of a serializable transaction that names the last one.
LEMMA LinkedGrows ==
  ASSUME NEW log \in Seq(Row), NEW own \in Seq(Row), Len(own) = 1, NEW ops, Linked(log, ops),
         own[1].by \in Txn, Operations[ops[own[1].by]].isolation = "SERIALIZABLE", own[1].prev = Id(log[Len(log)])
  PROVE  Linked(log \o own, ops)
<1>. DEFINE both == log \o own
            m == Len(log)
<1>1. m \in Nat /\ m >= 1 /\ DOMAIN log = 1 .. m /\ DOMAIN both = 1 .. m + 1 /\ Len(both) = m + 1
      /\ both[m + 1] = own[1] /\ \A i \in 1 .. m : both[i] = log[i]
  BY OneMore DEF Linked
<1>2. \A i \in 1 .. m : log[i].prev = IF i = 1 THEN Genesis ELSE Id(log[i - 1])  BY <1>1 DEF Linked
<1>3. \A i \in 1 .. m : i > 1 => log[i].by \in Txn /\ Operations[ops[log[i].by]].isolation = "SERIALIZABLE"
  BY <1>1 DEF Linked
<1>. HIDE DEF both, m
<1>4. ASSUME NEW i \in 1 .. m + 1
      PROVE  /\ both[i].prev = IF i = 1 THEN Genesis ELSE Id(both[i - 1])
             /\ i > 1 => both[i].by \in Txn /\ Operations[ops[both[i].by]].isolation = "SERIALIZABLE"
  <2>1. CASE i = m + 1
    <3>1. i # 1 /\ i - 1 = m /\ m \in 1 .. m  BY <1>1, <2>1
    <3>. QED  BY <1>1, <2>1, <3>1 DEF m
  <2>2. CASE i # m + 1
    <3>1. i \in 1 .. m /\ (i # 1 => i - 1 \in 1 .. m)  BY <1>1, <2>2
    <3>. QED  BY <1>1, <1>2, <1>3, <3>1
  <2>. QED  BY <2>1, <2>2
<1>5. m + 1 >= 1  BY <1>1
<1>6. /\ \A i \in DOMAIN both : both[i].prev = IF i = 1 THEN Genesis ELSE Id(both[i - 1])
      /\ \A i \in DOMAIN both : i > 1 => both[i].by \in Txn /\ Operations[ops[both[i].by]].isolation = "SERIALIZABLE"
      /\ Len(both) >= 1
  BY <1>1, <1>4, <1>5
<1>. QED  BY <1>6 DEF Linked, both

\* The events of a publication grow by those of other operations, or by one of the
\* operation that is stored once, when there is none yet.
LEMMA SingleGrows ==
  ASSUME NEW log \in Seq(Row), NEW own \in Seq(Row), NEW t \in Txn, NEW ops, Single(log, ops),
         \A i \in DOMAIN own : own[i].by = t,
         ops[t] = Once /\ own # <<>> => Len(own) = 1 /\ \A i \in DOMAIN log : ops[log[i].by] # Once
  PROVE  Single(log \o own, ops)
<1>. DEFINE both == log \o own
            m == Len(log)
            n == Len(own)
<1>1. m \in Nat /\ n \in Nat /\ DOMAIN log = 1 .. m /\ DOMAIN own = 1 .. n /\ (own = <<>> <=> n = 0)  OBVIOUS
<1>2. DOMAIN both = 1 .. m + n
      /\ \A i \in 1 .. m + n : both[i] = IF i <= m THEN log[i] ELSE own[i - m]
  BY ConcatProperties
<1>3. \A i \in 1 .. m : log[i].by \in Txn  BY <1>1 DEF Single
<1>4. \A i, j \in 1 .. m : ops[log[i].by] = Once /\ ops[log[j].by] = Once => i = j  BY <1>1 DEF Single
<1>. HIDE DEF both, m, n
<1>5. \A i \in 1 .. m + n : \/ i \in 1 .. m /\ both[i] = log[i]
                            \/ i > m /\ both[i].by = t
  <2>1. \A i \in 1 .. m + n : i <= m => i \in 1 .. m  BY <1>1
  <2>2. \A i \in 1 .. m + n : ~(i <= m) => i > m /\ i - m \in 1 .. n  BY <1>1
  <2>. QED  BY <1>1, <1>2, <2>1, <2>2
<1>6. ASSUME NEW i \in 1 .. m + n, NEW j \in 1 .. m + n, ops[both[i].by] = Once, ops[both[j].by] = Once
      PROVE  i = j
  <2>1. CASE ops[t] = Once /\ n # 0
    <3>1. n = 1 /\ \A k \in 1 .. m : ops[log[k].by] # Once  BY <1>1, <2>1 DEF n
    <3>2. i > m /\ j > m  BY <1>5, <1>6, <3>1
    <3>. QED  BY <1>1, <3>1, <3>2
  <2>2. CASE ops[t] # Once
    <3>1. i \in 1 .. m /\ j \in 1 .. m /\ both[i] = log[i] /\ both[j] = log[j]  BY <1>5, <1>6, <2>2
    <3>. QED  BY <1>4, <1>6, <3>1
  <2>3. CASE n = 0
    <3>1. i \in 1 .. m /\ j \in 1 .. m  BY <1>1, <2>3
    <3>2. both[i] = log[i] /\ both[j] = log[j]  BY <1>1, <1>5, <3>1
    <3>. QED  BY <1>4, <1>6, <3>1, <3>2
  <2>. QED  BY <2>1, <2>2, <2>3
<1>7. \A i \in 1 .. m + n : both[i].by \in Txn  BY <1>3, <1>5
<1>8. /\ \A i \in DOMAIN both : both[i].by \in Txn
      /\ \A i, j \in DOMAIN both : ops[both[i].by] = Once /\ ops[both[j].by] = Once => i = j
  BY <1>2, <1>6, <1>7
<1>. QED  BY <1>8 DEF Single, both

\* A chain verifies.
LEMMA ChainVerifies ==
  ASSUME NEW log \in Seq(Row), Chain(log)
  PROVE  verifyIncidentEventChain(log)
<1>. DEFINE m == Len(log)
<1>1. m \in Nat /\ DOMAIN log = 1 .. m  OBVIOUS
<1>2. \A i \in 1 .. m : log[i].seq = i /\ log[i].prev = IF i = 1 THEN Genesis ELSE Id(log[i - 1])
  BY <1>1 DEF Chain
<1>. HIDE DEF m
<1>3. ASSUME NEW n \in 1 .. m
      PROVE  /\ log[n].seq = n
             /\ \A j \in 1 .. m : log[j].seq = n => j = n
             /\ IF n = 1 THEN log[n].prev = Genesis
                ELSE \E j \in 1 .. m : log[j].seq = n - 1 /\ log[n].prev = Id(log[j])
  <2>1. n # 1 => n - 1 \in 1 .. m  BY <1>1
  <2>2. n # 1 => log[n - 1].seq = n - 1 /\ log[n].prev = Id(log[n - 1])  BY <1>2, <2>1
  <2>. QED  BY <1>2, <2>1, <2>2
<1>4. ASSUME NEW n \in 1 .. m
      PROVE  \E i \in DOMAIN log :
               /\ log[i].seq = n
               /\ \A j \in DOMAIN log : log[j].seq = n => j = i
               /\ IF n = 1 THEN log[i].prev = Genesis
                  ELSE \E j \in DOMAIN log : log[j].seq = n - 1 /\ log[i].prev = Id(log[j])
  <2>1. n \in DOMAIN log  BY <1>1
  <2>2. log[n].seq = n /\ \A j \in DOMAIN log : log[j].seq = n => j = n  BY <1>1, <1>3
  <2>3. n = 1 => log[n].prev = Genesis  BY <1>3
  <2>4. n # 1 => \E j \in DOMAIN log : log[j].seq = n - 1 /\ log[n].prev = Id(log[j])  BY <1>1, <1>3
  <2>. WITNESS n \in DOMAIN log
  <2>. QED  BY <2>2, <2>3, <2>4
<1>. QED  BY <1>4 DEF verifyIncidentEventChain, m

-----------------------------------------------------------------------------
(* What a transaction knows while others go on.                            *)

\* The logs only grow at their ends.
Extends(old, new) ==
  \A table \in Table : Len(old[table]) <= Len(new[table])
                       /\ \A i \in DOMAIN old[table] : i \in DOMAIN new[table] /\ new[table][i] = old[table][i]

LEMMA KnowsKept ==
  ASSUME NEW t, NEW x, NEW o, NEW ops, NEW log \in [Table -> Seq(Row)], NEW new \in [Table -> Seq(Row)],
         Knows(t, x, o, log, ops), Extends(log, new),
         \A table \in Events : x.rows[table] # <<>> => new[table] = log[table],
         o \in DOMAIN Operations
  PROVE  Knows(t, x, o, new, ops)
<1>1. x \in Transaction /\ x.at \in DOMAIN Operations[o].appends  BY DEF Knows
<1>2. \A table \in Table : x.snapshot[table] \in Nat  BY <1>1 DEF Transaction
<1>3. \A table \in Table : Len(log[table]) \in Nat /\ Len(new[table]) \in Nat /\ DOMAIN log[table] = 1 .. Len(log[table])
  OBVIOUS
<1>4. Seen(x, new)
  <2>1. \A table \in Table : x.snapshot[table] <= Len(log[table]) /\ Len(log[table]) <= Len(new[table])
    BY DEF Knows, Seen, Extends
  <2>2. \A table \in Table : x.snapshot[table] <= Len(new[table])  BY <1>2, <1>3, <2>1
  <2>. QED  BY <2>2 DEF Knows, Seen
<1>5. x.step \in {"row", "insert", "commit"} => new["AuditLog"][x.snapshot["AuditLog"]] = log["AuditLog"][x.snapshot["AuditLog"]]
  <2>. DEFINE n == x.snapshot["AuditLog"]
  <2>1. x.step \in {"row", "insert", "commit"} => n \in Nat /\ n >= 1 /\ n <= Len(log["AuditLog"])
    BY <1>2, Tables DEF Knows, Seen
  <2>. HIDE DEF n
  <2>2. x.step \in {"row", "insert", "commit"} => n \in DOMAIN log["AuditLog"]  BY <1>3, <2>1, Tables
  <2>3. x.step \in {"row", "insert", "commit"} => new["AuditLog"][n] = log["AuditLog"][n]  BY <2>2, Tables DEF Extends
  <2>. QED  BY <2>3 DEF n
<1>6. Looked(x, o, new)
  <2>1. SUFFICES ASSUME x.step \in {"row", "insert"}  PROVE Looked(x, o, new)  BY DEF Looked
  <2>. DEFINE table == Target(o, x)
              own == x.rows[table]
  <2>2. table \in Events /\ own # <<>> => x.latest = Newest(own)  BY <2>1 DEF Knows, Looked
  <2>3. table \in Events /\ own = <<>> => x.latest = Genesis \/ \E k \in DOMAIN new[table] : x.latest = Id(new[table][k])
    <3>1. SUFFICES ASSUME table \in Events, own = <<>>, x.latest # Genesis
                   PROVE  \E k \in DOMAIN new[table] : x.latest = Id(new[table][k])
      OBVIOUS
    <3>2. PICK k \in DOMAIN log[table] : x.latest = Id(log[table][k])  BY <2>1, <3>1 DEF Knows, Looked
    <3>3. k \in DOMAIN new[table] /\ new[table][k] = log[table][k]  BY <3>1, <3>2, Tables DEF Extends
    <3>. QED  BY <3>2, <3>3
  <2>4. table = "AuditLog" => x.latest = Id(new["AuditLog"][x.snapshot["AuditLog"]])  BY <1>5, <2>1 DEF Knows, Looked
  <2>. HIDE DEF table
  <2>. QED  BY <2>2, <2>3, <2>4 DEF Looked, table
<1>7. Queued(t, x, o, new, ops)
  <2>1. \A table \in Events : Follows(x.rows[table], new[table], t)
    <3>1. SUFFICES ASSUME NEW table \in Events  PROVE Follows(x.rows[table], new[table], t)  OBVIOUS
    <3>2. CASE x.rows[table] = <<>>  BY <3>2 DEF Follows
    <3>3. CASE x.rows[table] # <<>>
      <4>1. new[table] = log[table]  BY <3>3
      <4>. QED  BY <4>1 DEF Knows, Queued
    <3>. QED  BY <3>2, <3>3
  <2>2. o = Once /\ x.rows["PublicationEvent"] # <<>> =>
          /\ Len(x.rows["PublicationEvent"]) = 1
          /\ \A i \in DOMAIN new["PublicationEvent"] : ops[new["PublicationEvent"][i].by] # Once
    <3>1. x.rows["PublicationEvent"] # <<>> => new["PublicationEvent"] = log["PublicationEvent"]  BY Tables
    <3>. QED  BY <3>1 DEF Knows, Queued
  <2>3. x.step # "commit" => x.rows["AuditLog"] = <<>>  BY DEF Knows, Queued
  <2>. QED  BY <1>5, <2>1, <2>2, <2>3 DEF Knows, Queued
<1>. QED  BY <1>1, <1>4, <1>6, <1>7 DEF Knows

\* A transaction that moves on without appending keeps what it has appended.
LEMMA QueuedKept ==
  ASSUME NEW t, NEW x, NEW y, NEW o, NEW log, NEW ops, Queued(t, x, o, log, ops), y.rows = x.rows,
         x.step # "commit", y.step # "commit"
  PROVE  Queued(t, y, o, log, ops)
BY DEF Queued

\* A transaction that has appended nothing.
LEMMA EmptyFields ==
  /\ Empty \in [Table -> Seq(Row)] /\ \A table \in Table : Empty[table] = <<>>
BY DEF Empty

LEMMA StartsAgain ==
  ASSUME NEW t, NEW y, NEW o \in DOMAIN Operations, NEW log \in [Table -> Seq(Row)], NEW ops,
         y \in Transaction, y.at = 1, y.step \in {"begin", "done", "failed"}, y.rows = Empty,
         \A table \in Table : y.snapshot[table] = 0
  PROVE  Knows(t, y, o, log, ops)
<1>1. 1 \in DOMAIN Operations[o].appends
  <2>. DEFINE list == Operations[o].appends
              n == Len(list)
  <2>1. n \in 1 .. 3 /\ DOMAIN list = 1 .. n  BY OperationFacts DEF Proper
  <2>. HIDE DEF n, list
  <2>2. 1 \in DOMAIN list  BY <2>1
  <2>. QED  BY <2>2 DEF list
<1>2. \A table \in Table : 0 <= Len(log[table])  OBVIOUS
<1>3. Seen(y, log)  BY <1>2 DEF Seen
<1>4. Looked(y, o, log)  BY DEF Looked
<1>5. \A table \in Events : Follows(y.rows[table], log[table], t)  BY EmptyFields, Tables DEF Follows
<1>6. Queued(t, y, o, log, ops)  BY <1>5, EmptyFields, Tables DEF Queued
<1>. QED  BY <1>1, <1>3, <1>4, <1>6 DEF Knows


-----------------------------------------------------------------------------
(* The steps of a transaction that commit nothing.                         *)

\* No other transaction has uncommitted events in a table that a transaction is the
\* first to append to.
Alone(t, y) ==
  \A table \in Events : y.rows[table] # <<>> =>
    tx[t].rows[table] # <<>> \/ \A u \in Txn \ {t} : tx[u].rows[table] = <<>>

LEMMA MovesAlone ==
  ASSUME IInv, NEW t \in Txn, NEW y, tx' = [tx EXCEPT ![t] = y], UNCHANGED <<op, rows>>,
         Knows(t, y, op[t], rows, op), Alone(t, y)
  PROVE  IInv'
<1>1. tx \in [Txn -> Transaction] /\ y \in Transaction  BY DEF IInv, Knows
<1>2. tx'[t] = y /\ \A u \in Txn \ {t} : tx'[u] = tx[u]  BY <1>1
<1>3. tx' \in [Txn -> Transaction]  BY <1>1
<1>4. \A u \in Txn : Knows(u, tx[u], op[u], rows, op)  BY DEF IInv
<1>5. \A u \in Txn : Knows(u, tx'[u], op[u], rows, op)  BY <1>2, <1>4
<1>6. Exclusive(tx')
  <2>1. SUFFICES ASSUME NEW u \in Txn, NEW w \in Txn, NEW table \in Events, u # w
                 PROVE  tx'[u].rows[table] = <<>> \/ tx'[w].rows[table] = <<>>
    BY DEF Exclusive
  <2>2. tx[u].rows[table] = <<>> \/ tx[w].rows[table] = <<>>  BY <2>1 DEF IInv, Exclusive
  <2>3. \A v \in Txn : t # v => tx[t].rows[table] = <<>> \/ tx[v].rows[table] = <<>>  BY DEF IInv, Exclusive
  <2>4. CASE u = t
    <3>1. w # t /\ tx'[w] = tx[w]  BY <1>2, <2>1, <2>4
    <3>. QED  BY <1>2, <2>3, <2>4, <3>1 DEF Alone
  <2>5. CASE w = t
    <3>1. u # t /\ tx'[u] = tx[u]  BY <1>2, <2>1, <2>5
    <3>. QED  BY <1>2, <2>3, <2>5, <3>1 DEF Alone
  <2>. QED  BY <1>2, <2>2, <2>4, <2>5
<1>. QED  BY <1>3, <1>5, <1>6 DEF IInv

LEMMA CurrentIs ==
  ASSUME IInv, NEW t \in Txn
  PROVE  /\ Current(t).table \in Table /\ Current(t).table = Target(op[t], tx[t])
         /\ Current(t).lock \in LockName \cup {Unlocked}
         /\ Current(t).once <=> op[t] = Once
         /\ Current(t).table = "AuditLog" =>
              tx[t].at = Len(appends(t)) /\ isolation(t) = "SERIALIZABLE" /\ op[t] # Once
         /\ op[t] = Once => Len(appends(t)) = 1 /\ Current(t).table = "PublicationEvent"
         /\ Len(appends(t)) \in 1 .. 3 /\ DOMAIN appends(t) = 1 .. Len(appends(t)) /\ tx[t].at \in DOMAIN appends(t)
<1>1. op[t] \in DOMAIN Operations /\ Knows(t, tx[t], op[t], rows, op)  BY DEF IInv
<1>2. Proper(op[t])  BY <1>1, OperationFacts
<1>3. tx[t].at \in DOMAIN appends(t)  BY <1>1 DEF Knows, appends
<1>4. Fine(Current(t), tx[t].at, Len(appends(t)), isolation(t), op[t])
  BY <1>2, <1>3 DEF Proper, Current, appends, isolation
<1>5. Current(t).table = Target(op[t], tx[t])  BY DEF Current, appends, Target
<1>6. Len(appends(t)) \in 1 .. 3 /\ DOMAIN appends(t) = 1 .. Len(appends(t))  BY <1>2 DEF Proper, appends
<1>. QED  BY <1>3, <1>4, <1>5, <1>6 DEF Fine

LEMMA FreshFields ==
  /\ Fresh \in Transaction /\ Fresh.at = 1 /\ Fresh.rows = Empty /\ \A table \in Table : Fresh.snapshot[table] = 0
<1>1. 1 \in 1 .. 3 /\ 1 \in 1 .. MaxRetries /\ 0 \in Nat  BY EventChainAssumption
<1>2. Genesis \in RowId  BY DEF Genesis, RowId
<1>3. Empty \in [Table -> Seq(Row)]  BY EmptyFields
<1>4. [table \in Table |-> 0] \in [Table -> Nat]  OBVIOUS
<1>. QED  BY <1>1, <1>2, <1>3, <1>4 DEF Fresh, Transaction, Steps

\* A transaction that starts again or is at its end.
Restart(step, attempt) == [Fresh EXCEPT !.attempt = attempt, !.step = step]

LEMMA RestartFields ==
  ASSUME NEW step \in {"begin", "done", "failed"}, NEW attempt \in 1 .. MaxRetries
  PROVE  /\ Restart(step, attempt) \in Transaction /\ Restart(step, attempt).at = 1
         /\ Restart(step, attempt).rows = Empty /\ Restart(step, attempt).step = step
         /\ \A table \in Table : Restart(step, attempt).snapshot[table] = 0
<1>1. step \in Steps  BY DEF Steps
<1>. QED  BY <1>1, FreshFields DEF Restart, Transaction, Fresh

LEMMA RollbackStep ==
  ASSUME IInv, NEW t \in Txn, NEW error, rollback(t, error), UNCHANGED <<op, rows>>
  PROVE  IInv'
<1>. DEFINE again == mayRetry(tx[t].attempt) /\ isRetryableDatabaseError(error)
            attempt == IF again THEN tx[t].attempt + 1 ELSE tx[t].attempt
            step == IF again THEN "begin" ELSE "failed"
            y == Restart(step, attempt)
<1>1. tx[t].attempt \in 1 .. MaxRetries  BY DEF IInv, Transaction
<1>2. attempt \in 1 .. MaxRetries /\ step \in {"begin", "failed"}  BY <1>1, EventChainAssumption DEF mayRetry
<1>3. tx' = [tx EXCEPT ![t] = y]  BY DEF rollback, Become, Restart
<1>. HIDE DEF attempt, step
<1>4. Restart(step, attempt) \in Transaction /\ y.at = 1 /\ y.rows = Empty /\ y.step = step
      /\ \A table \in Table : y.snapshot[table] = 0
  BY <1>2, RestartFields
<1>. HIDE DEF y
<1>5. y \in Transaction  BY <1>4 DEF y
<1>6. op[t] \in DOMAIN Operations /\ rows \in [Table -> Seq(Row)]  BY DEF IInv, Committed
<1>7. y.step \in {"begin", "done", "failed"}  BY <1>2, <1>4
<1>8. Knows(t, y, op[t], rows, op)  BY <1>4, <1>5, <1>6, <1>7, StartsAgain
<1>9. Alone(t, y)  BY <1>4, EmptyFields, Tables DEF Alone
<1>. QED  BY <1>3, <1>8, <1>9, MovesAlone

LEMMA BeginStep ==
  ASSUME IInv, NEW t \in Txn, begin(t)
  PROVE  IInv'
<1>. DEFINE seen == [table \in Table |-> Len(rows[table])]
            y == [tx[t] EXCEPT !.step = "lock", !.snapshot = seen]
<1>1. tx[t] \in Transaction /\ Knows(t, tx[t], op[t], rows, op) /\ rows \in [Table -> Seq(Row)]
  BY DEF IInv, Committed
<1>2. seen \in [Table -> Nat]
  <2>1. \A table \in Table : Len(rows[table]) \in Nat  BY <1>1
  <2>. QED  BY <2>1
<1>3. \A table \in Table : seen[table] <= Len(rows[table])
  <2>1. \A table \in Table : Len(rows[table]) \in Nat  BY <1>1
  <2>. QED  BY <2>1
<1>4. seen["AuditLog"] >= 1  BY Tables DEF IInv, Committed, Linked
<1>5. tx' = [tx EXCEPT ![t] = y] /\ UNCHANGED <<op, rows>> /\ tx[t].step = "begin"  BY DEF begin, Become, At
<1>. HIDE DEF seen
<1>6. y \in Transaction /\ y.step = "lock" /\ y.at = tx[t].at /\ y.rows = tx[t].rows /\ y.snapshot = seen
  BY <1>1, <1>2 DEF Transaction, Steps
<1>. HIDE DEF y
<1>7. Seen(y, rows)  BY <1>3, <1>4, <1>6 DEF Seen
<1>8. Looked(y, op[t], rows)  BY <1>6 DEF Looked
<1>9. Queued(t, y, op[t], rows, op)  BY <1>1, <1>5, <1>6, QueuedKept DEF Knows
<1>10. Knows(t, y, op[t], rows, op)  BY <1>1, <1>6, <1>7, <1>8, <1>9 DEF Knows
<1>11. Alone(t, y)  BY <1>6 DEF Alone
<1>. QED  BY <1>5, <1>10, <1>11, MovesAlone

\* A step that appends nothing and keeps the snapshot.
LEMMA LookingStep ==
  ASSUME IInv, NEW t \in Txn, NEW y, tx' = [tx EXCEPT ![t] = y], UNCHANGED <<op, rows>>,
         tx[t].step \in {"lock", "select", "row"}, y \in Transaction, y.step \in {"select", "row", "insert"},
         y.at = tx[t].at, y.rows = tx[t].rows, y.snapshot = tx[t].snapshot, Looked(y, op[t], rows)
  PROVE  IInv'
<1>1. Knows(t, tx[t], op[t], rows, op)  BY DEF IInv
<1>2. Seen(y, rows)  BY <1>1 DEF Knows, Seen
<1>3. Queued(t, y, op[t], rows, op)
  <2>1. Queued(t, tx[t], op[t], rows, op) /\ tx[t].step # "commit" /\ y.step # "commit"  BY <1>1 DEF Knows
  <2>. QED  BY <2>1, QueuedKept
<1>4. Knows(t, y, op[t], rows, op)  BY <1>1, <1>2, <1>3 DEF Knows
<1>5. Alone(t, y)  BY DEF Alone
<1>. QED  BY <1>4, <1>5, MovesAlone

LEMMA TakeLockStep ==
  ASSUME IInv, NEW t \in Txn, takeLock(t)
  PROVE  IInv'
<1>. DEFINE lock == <<Current(t).lock, 0>>
            y == [tx[t] EXCEPT !.step = "select"]
            z == [tx[t] EXCEPT !.step = "select", !.locks = tx[t].locks \cup {lock}]
<1>1. tx[t] \in Transaction  BY DEF IInv
<1>2. tx[t].step = "lock" /\ UNCHANGED <<op, rows>>  BY DEF takeLock, At
<1>3. CASE Current(t).lock = Unlocked
  <2>1. tx' = [tx EXCEPT ![t] = y]  BY <1>3 DEF takeLock, Become
  <2>2. y \in Transaction /\ y.step = "select" /\ y.at = tx[t].at /\ y.rows = tx[t].rows /\ y.snapshot = tx[t].snapshot
    BY <1>1 DEF Transaction, Steps
  <2>3. Looked(y, op[t], rows)  BY DEF Looked
  <2>. HIDE DEF y
  <2>. QED  BY <1>2, <2>1, <2>2, <2>3, LookingStep
<1>4. CASE Current(t).lock # Unlocked
  <2>1. tx' = [tx EXCEPT ![t] = z]  BY <1>4 DEF takeLock, Become
  <2>2. lock \in (LockName \cup Table) \X Nat  BY <1>4, CurrentIs
  <2>. HIDE DEF lock
  <2>3. z \in Transaction /\ z.step = "select" /\ z.at = tx[t].at /\ z.rows = tx[t].rows /\ z.snapshot = tx[t].snapshot
    BY <1>1, <2>2 DEF Transaction, Steps
  <2>4. Looked(z, op[t], rows)  BY DEF Looked
  <2>. HIDE DEF z
  <2>. QED  BY <1>2, <2>1, <2>3, <2>4, LookingStep
<1>. QED  BY <1>3, <1>4


\* The newest row of a snapshot.
LEMMA NewestSeen ==
  ASSUME NEW log \in Seq(Row), NEW n \in Nat, n <= Len(log)
  PROVE  /\ SubSeq(log, 1, n) \in Seq(Row)
         /\ n = 0 => Newest(SubSeq(log, 1, n)) = Genesis
         /\ n # 0 => Newest(SubSeq(log, 1, n)) = Id(log[n]) /\ n \in DOMAIN log
<1>. DEFINE base == SubSeq(log, 1, n)
            m == Len(log)
<1>1. m \in Nat /\ DOMAIN log = 1 .. m /\ \A i \in 1 .. m : log[i] \in Row  OBVIOUS
<1>2. base \in Seq(Row) /\ Len(base) = n /\ \A i \in 1 .. n : base[i] = log[i]
  <2>1. \A i \in 1 .. n : log[i] \in Row  BY <1>1
  <2>. QED  BY <2>1, SubSeqProperties
<1>3. n # 0 => n \in 1 .. n /\ n \in 1 .. m  BY <1>1
<1>. HIDE DEF base, m
<1>4. n = 0 => base = <<>>  BY <1>2
<1>5. n # 0 => base # <<>>  BY <1>2
<1>6. n # 0 => base[Len(base)] = log[n] /\ n \in DOMAIN log  BY <1>1, <1>2, <1>3
<1>7. n # 0 => Newest(base) = Id(log[n])  BY <1>5, <1>6 DEF Newest
<1>8. n = 0 => Newest(base) = Genesis  BY <1>4 DEF Newest
<1>. QED  BY <1>2, <1>6, <1>7, <1>8 DEF base

LEMMA LevelsDiffer == ReadCommitted # "SERIALIZABLE"
BY Zenon DEF ReadCommitted

\* What the SELECT finds.
LEMMA Finds ==
  ASSUME IInv, NEW t \in Txn, tx[t].step = "select", NEW table, table = Current(t).table
  PROVE  /\ Newest(Visible(t, table)) \in RowId
         /\ tx[t].rows[table] # <<>> => Newest(Visible(t, table)) = Newest(tx[t].rows[table])
         /\ tx[t].rows[table] = <<>> => \/ Newest(Visible(t, table)) = Genesis
                                        \/ \E k \in DOMAIN rows[table] : Newest(Visible(t, table)) = Id(rows[table][k])
         /\ table = "AuditLog" => Newest(Visible(t, table)) = Id(rows["AuditLog"][tx[t].snapshot["AuditLog"]])
<1>. DEFINE log == rows[table]
            own == tx[t].rows[table]
            n == tx[t].snapshot[table]
            base == IF isolation(t) = ReadCommitted THEN log ELSE SubSeq(log, 1, n)
<1>1. table \in Table  BY CurrentIs
<1>2. Knows(t, tx[t], op[t], rows, op) /\ tx[t] \in Transaction /\ rows \in [Table -> Seq(Row)]
  BY DEF IInv, Committed
<1>3. log \in Seq(Row) /\ own \in Seq(Row) /\ n \in Nat /\ n <= Len(log)
  BY <1>1, <1>2 DEF Transaction, Knows, Seen
<1>4. Visible(t, table) = base \o own  BY DEF Visible
<1>5. base \in Seq(Row)
  <2>1. SubSeq(log, 1, n) \in Seq(Row)  BY <1>3, NewestSeen
  <2>. QED  BY <1>3, <2>1
<1>6. Newest(base) = Genesis \/ \E k \in DOMAIN log : Newest(base) = Id(log[k])
  <2>1. CASE isolation(t) = ReadCommitted
    <3>1. base = log  BY <2>1
    <3>. HIDE DEF base, log
    <3>2. Newest(log) = Genesis \/ \E k \in DOMAIN log : Newest(log) = Id(log[k])
      <4>1. log = <<>> => Newest(log) = Genesis  BY <1>3, NewestOf
      <4>2. log # <<>> => Newest(log) = Id(log[Len(log)]) /\ Len(log) \in DOMAIN log  BY <1>3, NewestOf
      <4>. QED  BY <4>1, <4>2
    <3>. QED  BY <3>1, <3>2
  <2>2. CASE isolation(t) # ReadCommitted
    <3>1. base = SubSeq(log, 1, n)  BY <2>2
    <3>. HIDE DEF base, log, n
    <3>2. n = 0 => Newest(base) = Genesis  BY <1>3, <3>1, NewestSeen
    <3>3. n # 0 => Newest(base) = Id(log[n]) /\ n \in DOMAIN log  BY <1>3, <3>1, NewestSeen
    <3>. QED  BY <3>2, <3>3
  <2>. QED  BY <2>1, <2>2
<1>7. table = "AuditLog" => own = <<>> /\ Newest(base) = Id(rows["AuditLog"][tx[t].snapshot["AuditLog"]])
  <2>1. SUFFICES ASSUME table = "AuditLog"
                 PROVE  own = <<>> /\ Newest(base) = Id(rows["AuditLog"][tx[t].snapshot["AuditLog"]])
    OBVIOUS
  <2>2. isolation(t) = "SERIALIZABLE"  BY <2>1, CurrentIs
  <2>3. base = SubSeq(log, 1, n)  BY <2>2, LevelsDiffer
  <2>4. n >= 1 /\ own = <<>>  BY <1>2, <2>1 DEF Knows, Seen, Queued
  <2>. HIDE DEF base
  <2>5. n # 0  BY <1>3, <2>4
  <2>6. Newest(base) = Id(log[n])  BY <1>3, <2>3, <2>5, NewestSeen
  <2>. QED  BY <2>1, <2>4, <2>6
<1>. HIDE DEF base
<1>8. own = <<>> => Newest(base \o own) = Newest(base)  BY <1>3, <1>5, NewestTogether
<1>9. own # <<>> => Newest(base \o own) = Newest(own)  BY <1>3, <1>5, NewestTogether
<1>10. Newest(base) \in RowId /\ Newest(own) \in RowId  BY <1>3, <1>5, NewestOf
<1>11. Newest(base \o own) \in RowId  BY <1>8, <1>9, <1>10
<1>. QED  BY <1>4, <1>6, <1>7, <1>8, <1>9, <1>11

LEMMA SelectStep ==
  ASSUME IInv, NEW t \in Txn, selectLatest(t)
  PROVE  IInv'
<1>. DEFINE table == Current(t).table
            latest == Newest(Visible(t, table))
            step == IF Current(t).forUpdate /\ latest # Genesis THEN "row" ELSE "insert"
            y == [tx[t] EXCEPT !.latest = latest, !.step = step]
<1>1. tx[t].step = "select" /\ UNCHANGED <<op, rows>> /\ tx' = [tx EXCEPT ![t] = y]
  BY DEF selectLatest, At, Become
<1>2. tx[t] \in Transaction  BY DEF IInv
<1>3. /\ latest \in RowId
      /\ tx[t].rows[table] # <<>> => latest = Newest(tx[t].rows[table])
      /\ tx[t].rows[table] = <<>> => latest = Genesis \/ \E k \in DOMAIN rows[table] : latest = Id(rows[table][k])
      /\ table = "AuditLog" => latest = Id(rows["AuditLog"][tx[t].snapshot["AuditLog"]])
  BY <1>1, Finds
<1>4. step \in {"row", "insert"}  OBVIOUS
<1>. HIDE DEF latest, step
<1>5. y \in Transaction /\ y.step \in {"row", "insert"} /\ y.at = tx[t].at /\ y.rows = tx[t].rows
      /\ y.snapshot = tx[t].snapshot /\ y.latest = latest
  BY <1>2, <1>3, <1>4 DEF Transaction, Steps
<1>6. Target(op[t], y) = table  BY <1>5, CurrentIs DEF Target
<1>. HIDE DEF y, table
<1>7. Looked(y, op[t], rows)  BY <1>3, <1>5, <1>6 DEF Looked
<1>. QED  BY <1>1, <1>5, <1>7, LookingStep

LEMMA LockRowStep ==
  ASSUME IInv, NEW t \in Txn, lockRow(t)
  PROVE  IInv'
<1>. DEFINE lock == <<Current(t).table, tx[t].latest[1]>>
            y == [tx[t] EXCEPT !.step = "insert", !.locks = tx[t].locks \cup {lock}]
<1>1. tx[t].step = "row" /\ UNCHANGED <<op, rows>> /\ tx' = [tx EXCEPT ![t] = y]
  BY DEF lockRow, At, Become
<1>2. tx[t] \in Transaction /\ Knows(t, tx[t], op[t], rows, op)  BY DEF IInv
<1>3. lock \in (LockName \cup Table) \X Nat
  <2>1. tx[t].latest[1] \in Nat  BY <1>2 DEF Transaction, RowId
  <2>. QED  BY <2>1, CurrentIs
<1>. HIDE DEF lock
<1>4. y \in Transaction /\ y.step = "insert" /\ y.at = tx[t].at /\ y.rows = tx[t].rows
      /\ y.snapshot = tx[t].snapshot /\ y.latest = tx[t].latest
  BY <1>2, <1>3 DEF Transaction, Steps
<1>. HIDE DEF y
<1>5. Looked(y, op[t], rows)  BY <1>1, <1>2, <1>4 DEF Knows, Looked, Target
<1>. QED  BY <1>1, <1>4, <1>5, LookingStep


-----------------------------------------------------------------------------
(* The INSERT.                                                             *)

\* What a transaction has appended to the table of its current event becomes log.
LEMMA AdvanceStep ==
  ASSUME IInv, NEW t \in Txn, tx[t].step = "insert", NEW log \in Seq(Row), Advance(t, log), UNCHANGED <<op, rows>>,
         NEW table, table = Current(t).table,
         table \in Events => /\ Follows(log, rows[table], t)
                             /\ tx[t].rows[table] = <<>> /\ log # <<>> => \A u \in Txn \ {t} : tx[u].rows[table] = <<>>,
         table = "AuditLog" => /\ Len(log) = 1 /\ log[1].by = t
                               /\ log[1].prev = Id(rows["AuditLog"][tx[t].snapshot["AuditLog"]]),
         op[t] = Once /\ log # <<>> =>
           Len(log) = 1 /\ \A i \in DOMAIN rows["PublicationEvent"] : op[rows["PublicationEvent"][i].by] # Once
  PROVE  IInv'
<1>. DEFINE n == Len(appends(t))
            at == IF tx[t].at < n THEN tx[t].at + 1 ELSE tx[t].at
            step == IF tx[t].at < n THEN "lock" ELSE "commit"
            y == [tx[t] EXCEPT !.rows[table] = log, !.latest = Genesis, !.at = at, !.step = step]
<1>1. tx[t] \in Transaction /\ Knows(t, tx[t], op[t], rows, op)  BY DEF IInv
<1>2. tx' = [tx EXCEPT ![t] = y]  BY DEF Advance, Become
<1>3. n \in 1 .. 3 /\ tx[t].at \in 1 .. n  BY CurrentIs
<1>4. table = "AuditLog" \/ op[t] = Once => tx[t].at = n
  <2>1. table = "AuditLog" => tx[t].at = n  BY CurrentIs
  <2>2. op[t] = Once => n = 1  BY CurrentIs
  <2>. HIDE DEF n
  <2>3. n = 1 => tx[t].at = n  BY <1>3
  <2>. QED  BY <2>1, <2>2, <2>3
<1>5. n \in 1 .. 3 /\ tx[t].at \in 1 .. n /\ at \in 1 .. 3 /\ at \in 1 .. n /\ step \in {"lock", "commit"}
  <2>. HIDE DEF n
  <2>1. tx[t].at < n => tx[t].at + 1 \in 1 .. n /\ tx[t].at + 1 \in 1 .. 3  BY <1>3
  <2>2. tx[t].at \in 1 .. 3  BY <1>3
  <2>. QED  BY <1>3, <2>1, <2>2
<1>6. DOMAIN Operations[op[t]].appends = 1 .. n /\ table \in Table  BY CurrentIs DEF appends
<1>7. Genesis \in RowId  BY DEF Genesis, RowId
<1>8. table = "AuditLog" \/ op[t] = Once => step = "commit"
  <2>. HIDE DEF n
  <2>1. tx[t].at = n => ~(tx[t].at < n)  BY <1>3
  <2>. QED  BY <1>4, <2>1
<1>9. op[t] = Once => table = "PublicationEvent"  BY CurrentIs
<1>. HIDE DEF n, at, step
<1>10. y \in Transaction /\ y.step = step /\ y.at = at /\ y.snapshot = tx[t].snapshot
      /\ y.rows = [tx[t].rows EXCEPT ![table] = log]
  BY <1>1, <1>5, <1>6, <1>7 DEF Transaction, Steps
<1>11. y.rows[table] = log /\ \A other \in Table : other # table => y.rows[other] = tx[t].rows[other]
  <2>1. tx[t].rows \in [Table -> Seq(Row)]  BY <1>1 DEF Transaction
  <2>. HIDE DEF y
  <2>. QED  BY <1>6, <1>10, <2>1
<1>. HIDE DEF y
<1>12. Seen(y, rows)  BY <1>1, <1>10 DEF Knows, Seen
<1>13. Looked(y, op[t], rows)  BY <1>5, <1>10 DEF Looked
<1>14. Queued(t, y, op[t], rows, op)
  <2>1. Queued(t, tx[t], op[t], rows, op) /\ tx[t].step # "commit"  BY <1>1 DEF Knows
  <2>2. \A other \in Events : Follows(y.rows[other], rows[other], t)
    <3>1. SUFFICES ASSUME NEW other \in Events  PROVE Follows(y.rows[other], rows[other], t)  OBVIOUS
    <3>2. CASE other = table  BY <1>11, <3>2
    <3>3. CASE other # table
      <4>1. y.rows[other] = tx[t].rows[other]  BY <1>11, <3>3, Tables
      <4>2. Follows(tx[t].rows[other], rows[other], t)  BY <2>1 DEF Queued
      <4>. QED  BY <4>1, <4>2
    <3>. QED  BY <3>2, <3>3
  <2>3. tx[t].rows["AuditLog"] = <<>> /\ (op[t] = Once => tx[t].rows["PublicationEvent"] = <<>>)
    BY <2>1 DEF Queued
  <2>4. table # "AuditLog" => y.rows["AuditLog"] = <<>>  BY <1>11, <2>3, Tables
  <2>5. y.step # "commit" => y.rows["AuditLog"] = <<>> /\ (op[t] = Once => y.rows["PublicationEvent"] = <<>>)
    BY <1>8, <1>10, <2>4
  <2>6. y.rows["AuditLog"] # <<>> =>
          /\ Len(y.rows["AuditLog"]) = 1 /\ y.rows["AuditLog"][1].by = t
          /\ y.rows["AuditLog"][1].prev = Id(rows["AuditLog"][y.snapshot["AuditLog"]])
          /\ \E a \in DOMAIN Operations[op[t]].appends : Operations[op[t]].appends[a].table = "AuditLog"
    <3>1. SUFFICES ASSUME table = "AuditLog"
                   PROVE  /\ Len(y.rows["AuditLog"]) = 1 /\ y.rows["AuditLog"][1].by = t
                          /\ y.rows["AuditLog"][1].prev = Id(rows["AuditLog"][y.snapshot["AuditLog"]])
                          /\ \E a \in DOMAIN Operations[op[t]].appends : Operations[op[t]].appends[a].table = "AuditLog"
      BY <2>4
    <3>2. Operations[op[t]].appends[tx[t].at].table = "AuditLog" /\ tx[t].at \in DOMAIN Operations[op[t]].appends
      BY <1>5, <1>6, <3>1 DEF Current, appends
    <3>. QED  BY <1>10, <1>11, <3>1, <3>2
  <2>7. op[t] = Once /\ y.rows["PublicationEvent"] # <<>> =>
          /\ Len(y.rows["PublicationEvent"]) = 1
          /\ \A i \in DOMAIN rows["PublicationEvent"] : op[rows["PublicationEvent"][i].by] # Once
    BY <1>9, <1>11
  <2>. QED  BY <2>2, <2>5, <2>6, <2>7 DEF Queued
<1>15. Knows(t, y, op[t], rows, op)  BY <1>5, <1>6, <1>10, <1>12, <1>13, <1>14 DEF Knows
<1>16. Alone(t, y)
  <2>1. SUFFICES ASSUME NEW other \in Events, y.rows[other] # <<>>
                 PROVE  tx[t].rows[other] # <<>> \/ \A u \in Txn \ {t} : tx[u].rows[other] = <<>>
    BY DEF Alone
  <2>2. CASE other = table  BY <1>11, <2>1, <2>2
  <2>3. CASE other # table  BY <1>11, <2>1, <2>3, Tables
  <2>. QED  BY <2>2, <2>3
<1>. QED  BY <1>2, <1>15, <1>16, MovesAlone

\* An event whose number is free goes on where the committed events and those of
\* its own transaction end, and no other transaction has an event in the table
\* that it does not wait for.
LEMMA NextEvent ==
  ASSUME IInv, NEW t \in Txn, tx[t].step = "insert", NEW table \in Events, table = Current(t).table,
         ~Taken(t), ~Pending(t)
  PROVE  /\ tx[t].latest[1] = Len(rows[table]) + Len(tx[t].rows[table])
         /\ tx[t].latest = Newest(rows[table] \o tx[t].rows[table])
         /\ tx[t].rows[table] = <<>> => \A u \in Txn \ {t} : tx[u].rows[table] = <<>>
<1>. DEFINE log == rows[table]
            own == tx[t].rows[table]
            m == Len(log)
            n == Len(own)
<1>1. Knows(t, tx[t], op[t], rows, op) /\ tx[t] \in Transaction /\ rows \in [Table -> Seq(Row)] /\ Chain(log)
  BY DEF IInv, Committed
<1>2. log \in Seq(Row) /\ own \in Seq(Row)  BY <1>1, Tables DEF Transaction
<1>3. /\ own # <<>> => tx[t].latest = Newest(own)
      /\ own = <<>> => tx[t].latest = Genesis \/ \E k \in DOMAIN log : tx[t].latest = Id(log[k])
  <2>1. Target(op[t], tx[t]) = table  BY CurrentIs
  <2>. QED  BY <1>1, <2>1 DEF Knows, Looked
<1>4. m \in Nat /\ n \in Nat /\ DOMAIN log = 1 .. m /\ DOMAIN own = 1 .. n /\ (own = <<>> <=> n = 0) /\ (log = <<>> <=> m = 0)
  BY <1>2
<1>5. \A i \in DOMAIN log : log[i].seq # tx[t].latest[1] + 1  BY DEF Taken
<1>6. \A i \in 1 .. m : log[i].seq = i  BY <1>1, <1>4 DEF Chain
<1>7. Follows(own, log, t)  BY <1>1 DEF Knows, Queued
<1>8. own # <<>> => Newest(own) = Id(own[n])  BY DEF Newest
<1>9. /\ own = <<>> => Newest(log \o own) = Newest(log)
      /\ own # <<>> => Newest(log \o own) = Newest(own)
  BY <1>2, NewestTogether
<1>10. /\ log # <<>> => Newest(log) = Id(log[m])
       /\ log = <<>> => Newest(log) = Genesis
  BY DEF Newest
<1>11. \A k \in 1 .. n : own[k].seq = m + k  BY <1>4, <1>7 DEF Follows
<1>12. ASSUME own = <<>>, NEW u \in Txn \ {t}, tx[u].rows[table] # <<>>, tx[t].latest[1] = m
       PROVE  FALSE
  <2>. DEFINE theirs == tx[u].rows[table]
  <2>1. Knows(u, tx[u], op[u], rows, op) /\ theirs \in Seq(Row)  BY Tables DEF IInv, Transaction
  <2>2. Follows(theirs, log, u)  BY <2>1 DEF Knows, Queued
  <2>3. 1 \in DOMAIN theirs  BY <1>12, <2>1
  <2>4. theirs[1].seq = m + 1  BY <2>2, <2>3 DEF Follows
  <2>. QED  BY <1>12, <2>3, <2>4 DEF Pending
<1>. HIDE DEF log, own, m, n
<1>13. CASE own # <<>>
  <2>1. n \in 1 .. n  BY <1>4, <1>13
  <2>2. tx[t].latest = Id(own[n]) /\ own[n].seq = m + n  BY <1>3, <1>8, <1>11, <1>13, <2>1
  <2>3. tx[t].latest[1] = m + n  BY <2>2 DEF Id
  <2>. QED  BY <1>3, <1>9, <1>13, <2>3 DEF m, n, log, own
<1>14. CASE own = <<>>
  <2>1. CASE tx[t].latest = Genesis
    <3>1. tx[t].latest[1] = 0  BY <2>1 DEF Genesis
    <3>2. m = 0
      <4>1. SUFFICES ASSUME m # 0  PROVE FALSE  OBVIOUS
      <4>2. 1 \in 1 .. m  BY <1>4, <4>1
      <4>. QED  BY <1>4, <1>5, <1>6, <3>1, <4>2
    <3>3. tx[t].latest[1] = m + n  BY <1>4, <1>14, <3>1, <3>2
    <3>4. tx[t].latest = Newest(log)  BY <1>4, <1>10, <2>1, <3>2
    <3>5. tx[t].latest[1] = m  BY <3>1, <3>2
    <3>. QED  BY <1>9, <1>12, <1>14, <3>3, <3>4, <3>5 DEF m, n, log, own
  <2>2. CASE \E k \in DOMAIN log : tx[t].latest = Id(log[k])
    <3>1. PICK k \in 1 .. m : tx[t].latest = Id(log[k])  BY <1>4, <2>2
    <3>2. tx[t].latest[1] = k  BY <1>6, <3>1 DEF Id
    <3>3. k = m
      <4>1. SUFFICES ASSUME k # m  PROVE FALSE  OBVIOUS
      <4>2. k + 1 \in 1 .. m  BY <1>4, <4>1
      <4>. QED  BY <1>4, <1>5, <1>6, <3>2, <4>2
    <3>4. log # <<>>  BY <1>4, <3>1
    <3>5. tx[t].latest = Newest(log) /\ tx[t].latest[1] = m  BY <1>10, <3>1, <3>2, <3>3, <3>4
    <3>6. tx[t].latest[1] = m + n  BY <1>4, <1>14, <3>5
    <3>. QED  BY <1>9, <1>12, <1>14, <3>5, <3>6 DEF m, n, log, own
  <2>. QED  BY <1>3, <1>14, <2>1, <2>2
<1>. QED  BY <1>13, <1>14


LEMMA InsertStep ==
  ASSUME IInv, NEW t \in Txn, insertRow(t)
  PROVE  IInv'
<1>. DEFINE table == Current(t).table
            own == tx[t].rows[table]
            row == [seq |-> Place(t), by |-> t, prev |-> tx[t].latest]
<1>1. tx[t].step = "insert" /\ UNCHANGED <<op, rows>>  BY DEF insertRow, At
<1>2. Knows(t, tx[t], op[t], rows, op) /\ tx[t] \in Transaction /\ rows \in [Table -> Seq(Row)]  BY DEF IInv, Committed
<1>3. table \in Table /\ own \in Seq(Row) /\ rows[table] \in Seq(Row)  BY <1>2, CurrentIs DEF Transaction
<1>4. Queued(t, tx[t], op[t], rows, op)  BY <1>2 DEF Knows
<1>5. op[t] = Once => table = "PublicationEvent" /\ own = <<>>  BY <1>1, <1>4, CurrentIs DEF Queued
<1>6. table = "AuditLog" => own = <<>>  BY <1>1, <1>4 DEF Queued
<1>7. ASSUME NEW error, rollback(t, error)  PROVE IInv'  BY <1>1, <1>7, RollbackStep
<1>8. tx[t].latest \in RowId /\ tx[t].latest[1] \in Nat  BY <1>2 DEF Transaction, RowId
<1>9. \/ Current(t).once /\ Equal(t) # {} /\ ((\E error : rollback(t, error)) \/ Advance(t, own))
      \/ ~(Current(t).once /\ Equal(t) # {}) /\ table = "AuditLog" /\ Advance(t, Append(own, row))
      \/ \E error : rollback(t, error)
      \/ /\ ~(Current(t).once /\ Equal(t) # {}) /\ table # "AuditLog" /\ ~Taken(t) /\ ~Pending(t)
         /\ Advance(t, Append(own, row))
  <2>1. CASE Current(t).once /\ Equal(t) # {}
    <3>1. rollback(t, "40001") \/ Advance(t, own)  BY <2>1 DEF insertRow
    <3>. QED  BY <2>1, <3>1
  <2>2. CASE ~(Current(t).once /\ Equal(t) # {})
    <3>1. CASE table = "AuditLog"
      <4>1. Advance(t, Append(own, row))  BY <2>2, <3>1 DEF insertRow
      <4>. QED  BY <2>2, <3>1, <4>1
    <3>2. CASE table # "AuditLog" /\ Taken(t)
      <4>1. rollback(t, "23505") \/ rollback(t, "40001")  BY <2>2, <3>2 DEF insertRow
      <4>. QED  BY <4>1
    <3>3. CASE table # "AuditLog" /\ ~Taken(t)
      <4>1. ~Pending(t) /\ Advance(t, Append(own, row))  BY <2>2, <3>3 DEF insertRow
      <4>. QED  BY <2>2, <3>3, <4>1
    <3>. QED  BY <3>1, <3>2, <3>3
  <2>. QED  BY <2>1, <2>2
<1>. HIDE DEF table, own
<1>10. CASE Current(t).once /\ Advance(t, own)
  <2>1. op[t] = Once  BY <1>10, CurrentIs
  <2>2. table \in Events /\ own = <<>>  BY <1>5, <2>1, Tables
  <2>3. Follows(own, rows[table], t)  BY <2>2 DEF Follows
  <2>4. table # "AuditLog"  BY <2>2, Tables
  <2>. QED  BY <1>1, <1>3, <1>10, <2>2, <2>3, <2>4, AdvanceStep DEF table
<1>11. CASE table = "AuditLog" /\ Advance(t, Append(own, row))
  <2>1. Place(t) \in Nat \ {0}
    <3>. DEFINE m == Len(rows["AuditLog"])
    <3>1. m \in Nat  BY <1>2, Tables
    <3>2. Place(t) = m + 1  BY <1>11 DEF Place, table
    <3>. HIDE DEF m
    <3>. QED  BY <3>1, <3>2
  <2>2. row \in Row /\ row.by = t /\ row.prev = tx[t].latest  BY <1>8, <2>1 DEF Row, RowId
  <2>. HIDE DEF row
  <2>3. own = <<>>  BY <1>6, <1>11
  <2>4. Append(own, row) \in Seq(Row) /\ Len(Append(own, row)) = 1 /\ Append(own, row)[1] = row
    BY <1>3, <2>2, <2>3
  <2>5. tx[t].latest = Id(rows["AuditLog"][tx[t].snapshot["AuditLog"]])
    <3>1. Target(op[t], tx[t]) = table  BY CurrentIs DEF table
    <3>. QED  BY <1>1, <1>2, <1>11, <3>1 DEF Knows, Looked
  <2>. DEFINE log == Append(own, row)
  <2>6. /\ log \in Seq(Row) /\ Len(log) = 1 /\ log[1].by = t
        /\ log[1].prev = Id(rows["AuditLog"][tx[t].snapshot["AuditLog"]])
    BY <2>2, <2>4, <2>5
  <2>7. op[t] # Once /\ table \notin Events  BY <1>5, <1>11, Tables
  <2>8. Advance(t, log)  BY <1>11
  <2>. HIDE DEF log
  <2>. QED  BY <1>1, <2>6, <2>7, <2>8, AdvanceStep DEF table
<1>12. CASE /\ ~(Current(t).once /\ Equal(t) # {}) /\ table # "AuditLog" /\ ~Taken(t) /\ ~Pending(t)
            /\ Advance(t, Append(own, row))
  <2>1. table \in Events  BY <1>3, <1>12, Tables
  <2>. DEFINE m == Len(rows[table])
              n == Len(own)
              log == Append(own, row)
  <2>2. /\ tx[t].latest[1] = m + n /\ tx[t].latest = Newest(rows[table] \o own)
        /\ own = <<>> => \A u \in Txn \ {t} : tx[u].rows[table] = <<>>
    BY <1>1, <1>12, <2>1, NextEvent DEF table, own
  <2>3. m \in Nat /\ n \in Nat /\ (own = <<>> => n = 0)  BY <1>3
  <2>4. Place(t) = tx[t].latest[1] + 1  BY <1>12 DEF Place, table
  <2>5. row.seq = Place(t) /\ row.by = t /\ row.prev = tx[t].latest  OBVIOUS
  <2>6. Place(t) \in Nat \ {0}  BY <1>8, <2>4
  <2>7. row \in Row  BY <1>8, <2>6 DEF Row, RowId
  <2>. HIDE DEF row
  <2>8. log \in Seq(Row) /\ Len(log) = n + 1  BY <1>3, <2>7
  <2>9. Follows(own, rows[table], t)  BY <1>4, <2>1 DEF Queued, own
  <2>10. row.seq = Len(rows[table]) + Len(own) + 1  BY <2>2, <2>4, <2>5
  <2>11. Follows(log, rows[table], t)  BY <1>3, <2>2, <2>5, <2>7, <2>9, <2>10, FollowsMore
  <2>12. op[t] = Once => Len(log) = 1 /\ \A i \in DOMAIN rows["PublicationEvent"] : op[rows["PublicationEvent"][i].by] # Once
    <3>1. SUFFICES ASSUME op[t] = Once
                   PROVE  Len(log) = 1 /\ \A i \in DOMAIN rows["PublicationEvent"] : op[rows["PublicationEvent"][i].by] # Once
      OBVIOUS
    <3>. HIDE DEF m, n, log
    <3>2. Len(log) = 1  BY <1>5, <2>3, <2>8, <3>1
    <3>3. Equal(t) = {}  BY <1>12, <3>1, CurrentIs
    <3>4. Current(t).table = "PublicationEvent"  BY <3>1, CurrentIs
    <3>. QED  BY <3>1, <3>2, <3>3, <3>4 DEF Equal
  <2>13. Advance(t, log) /\ table # "AuditLog"  BY <1>12
  <2>. HIDE DEF log, m, n
  <2>. QED  BY <1>1, <2>1, <2>2, <2>8, <2>11, <2>12, <2>13, AdvanceStep DEF table, own
<1>. QED  BY <1>7, <1>9, <1>10, <1>11, <1>12 DEF table, own

-----------------------------------------------------------------------------
(* The COMMIT.                                                             *)

\* No serializable transaction has written an audit entry since the snapshot of one
\* that is not refused: the entry it has appended names the last one.
LEMMA NamesTheLast ==
  ASSUME IInv, NEW t \in Txn, tx[t].step = "commit", ~Refused(t), tx[t].rows["AuditLog"] # <<>>
  PROVE  /\ isolation(t) = "SERIALIZABLE"
         /\ tx[t].snapshot["AuditLog"] = Len(rows["AuditLog"])
<1>. DEFINE log == rows["AuditLog"]
            n == tx[t].snapshot["AuditLog"]
            m == Len(log)
<1>1. Knows(t, tx[t], op[t], rows, op) /\ tx[t] \in Transaction /\ log \in Seq(Row) /\ Linked(log, op)
      /\ op[t] \in DOMAIN Operations
  BY Tables DEF IInv, Committed
<1>2. PICK a \in DOMAIN appends(t) : appends(t)[a].table = "AuditLog"
  BY <1>1 DEF Knows, Queued, appends
<1>3. isolation(t) = "SERIALIZABLE"
  <2>1. Proper(op[t])  BY <1>1, OperationFacts
  <2>. QED  BY <1>2, <2>1 DEF Proper, Fine, appends, isolation
<1>4. n \in Nat /\ m \in Nat /\ n >= 1 /\ n <= m /\ DOMAIN log = 1 .. m
  BY <1>1, Tables DEF Transaction, Knows, Seen
<1>5. \A i \in n + 1 .. m : isolation(log[i].by) # "SERIALIZABLE"  BY <1>2, <1>3 DEF Refused
<1>6. \A i \in DOMAIN log : i > 1 => isolation(log[i].by) = "SERIALIZABLE"  BY <1>1 DEF Linked, isolation
<1>. HIDE DEF log, n, m
<1>7. n = m
  <2>1. SUFFICES ASSUME n # m  PROVE FALSE  OBVIOUS
  <2>2. m \in n + 1 .. m /\ m \in 1 .. m /\ m > 1  BY <1>4, <2>1
  <2>. QED  BY <1>4, <1>5, <1>6, <2>2
<1>. QED  BY <1>3, <1>7 DEF n, m, log

LEMMA CommitStep ==
  ASSUME IInv, NEW t \in Txn, commit(t)
  PROVE  IInv'
<1>1. tx[t].step = "commit" /\ op' = op  BY DEF commit, At
<1>2. CASE Refused(t)
  <2>1. rollback(t, "40001") /\ UNCHANGED <<op, rows>>  BY <1>2 DEF commit
  <2>. QED  BY <2>1, RollbackStep
<1>3. CASE ~Refused(t)
  <2>. DEFINE own == tx[t].rows
              new == [table \in Table |-> rows[table] \o own[table]]
              y == Restart("done", tx[t].attempt)
  <2>1. Knows(t, tx[t], op[t], rows, op) /\ tx \in [Txn -> Transaction] /\ tx[t] \in Transaction
        /\ rows \in [Table -> Seq(Row)] /\ Committed(rows, op) /\ op \in [Txn -> DOMAIN Operations]
    BY DEF IInv, Committed
  <2>2. rows' = new  BY <1>3 DEF commit
  <2>3. [Fresh EXCEPT !.step = "done", !.attempt = tx[t].attempt] = y  BY DEF Restart, Fresh
  <2>4. tx' = [tx EXCEPT ![t] = y]  BY <1>3, <2>3 DEF commit, Become
  <2>5. own \in [Table -> Seq(Row)] /\ tx[t].attempt \in 1 .. MaxRetries  BY <2>1 DEF Transaction
  <2>6. \A table \in Table : new[table] = rows[table] \o own[table]  OBVIOUS
  <2>. HIDE DEF new, own
  <2>7. \A table \in Table : own[table] = <<>> => new[table] = rows[table]
    <3>1. \A table \in Table : own[table] = <<>> => rows[table] \o own[table] = rows[table]  BY <2>1
    <3>. QED  BY <2>6, <3>1
  <2>8. \A table \in Table : /\ new[table] \in Seq(Row) /\ Len(rows[table]) <= Len(new[table])
                             /\ \A i \in DOMAIN rows[table] : i \in DOMAIN new[table] /\ new[table][i] = rows[table][i]
    <3>1. SUFFICES ASSUME NEW table \in Table
                   PROVE  /\ rows[table] \o own[table] \in Seq(Row)
                          /\ Len(rows[table]) <= Len(rows[table] \o own[table])
                          /\ \A i \in DOMAIN rows[table] : /\ i \in DOMAIN (rows[table] \o own[table])
                                                           /\ (rows[table] \o own[table])[i] = rows[table][i]
      BY <2>6
    <3>. DEFINE log == rows[table]
                mine == own[table]
                both == log \o mine
                m == Len(log)
                n == Len(mine)
    <3>2. log \in Seq(Row) /\ mine \in Seq(Row)  BY <2>1, <2>5
    <3>. HIDE DEF log, mine
    <3>3. m \in Nat /\ n \in Nat /\ DOMAIN log = 1 .. m  BY <3>2
    <3>4. both \in Seq(Row) /\ Len(both) = m + n /\ DOMAIN both = 1 .. m + n
          /\ \A i \in 1 .. m + n : both[i] = IF i <= m THEN log[i] ELSE mine[i - m]
      BY <3>2, ConcatProperties
    <3>. HIDE DEF both, m, n
    <3>5. m <= m + n /\ \A i \in 1 .. m : i \in 1 .. m + n /\ i <= m  BY <3>3
    <3>6. both \in Seq(Row) /\ m <= Len(both) /\ \A i \in DOMAIN log : i \in DOMAIN both /\ both[i] = log[i]
      BY <3>3, <3>4, <3>5
    <3>. QED  BY <3>6 DEF both, m, log, mine
  <2>9. new \in [Table -> Seq(Row)]
    <3>1. new = [table \in Table |-> new[table]]  BY DEF new
    <3>. QED  BY <2>8, <3>1
  <2>10. Extends(rows, new)  BY <2>8 DEF Extends
  <2>11. Queued(t, tx[t], op[t], rows, op)  BY <2>1 DEF Knows
  <2>12. Committed(new, op)
    <3>1. \A table \in Events : Chain(new[table])
      <4>1. SUFFICES ASSUME NEW table \in Events  PROVE Chain(rows[table] \o own[table])  BY <2>6, Tables
      <4>2. Chain(rows[table]) /\ rows[table] \in Seq(Row) /\ own[table] \in Seq(Row)
        BY <2>1, <2>5, Tables DEF Committed
      <4>3. Follows(own[table], rows[table], t)  BY <2>11 DEF Queued, own
      <4>. QED  BY <4>2, <4>3, ChainGrows
    <3>2. Linked(new["AuditLog"], op)
      <4>. DEFINE log == rows["AuditLog"]
                  mine == own["AuditLog"]
      <4>1. log \in Seq(Row) /\ mine \in Seq(Row) /\ Linked(log, op)  BY <2>1, <2>5, Tables DEF Committed
      <4>2. CASE mine = <<>>  BY <2>7, <4>1, <4>2, Tables
      <4>3. CASE mine # <<>>
        <5>1. tx[t].rows["AuditLog"] # <<>>  BY <4>3 DEF own
        <5>2. isolation(t) = "SERIALIZABLE" /\ tx[t].snapshot["AuditLog"] = Len(log)
          BY <1>1, <1>3, <5>1, NamesTheLast
        <5>3. Len(mine) = 1 /\ mine[1].by = t /\ mine[1].prev = Id(log[Len(log)])
          BY <2>11, <5>1, <5>2 DEF Queued, own
        <5>4. mine[1].by \in Txn /\ Operations[op[mine[1].by]].isolation = "SERIALIZABLE"
          BY <5>2, <5>3 DEF isolation
        <5>5. Linked(log \o mine, op)  BY <4>1, <5>3, <5>4, LinkedGrows
        <5>. QED  BY <2>6, <5>5, Tables
      <4>. QED  BY <4>2, <4>3
    <3>3. Single(new["PublicationEvent"], op)
      <4>. DEFINE log == rows["PublicationEvent"]
                  mine == own["PublicationEvent"]
      <4>1. log \in Seq(Row) /\ mine \in Seq(Row) /\ Single(log, op)  BY <2>1, <2>5, Tables DEF Committed
      <4>2. Follows(mine, log, t)  BY <2>11, Tables DEF Queued, own
      <4>3. \A i \in DOMAIN mine : mine[i].by = t  BY <4>2 DEF Follows
      <4>4. op[t] = Once /\ mine # <<>> => Len(mine) = 1 /\ \A i \in DOMAIN log : op[log[i].by] # Once
        BY <2>11 DEF Queued, own
      <4>. HIDE DEF log, mine
      <4>5. Single(log \o mine, op)  BY <4>1, <4>3, <4>4, SingleGrows
      <4>. QED  BY <2>6, <4>5, Tables DEF log, mine
    <3>. QED  BY <2>9, <3>1, <3>2, <3>3 DEF Committed
  <2>13. Restart("done", tx[t].attempt) \in Transaction /\ y.at = 1 /\ y.rows = Empty /\ y.step = "done"
         /\ \A table \in Table : y.snapshot[table] = 0
    BY <2>5, RestartFields
  <2>14. y \in Transaction  BY <2>13
  <2>. HIDE DEF y
  <2>15. tx'[t] = y /\ (\A u \in Txn \ {t} : tx'[u] = tx[u]) /\ tx' \in [Txn -> Transaction]
    BY <2>1, <2>4, <2>14
  <2>16. \A u \in Txn : Knows(u, tx'[u], op[u], new, op)
    <3>1. SUFFICES ASSUME NEW u \in Txn  PROVE Knows(u, tx'[u], op[u], new, op)  OBVIOUS
    <3>2. op[u] \in DOMAIN Operations  BY <2>1
    <3>3. CASE u = t
      <4>1. Knows(t, y, op[t], new, op)  BY <2>9, <2>13, <2>14, <3>2, <3>3, StartsAgain
      <4>. QED  BY <2>15, <3>3, <4>1
    <3>4. CASE u # t
      <4>1. Knows(u, tx[u], op[u], rows, op)  BY DEF IInv
      <4>2. \A table \in Events : tx[u].rows[table] # <<>> => new[table] = rows[table]
        <5>1. SUFFICES ASSUME NEW table \in Events, tx[u].rows[table] # <<>>  PROVE new[table] = rows[table]
          OBVIOUS
        <5>2. own[table] = <<>>  BY <3>4, <5>1 DEF IInv, Exclusive, own
        <5>. QED  BY <2>7, <5>2, Tables
      <4>3. Knows(u, tx[u], op[u], new, op)  BY <2>1, <2>9, <2>10, <3>2, <4>1, <4>2, KnowsKept
      <4>. QED  BY <2>15, <3>4, <4>3
    <3>. QED  BY <3>3, <3>4
  <2>17. Exclusive(tx')
    <3>1. SUFFICES ASSUME NEW u \in Txn, NEW w \in Txn, NEW table \in Events, u # w
                   PROVE  tx'[u].rows[table] = <<>> \/ tx'[w].rows[table] = <<>>
      BY DEF Exclusive
    <3>2. y.rows[table] = <<>>  BY <2>13, EmptyFields, Tables
    <3>3. tx[u].rows[table] = <<>> \/ tx[w].rows[table] = <<>>  BY <3>1 DEF IInv, Exclusive
    <3>. QED  BY <2>15, <3>2, <3>3
  <2>. QED  BY <1>1, <2>1, <2>2, <2>12, <2>15, <2>16, <2>17 DEF IInv
<1>. QED  BY <1>2, <1>3


-----------------------------------------------------------------------------
(* The invariant and the theorems.                                         *)

LEMMA CreatedLog ==
  /\ Created \in Seq(Row) /\ Chain(Created) /\ \A ops : Linked(Created, ops)
<1>. DEFINE row == [seq |-> 1, by |-> 0, prev |-> Genesis]
<1>1. Genesis \in RowId  BY DEF Genesis, RowId
<1>2. row \in Row /\ row.seq = 1 /\ row.prev = Genesis  BY <1>1 DEF Row, RowId
<1>3. Created = <<row>>  BY DEF Created
<1>. HIDE DEF row
<1>4. Created \in Seq(Row) /\ Len(Created) = 1 /\ DOMAIN Created = 1 .. 1 /\ Created[1] = row  BY <1>2, <1>3
<1>5. \A i \in 1 .. 1 : i = 1  OBVIOUS
<1>6. Chain(Created)  BY <1>2, <1>4, <1>5 DEF Chain
<1>7. \A i \in DOMAIN Created : Created[i].prev = Genesis /\ i = 1  BY <1>2, <1>4, <1>5
<1>8. \A ops : Linked(Created, ops)  BY <1>4, <1>7 DEF Linked
<1>. QED  BY <1>4, <1>6, <1>8

LEMMA Initially == Init => IInv
<1>1. SUFFICES ASSUME Init  PROVE IInv  OBVIOUS
<1>2. op \in [Txn -> DOMAIN Operations]  BY <1>1 DEF Init
<1>3. tx \in [Txn -> Transaction] /\ \A t \in Txn : tx[t] = Fresh  BY <1>1, FreshFields DEF Init
<1>4. /\ rows \in [Table -> Seq(Row)]
      /\ \A table \in Table : table # "PublicationEvent" => rows[table] = Created
      /\ rows["PublicationEvent"] = <<>>
  <2>1. rows = [Empty EXCEPT !["IncidentEvent"] = Created, !["InvestigationEvent"] = Created,
                             !["RecoveryEvent"] = Created, !["AuditLog"] = Created]
    BY <1>1 DEF Init
  <2>2. Empty \in [Table -> Seq(Row)] /\ Created \in Seq(Row) /\ \A table \in Table : Empty[table] = <<>>
    BY EmptyFields, CreatedLog
  <2>. QED  BY <2>1, <2>2 DEF Table, Events
<1>5. Committed(rows, op)
  <2>1. \A table \in Events : Chain(rows[table])
    <3>1. Chain(<<>>)  BY DEF Chain
    <3>. QED  BY <1>4, <3>1, CreatedLog, Tables
  <2>2. Linked(rows["AuditLog"], op)
    <3>1. rows["AuditLog"] = Created  BY <1>4, Tables
    <3>. QED  BY <3>1, CreatedLog
  <2>3. Single(rows["PublicationEvent"], op)  BY <1>4 DEF Single
  <2>. QED  BY <1>4, <2>1, <2>2, <2>3 DEF Committed
<1>6. ASSUME NEW t \in Txn  PROVE Knows(t, tx[t], op[t], rows, op)
  <2>1. tx[t] \in Transaction /\ tx[t].at = 1 /\ tx[t].step = "begin" /\ tx[t].rows = Empty
        /\ \A table \in Table : tx[t].snapshot[table] = 0
    <3>1. Fresh.step = "begin"  BY DEF Fresh
    <3>. QED  BY <1>3, <3>1, FreshFields
  <2>2. op[t] \in DOMAIN Operations  BY <1>2
  <2>. QED  BY <1>4, <2>1, <2>2, StartsAgain
<1>7. Exclusive(tx)  BY <1>3, FreshFields, EmptyFields, Tables DEF Exclusive
<1>. QED  BY <1>2, <1>3, <1>5, <1>6, <1>7 DEF IInv

LEMMA Inductive == IInv /\ [Next]_vars => IInv'
<1>1. ASSUME IInv, UNCHANGED vars  PROVE IInv'
  <2>1. op' = op /\ rows' = rows /\ tx' = tx  BY <1>1 DEF vars
  <2>2. \A t \in Txn : Knows(t, tx[t], op[t], rows, op)  BY <1>1 DEF IInv
  <2>3. \A t \in Txn : Knows(t, tx'[t], op'[t], rows', op')  BY <2>1, <2>2
  <2>4. Committed(rows', op') /\ Exclusive(tx')  BY <1>1, <2>1 DEF IInv
  <2>. QED  BY <1>1, <2>1, <2>3, <2>4 DEF IInv
<1>2. ASSUME IInv, NEW t \in Txn, Step(t)  PROVE IInv'
  BY <1>2, BeginStep, TakeLockStep, SelectStep, LockRowStep, InsertStep, CommitStep DEF Step
<1>3. ASSUME IInv, NEW t \in Txn, lockTimeout(t)  PROVE IInv'
  <2>1. rollback(t, "55P03") /\ UNCHANGED <<op, rows>>  BY <1>3 DEF lockTimeout
  <2>. QED  BY <1>3, <2>1, RollbackStep
<1>. QED  BY <1>1, <1>2, <1>3 DEF Next

LEMMA Reachable == Spec => []IInv
BY Initially, Inductive, PTL DEF Spec

LEMMA AsChecked == IInv => ChainInv /\ AuditIsLinear
<1>1. SUFFICES ASSUME IInv  PROVE ChainInv /\ AuditIsLinear  OBVIOUS
<1>2. TypeOK  BY <1>1 DEF IInv, Committed, TypeOK, Transaction, Steps, RowId
<1>3. ChainsVerify
  <2>1. \A table \in Events : Chain(rows[table]) /\ rows[table] \in Seq(Row)  BY <1>1, Tables DEF IInv, Committed
  <2>. QED  BY <2>1, ChainVerifies DEF ChainsVerify
<1>4. EventOnce
  <2>. DEFINE log == rows["PublicationEvent"]
  <2>1. Single(log, op) /\ op \in [Txn -> DOMAIN Operations]  BY <1>1 DEF IInv, Committed
  <2>2. SUFFICES ASSUME NEW i \in DOMAIN log, NEW j \in DOMAIN log, op[log[i].by] = op[log[j].by],
                        Operations[op[log[i].by]] = advancePublication
                 PROVE  i = j
    BY DEF EventOnce
  <2>3. log[i].by \in Txn /\ log[j].by \in Txn  BY <2>1 DEF Single
  <2>4. op[log[i].by] \in DOMAIN Operations  BY <2>1, <2>3
  <2>5. op[log[i].by] = Once  BY <2>2, <2>4, OnceIs
  <2>. QED  BY <2>1, <2>2, <2>5 DEF Single
<1>5. AuditIsLinear  BY <1>1 DEF IInv, Committed, Linked, AuditIsLinear
<1>. QED  BY <1>2, <1>3, <1>4, <1>5 DEF ChainInv

\* The events of an incident, an investigation, a recovery and a publication verify
\* whatever the appenders lock, whatever isolation they run at and however many of
\* them run at the same time (append*Event of packages/database), and the event of
\* a worker's step that is done again is in the history once.
THEOREM HistoriesVerify == Spec => []ChainInv
BY Reachable, AsChecked, PTL

\* Every audit entry names the one before it, though no unique key enforces it and
\* the entry is read from the snapshot of the transaction (appendAuditLog): all that
\* append to the log are serializable, and the second of two that missed each
\* other's entry is refused.
THEOREM AuditLogIsLinear == Spec => []AuditIsLinear
BY Reachable, AsChecked, PTL
=============================================================================
