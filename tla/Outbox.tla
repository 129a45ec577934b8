------------------------------- MODULE Outbox -------------------------------
(***************************************************************************)
(* The transactional outbox: rows of OutboxMessage, written by the stores  *)
(* in the transactions that need a job, and the dispatcher of each worker  *)
(* process (publishOutbox, apps/worker/src/index.ts), which claims a batch *)
(* of rows, hands each message to its BullMQ queue and marks the row.      *)
(*                                                                         *)
(* Neither markOutboxPublished nor markOutboxFailed asks who claimed the   *)
(* row last, so a dispatcher whose lock has lapsed still writes.  Messages *)
(* are numbered by createdAt; they may commit in another order.            *)
(***************************************************************************)
EXTENDS Integers, FiniteSets

CONSTANTS
  Worker,       \* dispatchers, one per worker process
  Messages,     \* number of messages
  Poison,       \* messages that no queue accepts (payload or topic is invalid)
  BatchSize,    \* OUTBOX_BATCH_SIZE
  MaxAttempts,  \* OUTBOX_MAX_ATTEMPTS
  MaxFaults     \* bound on the faults of the environment (see Fault)

Msg == 1..Messages

ASSUME OutboxAssumption ==
  /\ Messages \in Nat /\ Poison \subseteq Msg
  /\ BatchSize \in Nat \ {0} /\ MaxAttempts \in Nat \ {0} /\ MaxFaults \in Nat

VARIABLES
  row,      \* the OutboxMessage rows
  queued,   \* messages whose job BullMQ has accepted at least once
  pc,       \* where each dispatcher is
  batch,    \* its claims that it has not handled yet
  current,  \* the claim it is handling, as a set of at most one
  faults    \* observer: the faults so far

vars == <<row, queued, pc, batch, current, faults>>

Settled == {"PUBLISHED", "DEAD_LETTER"}

\* due: availableAt has come.  lapsed: lockedAt is older than the timeout.
\* The column lockedBy is written and never read: it is left out.
Row == [status : {"ABSENT", "PENDING", "PROCESSING", "FAILED"} \union Settled,
        attempts : Nat, due : BOOLEAN, lapsed : BOOLEAN]

\* What a claim tells its dispatcher: the message, and the value of attempts.
Claim == [msg : Msg, attempt : Nat]

TypeOK ==
  /\ row \in [Msg -> Row]
  /\ queued \subseteq Msg
  /\ pc \in [Worker -> {"idle", "next", "mark", "fail"}]
  /\ batch \in [Worker -> SUBSET Claim]
  /\ current \in [Worker -> SUBSET Claim]
  /\ faults \in 0..MaxFaults

Held(w) == batch[w] \union current[w]

Init ==
  /\ row = [m \in Msg |-> [status |-> "ABSENT", attempts |-> 0, due |-> TRUE, lapsed |-> FALSE]]
  /\ queued = {}
  /\ pc = [w \in Worker |-> "idle"]
  /\ batch = [w \in Worker |-> {}] /\ current = [w \in Worker |-> {}]
  /\ faults = 0

\* A store or queue call fails or its answer is lost, a dispatcher crashes or
\* is slower than its locks.
Fault   == faults < MaxFaults /\ faults' = faults + 1
NoFault == UNCHANGED faults

-----------------------------------------------------------------------------

\* insertOutbox, part of the transaction of a store; a second message with
\* the same deduplication key is dropped.
InsertOutbox(m) ==
  /\ row[m].status = "ABSENT"
  /\ row' = [row EXCEPT ![m].status = "PENDING"]
  /\ UNCHANGED <<queued, pc, batch, current, faults>>

\* Mutant: no stale-lock recovery.
ClaimableUnlocked(m) == row[m].due /\ row[m].status \in {"PENDING", "FAILED"}

Claimable(m) ==
  /\ row[m].due
  /\ \/ row[m].status \in {"PENDING", "FAILED"}
     \/ row[m].status = "PROCESSING" /\ row[m].lapsed

\* ORDER BY createdAt LIMIT batchSize FOR UPDATE SKIP LOCKED.
Oldest(S) == {m \in S : Cardinality({k \in S : k < m}) < BatchSize}

\* Mutant: attempts are counted down.
LockRowDown(r) == [r EXCEPT !.status = "PROCESSING", !.lapsed = FALSE, !.attempts = @ - 1]

\* Mutant: the claim leaves attempts as it is.
LockRowUncounted(r) == [r EXCEPT !.status = "PROCESSING", !.lapsed = FALSE]

LockRow(r) == [r EXCEPT !.status = "PROCESSING", !.lapsed = FALSE, !.attempts = @ + 1]

\* A dispatcher starts only when its previous pass is over.  When the commit
\* of the claim is not acknowledged, nobody handles the batch.
ClaimOutboxBatch(w) ==
  /\ pc[w] = "idle"
  /\ LET claimed == Oldest({m \in Msg : Claimable(m)})
     IN  /\ claimed # {}
         /\ row' = [m \in Msg |-> IF m \in claimed THEN LockRow(row[m]) ELSE row[m]]
         /\ \/ /\ batch' = [batch EXCEPT ![w] =
                              {[msg |-> m, attempt |-> row'[m].attempts] : m \in claimed}]
               /\ pc' = [pc EXCEPT ![w] = "next"]
               /\ NoFault
            \/ UNCHANGED <<batch, pc>> /\ Fault
  /\ UNCHANGED <<queued, current>>

\* queue.add under jobId = deduplicationKey, in any order within the batch.
\* Adding a job that exists changes nothing.  A fault is an error answer,
\* sent before or after the job was stored.
Add(w, c) ==
  /\ pc[w] = "next" /\ c \in batch[w]
  /\ batch' = [batch EXCEPT ![w] = @ \ {c}]
  /\ current' = [current EXCEPT ![w] = {c}]
  /\ \/ c.msg \notin Poison /\ queued' = queued \union {c.msg}
        /\ pc' = [pc EXCEPT ![w] = "mark"] /\ NoFault
     \/ c.msg \notin Poison /\ queued' \in {queued, queued \union {c.msg}}
        /\ pc' = [pc EXCEPT ![w] = "fail"] /\ Fault
     \/ c.msg \in Poison /\ UNCHANGED queued
        /\ pc' = [pc EXCEPT ![w] = "fail"] /\ NoFault
  /\ UNCHANGED row

\* The claim is handled: go on with the batch, or return.
Proceed(w) ==
  /\ current' = [current EXCEPT ![w] = {}]
  /\ pc' = [pc EXCEPT ![w] = IF batch[w] = {} THEN "idle" ELSE "next"]
  /\ UNCHANGED batch

\* Whatever the row says by now.
WritePublished(c) == row' = [row EXCEPT ![c.msg].status = "PUBLISHED", ![c.msg].lapsed = FALSE]

MarkOutboxPublished(w, c) ==
  /\ pc[w] = "mark" /\ c \in current[w]
  /\ \/ WritePublished(c) /\ Proceed(w) /\ NoFault
     \/ /\ Fault
        /\ WritePublished(c) \/ UNCHANGED row
        /\ pc' = [pc EXCEPT ![w] = "fail"]
        /\ UNCHANGED <<batch, current>>
  /\ UNCHANGED queued

\* Mutant: a failed message counts as handled once it was tried often enough.
FailedStatusGivesUp(attempt) == IF attempt >= MaxAttempts THEN "PUBLISHED" ELSE "FAILED"

\* Mutant: the threshold is off by one.
FailedStatusEarly(attempt) == IF attempt + 1 >= MaxAttempts THEN "DEAD_LETTER" ELSE "FAILED"

FailedStatus(attempt) == IF attempt >= MaxAttempts THEN "DEAD_LETTER" ELSE "FAILED"

WriteFailed(c) ==
  row' = [row EXCEPT ![c.msg].status = FailedStatus(c.attempt), ![c.msg].due = FALSE,
                     ![c.msg].lapsed = FALSE]

\* The whole process gives up its batch.
Drop(w) ==
  /\ pc' = [pc EXCEPT ![w] = "idle"]
  /\ batch' = [batch EXCEPT ![w] = {}] /\ current' = [current EXCEPT ![w] = {}]

\* An error of markOutboxFailed leaves publishOutbox; nothing handles the
\* rejected promise, so the process ends and with it the rest of the batch.
MarkOutboxFailed(w, c) ==
  /\ pc[w] = "fail" /\ c \in current[w]
  /\ \/ WriteFailed(c) /\ Proceed(w) /\ NoFault
     \/ (WriteFailed(c) \/ UNCHANGED row) /\ Drop(w) /\ Fault
  /\ UNCHANGED queued

-----------------------------------------------------------------------------
(* The environment: time, and processes that crash and are restarted.      *)

BecomesDue(m) ==
  /\ ~row[m].due
  /\ row' = [row EXCEPT ![m].due = TRUE]
  /\ UNCHANGED <<queued, pc, batch, current, faults>>

\* The lock of a row lapses: free of charge when nobody handles its claim.
LockLapses(m) ==
  /\ row[m].status = "PROCESSING" /\ ~row[m].lapsed
  /\ row' = [row EXCEPT ![m].lapsed = TRUE]
  /\ IF \E w \in Worker : \E c \in Held(w) : c.msg = m /\ c.attempt = row[m].attempts
     THEN Fault ELSE NoFault
  /\ UNCHANGED <<queued, pc, batch, current>>

Crash(w) ==
  /\ pc[w] # "idle"
  /\ Drop(w) /\ Fault
  /\ UNCHANGED <<row, queued>>

DispatcherStep(w) ==
  \E c \in Held(w) : Add(w, c) \/ MarkOutboxPublished(w, c) \/ MarkOutboxFailed(w, c)

Next ==
  \/ \E m \in Msg : InsertOutbox(m) \/ BecomesDue(m) \/ LockLapses(m)
  \/ \E w \in Worker : ClaimOutboxBatch(w) \/ DispatcherStep(w) \/ Crash(w)

Spec == Init /\ [][Next]_vars

-----------------------------------------------------------------------------

\* A row that says PUBLISHED has its job in the queue, although dispatchers
\* whose locks lapsed write the row without being asked for their claim.
PublishedIsQueued == \A m \in Msg : row[m].status = "PUBLISHED" => m \in queued

\* A message is given up only after it has been claimed MaxAttempts times.
DeadLetterIsExhausted ==
  \A m \in Msg : row[m].status = "DEAD_LETTER" => row[m].attempts >= MaxAttempts

\* Dispatchers that hold claims to the same message, because a lock lapsed,
\* hold different attempts, and none holds one that is still to come: the
\* attempts counter identifies the claim.
ClaimsAreDistinct ==
  \A v, w \in Worker : \A c \in Held(v), d \in Held(w) :
    c.msg = d.msg => /\ c.attempt <= row[c.msg].attempts
                     /\ c.attempt = d.attempt => v = w /\ c = d

-----------------------------------------------------------------------------
(* Fairness: the poll timer fires, the calls of a dispatcher return, time  *)
(* passes.  Faults are finitely many and nothing forces one.               *)

Fairness ==
  /\ WF_vars(NoFault /\ \E w \in Worker : ClaimOutboxBatch(w))
  /\ \A w \in Worker : WF_vars(DispatcherStep(w))
  /\ \A m \in Msg : WF_vars(BecomesDue(m)) /\ WF_vars(NoFault /\ LockLapses(m))

FairSpec == Spec /\ Fairness

\* Every committed message is settled, PUBLISHED or DEAD_LETTER, and from
\* some time on stays so, whatever late dispatchers write over it.
EventuallySettled ==
  \A m \in Msg : row[m].status # "ABSENT" ~> [](row[m].status \in Settled)

\* ADR 0001, "Redis outages delay but do not lose work": a valid message is
\* queued as long as fewer faults happen than it has attempts.
EventuallyQueued ==
  \A m \in Msg \ Poison :
    row[m].status # "ABSENT" ~> (m \in queued \/ faults >= MaxAttempts)
=============================================================================
