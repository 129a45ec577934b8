-------------------------- MODULE SandboxExecution --------------------------
(***************************************************************************)
(* One sandbox execution from its creation by the API to its terminal row: *)
(* the SandboxExecution and FailureReproduction rows (sandbox-store.ts),   *)
(* the deliveries of its BullMQ job, each of which runs the worker handler *)
(* (sandbox-execution-worker.ts) around the orchestrator (orchestrator.ts),*)
(* the reconciliation passes of the worker processes, and the Docker       *)
(* resources labelled with the execution id (provider.ts).                 *)
(*                                                                         *)
(* Every store method is one transaction and hence one step; every await   *)
(* of the handler is a point where other processes may run.                *)
(***************************************************************************)
EXTENDS Naturals

CONSTANTS
  Worker,    \* worker processes; a process draws one workerId (index.ts:57)
  Run,       \* deliveries of the job: one, plus maxStalledCount redeliveries
  Pass,      \* reconciliation passes that can be under way at once
  Installs,  \* number of installation commands of the request
  Repros,    \* number of reproduction commands times repeatCount
  Exits,     \* the ways in which a command can end by itself
  Interrupts,\* what can interrupt an execution from outside
  MaxFaults, \* bound on the faults of the environment (see Fault)
  NoOne      \* absent worker, lease owner or run

Token == {"worker", "reconciler"} \X Worker
Total == Installs + Repros

ASSUME SandboxAssumption ==
  /\ Installs \in Nat
  /\ Repros \in Nat \ {0}
  /\ Exits \subseteq {"SUCCEEDED", "FAILED", "OOM", "TIMED_OUT"}
  /\ Interrupts \subseteq {"timeout", "cancelled"}
  /\ MaxFaults \in Nat
  /\ NoOne \notin Worker \union Run \union Pass \union Token

VARIABLES
  (* the SandboxExecution row, and the status of its FailureReproduction   *)
  status, result, completed, leaseOwner, leaseLive, rstatus, cancel,
  cmdBy,       \* SandboxCommand rows by sequence: the run that inserted it
  cmdStatus,   \* SandboxCommand rows by sequence: the status column
  logs,        \* SandboxLogChunk rows by sequence: the run that inserted it
  proofs,      \* SandboxCleanupRecord rows: the verifiedAbsent flags
  finals,      \* number of terminal incident events, one per completion
  author,      \* who committed the completion that the evidence records
  resources,   \* Docker: the containers, by their run, and the volume
  queued,      \* the job has been published to the queue
  alive,       \* worker processes that have not crashed
  run,         \* the local variables of each run of the handler
  pass,        \* the local variables of each reconciliation pass
  faults       \* observer: the faults so far

rowVars    == <<status, result, completed, leaseOwner, leaseLive, rstatus>>
cmdVars    == <<cmdBy, cmdStatus>>
storeVars  == <<cmdVars, logs, proofs>>
endVars    == <<finals, author>>
envVars    == <<queued, alive, cancel>>
vars == <<rowVars, storeVars, endVars, resources, envVars, run, pass, faults>>

Active   == {"PREPARING", "INSTALLING", "REPRODUCING", "COLLECTING", "CLEANING"}
Terminal == {"COMPLETED", "CANCELLED", "POLICY_BLOCKED", "TIMED_OUT",
             "INFRASTRUCTURE_FAILED", "CLEANUP_FAILED"}
Status   == {"NONE", "REQUESTED"} \union Active \union Terminal
Conclusive == {"REPRODUCED", "NOT_REPRODUCED"}
Result   == Conclusive \union
            {"NONE", "INCONCLUSIVE", "POLICY_BLOCKED", "INFRASTRUCTURE_FAILED"}
CommandStatus == {"NONE", "RUNNING", "SUCCEEDED", "FAILED", "CANCELLED", "TIMED_OUT"}

Verdict == [status : Terminal, result : Result]
Outcome(s, v) == [status |-> s, result |-> v]
Unjudged      == Outcome("INFRASTRUCTURE_FAILED", "INCONCLUSIVE")
InfraFailed   == Outcome("INFRASTRUCTURE_FAILED", "INFRASTRUCTURE_FAILED")
PolicyBlocked == Outcome("POLICY_BLOCKED", "POLICY_BLOCKED")
TimedOut      == Outcome("TIMED_OUT", "INFRASTRUCTURE_FAILED")

Gone  == {"idle", "dead", "done", "failed", "skipped"}      \* no handler is running
Steps == {"claim", "preparing", "prepare", "beat", "phase", "check", "start", "create",
          "exec", "finish", "collect", "emit", "cleaning", "cleanup", "proof", "final",
          "record", "complete", "emergency", "erecord", "ecomplete"}

RunState == [pc : Steps \union Gone, at : Worker \union {NoOne},
             abort : {"none", "timeout", "cancelled", "control-plane-failure"},
             seq : 0..Total, emitted : 0..Total, outcome : CommandStatus,
             limited : BOOLEAN, verdict : Verdict, proofOk : BOOLEAN, thrown : BOOLEAN]
Fresh == [pc |-> "idle", at |-> NoOne, abort |-> "none", seq |-> 0, emitted |-> 0,
          outcome |-> "NONE", limited |-> FALSE, verdict |-> Unjudged, proofOk |-> FALSE,
          thrown |-> FALSE]

PassState == [pc : {"idle", "cleanup", "record", "complete"}, at : Worker \union {NoOne},
              healthy : BOOLEAN, proofOk : BOOLEAN]
Resting == [pc |-> "idle", at |-> NoOne, healthy |-> TRUE, proofOk |-> FALSE]

\* The lease tokens: workerId for every run of a process, and
\* `${workerId}:reconciler` for every reconciliation pass of it.
Mine(r)  == <<"worker", run[r].at>>
PMine(p) == <<"reconciler", pass[p].at>>

\* assertSandboxLease: the row names the caller and the lease is unexpired.
HoldsLease(token) == leaseOwner = token /\ leaseLive

Init ==
  /\ status = "NONE" /\ result = "NONE" /\ rstatus = "NONE" /\ completed = FALSE
  /\ leaseOwner = NoOne /\ leaseLive = FALSE /\ cancel = FALSE
  /\ cmdBy = [n \in 1..Total |-> NoOne] /\ cmdStatus = [n \in 1..Total |-> "NONE"]
  /\ logs = [n \in 1..(Total + 1) |-> NoOne] /\ proofs = {}
  /\ finals = 0 /\ author = NoOne
  /\ resources = {} /\ queued = FALSE /\ alive = Worker
  /\ run = [r \in Run |-> Fresh] /\ pass = [p \in Pass |-> Resting]
  /\ faults = 0

\* What the environment does to the code: a store call fails or its commit
\* is not acknowledged, a Docker call fails, a process crashes, pauses longer
\* than its lease or than the lock of its job.
Fault   == faults < MaxFaults /\ faults' = faults + 1
NoFault == UNCHANGED faults

\* A store call that throws: the lease check refused it, or the call failed
\* before (skip) or after (write) its transaction committed.
Refused(token, write, skip) ==
  \/ ~HoldsLease(token) /\ skip /\ NoFault
  \/ Fault /\ (write \/ skip)

Denied(r) == ~HoldsLease(Mine(r)) /\ NoFault

-----------------------------------------------------------------------------
(* The API: createReproduction and requestCancellation.                    *)

\* A denied policy inserts the rows already terminal and no outbox message.
CreateReproduction(allowed) ==
  /\ status = "NONE"
  /\ status' = IF allowed THEN "REQUESTED" ELSE "POLICY_BLOCKED"
  /\ rstatus' = status'
  /\ result' = IF allowed THEN "NONE" ELSE "POLICY_BLOCKED"
  /\ completed' = ~allowed
  /\ queued' = allowed
  /\ UNCHANGED <<leaseOwner, leaseLive, cancel, alive, storeVars, endVars, resources, run,
                 pass, faults>>

\* The early return for a terminal reproduction reads FailureReproduction,
\* the flag is written on SandboxExecution.
RequestCancellation ==
  /\ "cancelled" \in Interrupts
  /\ rstatus \notin Terminal \union {"NONE"}
  /\ cancel' = TRUE
  /\ UNCHANGED <<rowVars, queued, alive, storeVars, endVars, resources, run, pass,
                 faults>>

-----------------------------------------------------------------------------
(* Steps of the handler.                                                   *)

Go(r, label) == run' = [run EXCEPT ![r].pc = label]

\* The handler returns or throws, and its local variables are gone.
Leave(r, label) == run' = [run EXCEPT ![r] = [Fresh EXCEPT !.pc = label]]

\* The orchestrator's catch block: v is the verdict it settles on, and the
\* error message is emitted next.  The variables of the loop are gone.
Throws(r, v) ==
  run' = [run EXCEPT ![r] = [@ EXCEPT !.verdict = v, !.pc = "emit", !.seq = 0,
                                      !.outcome = "NONE", !.limited = FALSE]]

\* Mutant: a status that the column's type does not have.
AbortVerdictByName(reason) == Outcome(reason, "INCONCLUSIVE")

AbortVerdict(reason) ==
  CASE reason = "timeout"   -> TimedOut
    [] reason = "cancelled" -> Outcome("CANCELLED", "INCONCLUSIVE")
    [] OTHER                -> InfraFailed

\* updateStatus writes both rows under the lease.
UpdateStatus(r, s) ==
  /\ HoldsLease(Mine(r))
  /\ status' = s /\ rstatus' = s
  /\ UNCHANGED <<result, completed, leaseOwner, leaseLive>>

\* The statusChanged hook of the orchestrator: go on, or throw.
StatusChanged(r, s, label) ==
  \/ UpdateStatus(r, s) /\ Go(r, label) /\ NoFault
  \/ Throws(r, InfraFailed) /\ Refused(Mine(r), UpdateStatus(r, s), UNCHANGED rowVars)

\* appendLogChunks for the run's chunk n; ON CONFLICT DO NOTHING keeps the
\* chunk that is already stored under that sequence.
AppendChunk(r, n) ==
  /\ HoldsLease(Mine(r))
  /\ logs' = [logs EXCEPT ![n] = IF @ = NoOne THEN r ELSE @]

\* BullMQ hands the job out again when its lock has lapsed: after a crash, or
\* when the process that runs it is paused.
Deliver(r, w) ==
  /\ queued /\ w \in alive
  /\ run[r].pc = "idle"
  /\ \A q \in Run : run[q].pc \notin Gone \ {"idle", "dead"}
  /\ IF \E q \in Run : run[q].pc \notin Gone THEN Fault ELSE NoFault
  /\ run' = [run EXCEPT ![r].at = w, ![r].pc = "claim"]
  /\ UNCHANGED <<rowVars, storeVars, endVars, resources, envVars, pass>>

\* Mutant: any execution whose lease is free can be claimed.
ClaimableWhenFree == leaseOwner = NoOne \/ ~leaseLive

Claimable == /\ status \in {"REQUESTED"} \union Active
             /\ leaseOwner = NoOne \/ ~leaseLive

\* claimExecution resets the status of the execution, not of the reproduction.
ClaimExecution(r) ==
  /\ Claimable
  /\ leaseOwner' = Mine(r) /\ leaseLive' = TRUE
  /\ status' = "PREPARING"
  /\ UNCHANGED <<result, completed, rstatus>>

Claim(r) ==
  /\ run[r].pc = "claim"
  /\ \/ ClaimExecution(r) /\ Go(r, "preparing") /\ NoFault
     \/ ~Claimable /\ Leave(r, "skipped") /\ UNCHANGED <<rowVars, faults>>
     \/ /\ Fault /\ Leave(r, "failed")
        /\ ClaimExecution(r) \/ UNCHANGED rowVars
  /\ UNCHANGED <<storeVars, endVars, resources, envVars, pass>>

Preparing(r) ==
  /\ run[r].pc = "preparing"
  /\ StatusChanged(r, "PREPARING", "prepare")
  /\ UNCHANGED <<storeVars, endVars, resources, envVars, pass>>

\* provider.prepare, which removes the volume again on failure, if it can.
Prepare(r) ==
  /\ run[r].pc = "prepare"
  /\ \/ resources' = resources \union {"volume"} /\ Go(r, "beat") /\ NoFault
     \/ resources' = resources \ {"volume"} /\ Throws(r, PolicyBlocked) /\ NoFault
     \/ /\ Fault /\ Throws(r, InfraFailed)
        /\ resources' \in {resources \union {"volume"}, resources \ {"volume"}}
  /\ UNCHANGED <<rowVars, storeVars, endVars, envVars, pass>>

\* The store's heartbeat asks for the owner only, so it revives a lease that
\* has lapsed and that nobody took.
Heartbeat(token) ==
  /\ leaseOwner = token
  /\ leaseLive' = TRUE
  /\ UNCHANGED <<status, result, completed, leaseOwner, rstatus>>

\* Mutant: a failed installation does not end the execution.
AfterAnyInstallation(r) ==
  IF run[r].outcome = "TIMED_OUT" THEN Throws(r, TimedOut)
  ELSE run' = [run EXCEPT ![r].outcome = "NONE",
                          ![r].pc = IF run[r].seq \in {0, Installs, Total} THEN "phase" ELSE "check"]

\* hooks.heartbeat, after prepare and after every command; then the loop looks
\* at the outcome of the command that has just been recorded: a timeout ends
\* the execution, and so does an installation that did not succeed.
AfterCommand(r) ==
  LET n == run[r].seq
      installing == n \in 1..Installs
  IN  CASE run[r].outcome = "TIMED_OUT" -> Throws(r, TimedOut)
        [] run[r].outcome \in {"FAILED", "CANCELLED"} /\ installing ->
             Throws(r, Outcome("COMPLETED", "INCONCLUSIVE"))
        [] OTHER ->
             run' = [run EXCEPT ![r].outcome = "NONE",
                                ![r].pc = IF n \in {0, Installs, Total} THEN "phase" ELSE "check"]

Beat(r) ==
  /\ run[r].pc = "beat"
  /\ \/ Heartbeat(Mine(r)) /\ AfterCommand(r) /\ NoFault
     \/ /\ Throws(r, InfraFailed)
        /\ \/ leaseOwner # Mine(r) /\ UNCHANGED rowVars /\ NoFault
           \/ Fault /\ (Heartbeat(Mine(r)) \/ UNCHANGED rowVars)
  /\ UNCHANGED <<storeVars, endVars, resources, envVars, pass>>

\* What the comparison of the repeats may conclude; a run that hit a resource
\* limit or whose log was truncated concludes nothing.
Conclusions(r) == IF run[r].limited THEN {"INCONCLUSIVE"} ELSE Conclusive \union {"INCONCLUSIVE"}

\* The three phases of the orchestrator's body: install, reproduce, collect.
Phase(r) ==
  /\ run[r].pc = "phase"
  /\ \/ /\ run[r].seq < Total
        /\ StatusChanged(r, IF run[r].seq < Installs THEN "INSTALLING" ELSE "REPRODUCING",
                         "check")
     \/ /\ run[r].seq = Total
        /\ \/ /\ UpdateStatus(r, "COLLECTING") /\ NoFault
              /\ \E v \in Conclusions(r) :
                   run' = [run EXCEPT ![r].verdict.result = v, ![r].pc = "collect"]
           \/ /\ Throws(r, InfraFailed)
              /\ Refused(Mine(r), UpdateStatus(r, "COLLECTING"), UNCHANGED rowVars)
  /\ UNCHANGED <<storeVars, endVars, resources, envVars, pass>>

\* executeCommand, before the command: the abort signal, then the database.
Check(r) ==
  /\ run[r].pc = "check"
  /\ \/ run[r].abort = "none" /\ ~cancel /\ Go(r, "start") /\ NoFault
     \/ (run[r].abort # "none" \/ cancel) /\ Throws(r, AbortVerdict(run[r].abort)) /\ NoFault
     \/ Throws(r, InfraFailed) /\ Fault
  /\ UNCHANGED <<rowVars, storeVars, endVars, resources, envVars, pass>>

\* Mutant: ON CONFLICT (executionId, sequence) DO NOTHING.
InsertCommandOnce(r, n) ==
  /\ HoldsLease(Mine(r))
  /\ cmdBy' = [cmdBy EXCEPT ![n] = IF @ = NoOne THEN r ELSE @]
  /\ cmdStatus' = [cmdStatus EXCEPT ![n] = IF @ = "NONE" THEN "RUNNING" ELSE @]

\* commandStarted inserts under a fresh id, so a row already stored under
\* this sequence violates @@unique([executionId, sequence]) and throws.
InsertCommand(r, n) ==
  /\ HoldsLease(Mine(r))
  /\ cmdBy[n] = NoOne
  /\ cmdBy' = [cmdBy EXCEPT ![n] = r]
  /\ cmdStatus' = [cmdStatus EXCEPT ![n] = "RUNNING"]

CommandStarted(r) ==
  /\ run[r].pc = "start"
  /\ LET n == run[r].seq + 1
     IN  \/ /\ InsertCommand(r, n) /\ NoFault
            /\ run' = [run EXCEPT ![r].seq = n, ![r].pc = "create"]
         \/ Throws(r, InfraFailed) /\ cmdBy[n] # NoOne /\ NoFault /\ UNCHANGED cmdVars
         \/ Throws(r, InfraFailed) /\ Refused(Mine(r), InsertCommand(r, n), UNCHANGED cmdVars)
  /\ UNCHANGED <<rowVars, logs, proofs, endVars, resources, envVars, pass>>

\* The attestation of the network of an installation command, docker create,
\* then the output of the command: one chunk stands for all.
CreateContainer(r) ==
  /\ run[r].pc = "create"
  /\ LET n == run[r].emitted + 1
     IN  \/ /\ resources' = resources \union {r}
            /\ \/ /\ AppendChunk(r, n) /\ NoFault
                  /\ run' = [run EXCEPT ![r].emitted = n, ![r].pc = "exec"]
               \/ /\ Refused(Mine(r), AppendChunk(r, n), UNCHANGED logs)
                  /\ run' = [run EXCEPT ![r] = [@ EXCEPT !.emitted = n, !.pc = "emit",
                                                !.verdict = InfraFailed, !.seq = 0,
                                                !.limited = FALSE]]
         \/ Fault /\ Throws(r, InfraFailed) /\ UNCHANGED <<resources, logs>>
         \/ /\ run[r].seq \in 1..Installs /\ NoFault
            /\ Throws(r, PolicyBlocked) /\ UNCHANGED <<resources, logs>>
  /\ UNCHANGED <<rowVars, cmdVars, proofs, endVars, envVars, pass>>

\* provider.execute does not throw on abort: whatever the command did, its
\* status is CANCELLED unless its own deadline passed first.
ExitStatus(r, exit) ==
  CASE exit = "TIMED_OUT"       -> "TIMED_OUT"
    [] run[r].abort # "none"    -> "CANCELLED"
    [] exit = "SUCCEEDED"       -> "SUCCEEDED"
    [] OTHER                    -> "FAILED"

\* docker start --attach until the container exits, times out or is killed by
\* an abort; then inspect, measure the workspace and remove the container.
Execute(r) ==
  /\ run[r].pc = "exec"
  /\ \/ /\ \E exit \in Exits :
             run' = [run EXCEPT ![r].outcome = ExitStatus(r, exit),
                                ![r].limited = @ \/ exit = "OOM", ![r].pc = "finish"]
        /\ \/ resources' = resources \ {r} /\ NoFault
           \/ UNCHANGED resources /\ Fault
     \/ Throws(r, PolicyBlocked) /\ resources' = resources \ {r} /\ NoFault
     \/ Throws(r, InfraFailed) /\ resources' = resources \ {r} /\ Fault
     \/ Throws(r, InfraFailed) /\ UNCHANGED resources /\ (Fault \/ Denied(r))
  /\ UNCHANGED <<rowVars, storeVars, endVars, envVars, pass>>

UpdateCommand(r) ==
  /\ HoldsLease(Mine(r))
  /\ cmdStatus' = [cmdStatus EXCEPT ![run[r].seq] = run[r].outcome]

CommandCompleted(r) ==
  /\ run[r].pc = "finish"
  /\ \/ UpdateCommand(r) /\ Go(r, "beat") /\ NoFault
     \/ Throws(r, InfraFailed) /\ Refused(Mine(r), UpdateCommand(r), UNCHANGED cmdStatus)
  /\ UNCHANGED <<rowVars, cmdBy, logs, proofs, endVars, resources, envVars, pass>>

\* collectArtifacts and recordArtifacts.
CollectArtifacts(r) ==
  /\ run[r].pc = "collect"
  /\ \/ /\ HoldsLease(Mine(r)) /\ NoFault
        /\ run' = [run EXCEPT ![r].verdict.status = "COMPLETED", ![r].pc = "cleaning"]
     \/ Throws(r, InfraFailed) /\ (Fault \/ Denied(r))
  /\ UNCHANGED <<rowVars, storeVars, endVars, resources, envVars, pass>>

\* The emit of the catch block; if it throws, the error leaves the
\* orchestrator after its finally block.
EmitError(r) ==
  /\ run[r].pc = "emit"
  /\ LET n == run[r].emitted + 1
     IN  \/ AppendChunk(r, n) /\ Go(r, "cleaning") /\ NoFault
         \/ /\ run' = [run EXCEPT ![r].thrown = TRUE, ![r].pc = "cleaning"]
            /\ Refused(Mine(r), AppendChunk(r, n), UNCHANGED logs)
  /\ UNCHANGED <<rowVars, cmdVars, proofs, endVars, resources, envVars, pass>>

\* The finally block: errors of its hooks are swallowed.
Swallowed(r, write, skip) ==
  \/ write /\ NoFault
  \/ Refused(Mine(r), write, skip)

Cleaning(r) ==
  /\ run[r].pc = "cleaning"
  /\ Swallowed(r, UpdateStatus(r, "CLEANING"), UNCHANGED rowVars)
  /\ Go(r, "cleanup")
  /\ UNCHANGED <<storeVars, endVars, resources, envVars, pass>>

\* cleanupResources: everything labelled with the execution id is removed,
\* whoever created it, and absence is verified; or that could not be shown.
DockerCleanup(ok) ==
  \/ ok /\ resources' = {} /\ NoFault
  \/ ~ok /\ resources' \in {{}, resources} /\ Fault

CleanUp(r) ==
  /\ run[r].pc = "cleanup"
  /\ \E ok \in BOOLEAN :
       /\ DockerCleanup(ok)
       /\ run' = [run EXCEPT ![r].proofOk = ok, ![r].pc = "proof",
                             ![r].verdict.status = IF ok THEN @ ELSE "CLEANUP_FAILED"]
  /\ UNCHANGED <<rowVars, storeVars, endVars, envVars, pass>>

RecordCleanup(token, ok) ==
  /\ HoldsLease(token)
  /\ proofs' = proofs \union {ok}

CleanupCompleted(r) ==
  /\ run[r].pc = "proof"
  /\ Swallowed(r, RecordCleanup(Mine(r), run[r].proofOk), UNCHANGED proofs)
  /\ Go(r, "final")
  /\ UNCHANGED <<rowVars, cmdVars, logs, endVars, resources, envVars, pass>>

\* The last statement of the finally block already writes the terminal status.
FinalStatus(r) ==
  /\ run[r].pc = "final"
  /\ Swallowed(r, UpdateStatus(r, run[r].verdict.status), UNCHANGED rowVars)
  /\ Go(r, IF run[r].thrown THEN "emergency" ELSE "record")
  /\ UNCHANGED <<storeVars, endVars, resources, envVars, pass>>

\* The handler's own recordCleanup; its failure is caught.
HandlerRecord(r) ==
  /\ run[r].pc = "record"
  /\ LET write == RecordCleanup(Mine(r), run[r].proofOk)
     IN  \/ write /\ Go(r, "complete") /\ NoFault
         \/ Go(r, "emergency") /\ Refused(Mine(r), write, UNCHANGED proofs)
  /\ UNCHANGED <<rowVars, cmdVars, logs, endVars, resources, envVars, pass>>

\* Mutant: the completion does not check the lease.
CompleteUnchecked(token, v, a) ==
  /\ status' = v.status /\ rstatus' = v.status /\ result' = v.result
  /\ completed' = TRUE
  /\ leaseOwner' = NoOne /\ leaseLive' = FALSE
  /\ author' = a /\ finals' = finals + 1

\* completeExecution: both rows, the lease, the incident event and the evidence.
CompleteExecution(token, v, a) ==
  /\ HoldsLease(token)
  /\ status' = v.status /\ rstatus' = v.status /\ result' = v.result
  /\ completed' = TRUE
  /\ leaseOwner' = NoOne /\ leaseLive' = FALSE
  /\ author' = a /\ finals' = finals + 1

HandlerComplete(r) ==
  /\ run[r].pc = "complete"
  /\ LET write == CompleteExecution(Mine(r), run[r].verdict, r)
     IN  \/ write /\ Leave(r, "done") /\ NoFault
         \/ Go(r, "emergency") /\ Refused(Mine(r), write, UNCHANGED <<rowVars, endVars>>)
  /\ UNCHANGED <<storeVars, resources, envVars, pass>>

ReapVerdict(ok) == Outcome(IF ok THEN "INFRASTRUCTURE_FAILED" ELSE "CLEANUP_FAILED",
                           "INFRASTRUCTURE_FAILED")

\* The handler's catch block: clean up, record the proof, complete; then the
\* job fails, and with attempts: 1 it is not delivered again.
EmergencyCleanup(r) ==
  /\ run[r].pc = "emergency"
  /\ \E ok \in BOOLEAN :
       /\ DockerCleanup(ok)
       /\ run' = [run EXCEPT ![r].proofOk = ok, ![r].pc = "erecord",
                             ![r].verdict = ReapVerdict(ok)]
  /\ UNCHANGED <<rowVars, storeVars, endVars, envVars, pass>>

EmergencyRecord(r) ==
  /\ run[r].pc = "erecord"
  /\ LET write == RecordCleanup(Mine(r), run[r].proofOk)
     IN  \/ write /\ Go(r, "ecomplete") /\ NoFault
         \/ Leave(r, "failed") /\ Refused(Mine(r), write, UNCHANGED proofs)
  /\ UNCHANGED <<rowVars, cmdVars, logs, endVars, resources, envVars, pass>>

EmergencyComplete(r) ==
  /\ run[r].pc = "ecomplete"
  /\ Leave(r, "failed")
  /\ Swallowed(r, CompleteExecution(Mine(r), run[r].verdict, r), UNCHANGED <<rowVars, endVars>>)
  /\ UNCHANGED <<storeVars, resources, envVars, pass>>

-----------------------------------------------------------------------------
(* The timers of a running handler.                                        *)

Running(r) == run[r].pc \notin Gone \union {"claim"}

\* AbortController.abort: the first reason stays.
Abort(r, reason) ==
  /\ Running(r) /\ run[r].abort = "none"
  /\ run' = [run EXCEPT ![r].abort = reason]
  /\ UNCHANGED <<rowVars, storeVars, endVars, resources, envVars, pass>>

ExecutionTimeout(r) == "timeout" \in Interrupts /\ Abort(r, "timeout") /\ NoFault

CancellationPoll(r) == \/ cancel /\ Abort(r, "cancelled") /\ NoFault
                       \/ Abort(r, "control-plane-failure") /\ Fault

\* The heartbeat timer falls silent once the signal is aborted.
HeartbeatTimer(r) ==
  \/ /\ Running(r) /\ run[r].abort = "none"
     /\ Heartbeat(Mine(r))
     /\ UNCHANGED <<storeVars, endVars, resources, envVars, run, pass, faults>>
  \/ leaseOwner # Mine(r) /\ Abort(r, "control-plane-failure") /\ NoFault

-----------------------------------------------------------------------------
(* Reconciliation passes.                                                  *)

PGo(p, label) == pass' = [pass EXCEPT ![p].pc = label]
PLeave(p)     == pass' = [pass EXCEPT ![p] = Resting]

\* Mutant: CLEANING is missing from the statuses that are reconciled.
ReconcileBeforeCleaning(p, w) ==
  /\ pass[p].pc = "idle" /\ w \in alive
  /\ leaseOwner # NoOne /\ ~leaseLive /\ status \in Active \ {"CLEANING"}
  /\ leaseOwner' = <<"reconciler", w>> /\ leaseLive' = TRUE
  /\ \/ pass' = [pass EXCEPT ![p].at = w, ![p].pc = "cleanup"] /\ NoFault
     \/ UNCHANGED pass /\ Fault
  /\ UNCHANGED <<status, result, completed, rstatus, storeVars, endVars, resources, envVars,
                 run>>

\* reconcileExpiredLeases takes over a lapsed lease of an active execution.
\* If the commit is not acknowledged, nobody works for the new owner.
ReconcileExpired(p, w) ==
  /\ pass[p].pc = "idle" /\ w \in alive
  /\ leaseOwner # NoOne /\ ~leaseLive /\ status \in Active
  /\ leaseOwner' = <<"reconciler", w>> /\ leaseLive' = TRUE
  /\ \/ pass' = [pass EXCEPT ![p].at = w, ![p].pc = "cleanup"] /\ NoFault
     \/ UNCHANGED pass /\ Fault
  /\ UNCHANGED <<status, result, completed, rstatus, storeVars, endVars, resources, envVars,
                 run>>

ReconcileCleanup(p) ==
  /\ pass[p].pc = "cleanup"
  /\ \E ok \in BOOLEAN :
       /\ DockerCleanup(ok)
       /\ IF pass[p].healthy
          THEN pass' = [pass EXCEPT ![p].proofOk = ok, ![p].pc = "record"]
          ELSE PLeave(p)
  /\ UNCHANGED <<rowVars, storeVars, endVars, envVars, run>>

ReconcileRecord(p) ==
  /\ pass[p].pc = "record"
  /\ LET write == RecordCleanup(PMine(p), pass[p].proofOk)
     IN  \/ write /\ PGo(p, "complete") /\ NoFault
         \/ PLeave(p) /\ Refused(PMine(p), write, UNCHANGED proofs)
  /\ UNCHANGED <<rowVars, cmdVars, logs, endVars, resources, envVars, run>>

ReconcileComplete(p) ==
  /\ pass[p].pc = "complete"
  /\ PLeave(p)
  /\ LET write == CompleteExecution(PMine(p), ReapVerdict(pass[p].proofOk), p)
     IN  (write /\ NoFault) \/ Refused(PMine(p), write, UNCHANGED <<rowVars, endVars>>)
  /\ UNCHANGED <<storeVars, resources, envVars, run>>

ReconcileHeartbeat(p) ==
  /\ pass[p].pc # "idle" /\ pass[p].healthy
  /\ \/ Heartbeat(PMine(p)) /\ UNCHANGED <<pass, faults>>
     \/ /\ pass' = [pass EXCEPT ![p].healthy = FALSE] /\ UNCHANGED rowVars
        /\ Fault \/ (leaseOwner # PMine(p) /\ NoFault)
  /\ UNCHANGED <<storeVars, endVars, resources, envVars, run>>

\* Mutant: the sweep lists containers and forgets the volumes.
SweepContainers ==
  /\ resources \ {"volume"} # {}
  /\ resources' = resources \intersect {"volume"}
  /\ \/ (\A r \in Run : run[r].pc \in Gone \/ run[r].abort # "none") /\ NoFault
     \/ Fault
  /\ UNCHANGED <<rowVars, storeVars, endVars, envVars, run, pass>>

\* provider.reconcile removes managed resources older than the stale
\* threshold, which the configuration keeps above the execution timeout plus
\* the lease: a run that still uses one has passed its deadline, or is paused.
OrphanSweep ==
  /\ resources # {}
  /\ resources' = {}
  /\ \/ (\A r \in Run : run[r].pc \in Gone \/ run[r].abort # "none") /\ NoFault
     \/ Fault
  /\ UNCHANGED <<rowVars, storeVars, endVars, envVars, run, pass>>

-----------------------------------------------------------------------------
(* The environment: time and crashes.                                      *)

Renewing(token) ==
  \/ \E r \in Run : Running(r) /\ run[r].abort = "none" /\ token = Mine(r)
  \/ \E p \in Pass : pass[p].pc # "idle" /\ pass[p].healthy /\ token = PMine(p)

\* A lease lapses when nobody renews it, or when its owner is paused.
LeaseExpires ==
  /\ leaseLive
  /\ leaseLive' = FALSE
  /\ IF Renewing(leaseOwner) THEN Fault ELSE NoFault
  /\ UNCHANGED <<status, result, completed, leaseOwner, rstatus, storeVars, endVars,
                 resources, envVars, run, pass>>

\* A process dies with its runs and passes; its workerId never comes back.
\* One process survives.
Crash(w) ==
  /\ Fault
  /\ w \in alive /\ alive # {w}
  /\ alive' = alive \ {w}
  /\ run' = [r \in Run |-> IF run[r].at = w THEN [Fresh EXCEPT !.pc = "dead"] ELSE run[r]]
  /\ pass' = [p \in Pass |-> IF pass[p].at = w THEN Resting ELSE pass[p]]
  /\ UNCHANGED <<rowVars, storeVars, endVars, resources, queued, cancel>>

RunStep(r) ==
  \/ Claim(r) \/ Preparing(r) \/ Prepare(r) \/ Beat(r) \/ Phase(r) \/ Check(r)
  \/ CommandStarted(r) \/ CreateContainer(r) \/ Execute(r) \/ CommandCompleted(r)
  \/ CollectArtifacts(r) \/ EmitError(r) \/ Cleaning(r) \/ CleanUp(r) \/ CleanupCompleted(r)
  \/ FinalStatus(r) \/ HandlerRecord(r) \/ HandlerComplete(r) \/ EmergencyCleanup(r)
  \/ EmergencyRecord(r) \/ EmergencyComplete(r)

Timer(r) == ExecutionTimeout(r) \/ CancellationPoll(r) \/ HeartbeatTimer(r)

PassStep(p) == ReconcileCleanup(p) \/ ReconcileRecord(p) \/ ReconcileComplete(p)

Next ==
  \/ \E allowed \in BOOLEAN : CreateReproduction(allowed)
  \/ RequestCancellation
  \/ \E r \in Run : RunStep(r) \/ Timer(r) \/ \E w \in Worker : Deliver(r, w)
  \/ \E p \in Pass : PassStep(p) \/ ReconcileHeartbeat(p)
                     \/ \E w \in Worker : ReconcileExpired(p, w)
  \/ OrphanSweep \/ LeaseExpires
  \/ \E w \in Worker : Crash(w)

Spec == Init /\ [][Next]_vars

TypeOK ==
  /\ status \in Status /\ rstatus \in Status /\ result \in Result
  /\ completed \in BOOLEAN /\ leaseOwner \in Token \union {NoOne} /\ leaseLive \in BOOLEAN
  /\ cancel \in BOOLEAN /\ queued \in BOOLEAN /\ alive \subseteq Worker
  /\ cmdBy \in [1..Total -> Run \union {NoOne}]
  /\ cmdStatus \in [1..Total -> CommandStatus]
  /\ logs \in [1..(Total + 1) -> Run \union {NoOne}]
  /\ proofs \subseteq BOOLEAN
  /\ finals \in Nat /\ author \in Run \union Pass \union {NoOne}
  /\ resources \subseteq Run \union {"volume"}
  /\ run \in [Run -> RunState] /\ pass \in [Pass -> PassState]
  /\ faults \in 0..MaxFaults

-----------------------------------------------------------------------------
(* What the execution promises.                                            *)

\* The outcome of the execution, as its evidence and its two rows state it.
Decided == IF completed
           THEN [status |-> status, rstatus |-> rstatus, result |-> result, author |-> author,
                 events |-> finals]
           ELSE [status |-> "open"]
DecidedOutcomes ==
  [status : Terminal, rstatus : Terminal, result : Result, author : Run \union Pass,
   events : {1}]

Contract == INSTANCE ExecutionContract WITH
  Outcomes  <- {o \in DecidedOutcomes : o.rstatus = o.status},
  Unclean   <- {o \in DecidedOutcomes : o.status = "CLEANUP_FAILED"},
  Blocked   <- {[status |-> "POLICY_BLOCKED", rstatus |-> "POLICY_BLOCKED",
                 result |-> "POLICY_BLOCKED", author |-> NoOne, events |-> 0]},
  Undecided <- [status |-> "open"],
  outcome   <- Decided

\* completeExecution takes effect at most once whatever runs, redeliveries,
\* reconciliation passes and lost acknowledgements compete for it; it appends
\* one incident event, its rows never change again, and a cleanup proof is on
\* record before it (positive, unless the status is CLEANUP_FAILED).
ContractSpec == Contract!Spec

Accepted(n) == IF n > Installs THEN {"SUCCEEDED", "FAILED", "CANCELLED"} ELSE {"SUCCEEDED"}

\* A conclusive reproduction result was earned by one run: the run that
\* completed the execution started every command itself, all installations
\* succeeded and no command timed out.  Two runs of the handler may hold the
\* same lease token (see Mine), so this rests on the unique key of the
\* SandboxCommand rows and not on the lease.
ConclusiveIsEarned ==
  result \in Conclusive =>
    /\ author \in Run
    /\ \A n \in 1..Total : cmdBy[n] = author /\ cmdStatus[n] \in Accepted(n)

-----------------------------------------------------------------------------
(* Fairness: awaits return (every store and Docker call has a timeout),    *)
(* BullMQ hands out the job of a dead process, time passes, and the timers *)
(* of the surviving process keep starting reconciliation passes.  Nothing  *)
(* forces a fault, and faults are finitely many.                           *)

Fairness ==
  /\ \A r \in Run : WF_vars(RunStep(r))
  /\ \A p \in Pass : WF_vars(PassStep(p))
  /\ WF_vars(NoFault /\ \E r \in Run, w \in Worker : Deliver(r, w))
  /\ WF_vars(NoFault /\ \E p \in Pass, w \in Worker : ReconcileExpired(p, w))
  /\ WF_vars(NoFault /\ LeaseExpires)
  /\ WF_vars(NoFault /\ OrphanSweep)

FairSpec == Spec /\ Fairness

\* Whatever happens to the processes, an execution that a worker has claimed
\* reaches a terminal status.
ActiveBecomesTerminal == status \in Active ~> status \in Terminal

\* Every labelled container and volume is gone for good in the end.
ResourcesReclaimed == <>[](resources = {})
=============================================================================
