------------------------------ MODULE Recovery ------------------------------
(***************************************************************************)
(* One controlled recovery: the RecoveryRun row with its patches, reviews, *)
(* verification reports, packages and approvals (packages/database         *)
(* recovery-store.ts), the runs of the worker that execute it              *)
(* (apps/worker controlled-recovery-worker.ts), the Git worktree they      *)
(* share (packages/recovery worktree.ts) and the people who decide.        *)
(*                                                                         *)
(* A slot is one call of processRecovery that a worker process may have    *)
(* under way: a queue job or the reconciler.  The lease names the process, *)
(* not the call.                                                           *)
(***************************************************************************)
EXTENDS Integers, Sequences, FiniteSets

CONSTANTS
  Slot,           \* calls of processRecovery that can be under way
  WorkerOf,       \* the process each slot belongs to
  Actor,          \* people who may decide on the publication
  PlanApprover,   \* those of them who approved the treatment plan
  Diff,           \* what the repair model may propose
  Threshold,      \* requiredPublicationApprovals of the policy
  Elevated,       \* the plan's risk is HIGH or CRITICAL
  Fault,          \* the outcomes in which a step may fail by itself
  MaxFaults, MaxRequests   \* bounds: lapsed leases and crashes, requests of people

VARIABLES
  row,        \* the RecoveryRun row
  patches,    \* RecoveryPatchVersion rows with their review, report and package
  approvals,  \* RecoveryPublicationApproval rows
  treeRow,    \* RecoveryWorktree.status
  tree,       \* the worktree directory on disk
  slot,       \* the local state of every call of processRecovery
  view,       \* what every person last read of the recovery
  used        \* how much of each bound is used up

vars == <<row, patches, approvals, treeRow, tree, slot, view, used>>

NotCreated == "not created"
NoOne == "no one"
Gone == "a worker that no longer exists"
Clean == "base commit"
NoDiff == "no diff"
NoTree == [by |-> NoOne, diff |-> NoDiff]

Gate == {"AWAITING_PUBLICATION_APPROVAL", "READY_TO_PUBLISH"}
Active == {"REQUESTED", "POLICY_CHECK", "WORKTREE_PREPARING", "PATCH_PLANNING",
           "PATCH_GENERATING", "PATCH_VALIDATING", "SECURITY_REVIEW", "VERIFYING",
           "PACKAGE_BUILDING"}
Resumable == {"PATCH_REJECTED", "SECURITY_REJECTED", "VERIFICATION_FAILED",
              "WORKTREE_FAILED", "MODEL_FAILED", "TOOL_FAILED"}
NotLeasable == {"PUBLISHED", "POLICY_BLOCKED", "CANCELLED", "BUDGET_EXCEEDED", "CLEANUP_FAILED"}
Status == Active \cup Gate \cup Resumable \cup NotLeasable \cup {"TIMED_OUT"}

ASSUME RecoveryAssumption ==
  /\ DOMAIN WorkerOf = Slot
  /\ \A s \in Slot : WorkerOf[s] \notin {NoOne, Gone}
  /\ PlanApprover \subseteq Actor
  /\ Threshold \in Nat \ {0}
  /\ Elevated \in BOOLEAN
  /\ Fault \subseteq Status
  /\ MaxFaults \in Nat /\ MaxRequests \in Nat

(* assertRecoveryTransition: the table of packages/recovery lifecycle.ts.  *)
transitions ==
  [st \in Status |->
     CASE st = "REQUESTED" -> {"POLICY_CHECK", "CANCELLED"}
       [] st = "POLICY_CHECK" -> {"WORKTREE_PREPARING", "POLICY_BLOCKED", "CANCELLED"}
       [] st = "WORKTREE_PREPARING" -> {"PATCH_PLANNING", "WORKTREE_FAILED", "CANCELLED", "TIMED_OUT"}
       [] st = "PATCH_PLANNING" -> {"PATCH_GENERATING", "MODEL_FAILED", "BUDGET_EXCEEDED", "CANCELLED"}
       [] st = "PATCH_GENERATING" -> {"PATCH_VALIDATING", "MODEL_FAILED", "TOOL_FAILED",
                                      "BUDGET_EXCEEDED", "CANCELLED", "TIMED_OUT"}
       [] st = "PATCH_VALIDATING" -> {"SECURITY_REVIEW", "PATCH_REJECTED", "CANCELLED"}
       [] st = "SECURITY_REVIEW" -> {"VERIFYING", "SECURITY_REJECTED", "CANCELLED"}
       [] st = "VERIFYING" -> {"PACKAGE_BUILDING", "VERIFICATION_FAILED", "CANCELLED", "TIMED_OUT"}
       [] st = "PACKAGE_BUILDING" -> {"AWAITING_PUBLICATION_APPROVAL", "TOOL_FAILED", "CANCELLED"}
       [] st = "AWAITING_PUBLICATION_APPROVAL" -> {"READY_TO_PUBLISH", "PATCH_PLANNING", "CANCELLED"}
       [] st = "READY_TO_PUBLISH" -> {"PUBLISHED", "AWAITING_PUBLICATION_APPROVAL", "CANCELLED"}
       [] st = "WORKTREE_FAILED" -> {"WORKTREE_PREPARING"}
       [] st \in Resumable \ {"WORKTREE_FAILED"} -> {"PATCH_PLANNING"}
       [] OTHER -> {}]

assertRecoveryTransition(current, next) == current = next \/ next \in transitions[current]

(* safeError on "Invalid recovery transition: current -> next": the names   *)
(* of the two statuses decide which pattern matches first.                  *)
transitionError(current, next) ==
  IF "CANCELLED" \in {current, next} THEN "CANCELLED"
  ELSE IF "BUDGET_EXCEEDED" \in {current, next} THEN "BUDGET_EXCEEDED"
  ELSE IF {"PATCH_PLANNING", "PATCH_GENERATING", "PATCH_VALIDATING", "PATCH_REJECTED"}
            \cap {current, next} # {} THEN "PATCH_REJECTED"
  ELSE IF "VERIFICATION_FAILED" \in {current, next} THEN "VERIFICATION_FAILED"
  ELSE IF {"WORKTREE_PREPARING", "WORKTREE_FAILED"} \cap {current, next} # {} THEN "WORKTREE_FAILED"
  ELSE IF "MODEL_FAILED" \in {current, next} THEN "MODEL_FAILED"
  ELSE "TOOL_FAILED"

-----------------------------------------------------------------------------
(* Mutant of Program: the package is not recorded. *)
ProgramUnpackaged == <<"load", "restart", "POLICY_CHECK", "control",
  "WORKTREE_PREPARING", "create", "recordWorktree", "control", "PATCH_PLANNING", "PATCH_GENERATING", "generate",
  "control", "PATCH_VALIDATING", "apply", "recordPatch", "control", "SECURITY_REVIEW", "review",
  "control", "VERIFYING", "execute", "recordVerification", "control", "PACKAGE_BUILDING",
  "AWAITING_PUBLICATION_APPROVAL", "cleanup", "finish">>

(* processRecovery as a sequence of steps.  A step named after a status is  *)
(* the checkpoint of that status, "control" is checkControl.                *)

Program == <<"load", "restart",
  "POLICY_CHECK", "control",
  "WORKTREE_PREPARING", "create", "recordWorktree", "control",
  "PATCH_PLANNING", "PATCH_GENERATING", "generate", "control",
  "PATCH_VALIDATING", "apply", "recordPatch", "control",
  "SECURITY_REVIEW", "review", "control",
  "VERIFYING", "execute", "recordVerification", "control",
  "PACKAGE_BUILDING", "recordPackage",
  "AWAITING_PUBLICATION_APPROVAL",
  "cleanup", "finish">>

StepOf(name) == CHOOSE i \in DOMAIN Program : Program[i] = name

Idle == [pc |-> 0, retry |-> FALSE, base |-> 0, diff |-> NoDiff,
         tree |-> FALSE, good |-> FALSE, outcome |-> "none"]

Running(s) == slot[s].pc # 0
At(s, name) == Running(s) /\ Program[slot[s].pc] = name
AtCheckpoint(s) == Running(s) /\ Program[slot[s].pc] \in Status

(* assertLease, and the same condition in heartbeat. *)
Leased(s) == row.owner = WorkerOf[s] /\ row.live

(* Mutant of InControl: the heartbeat's answer is not looked at. *)
LeaseOnly(s) == Leased(s)

(* checkControl and the sandbox callbacks go on. *)
InControl(s) == Leased(s) /\ ~row.cancel

(* The agent run is stored under the lease; nothing reads it back. *)
recordAgentRun(s) == Leased(s)

Advance(s, local) == slot' = [slot EXCEPT ![s] = [local EXCEPT !.pc = slot[s].pc + 1]]

(* The exception handler: the failure is classified, then the finally block *)
(* runs.                                                                    *)
Fail(s, status) ==
  slot' = [slot EXCEPT ![s] = [Idle EXCEPT !.outcome = status, !.tree = slot[s].tree, !.pc = StepOf("cleanup")]]

(* A step that fails by itself, with one of the statuses safeError gives    *)
(* the errors it can meet.                                                  *)
FailAs(s, statuses) == \E st \in statuses \cap Fault : Fail(s, st)

(* Mutant of BumpVersion: a change leaves the version as it was. *)
VersionKept == UNCHANGED view

(* Every person's copy of the row is out of date once the version moves. *)
BumpVersion == view' = [a \in Actor |-> [fresh |-> FALSE, patch |-> 0]]

Keep == UNCHANGED <<row, patches, approvals, treeRow, tree, view, used>>
-----------------------------------------------------------------------------
Init ==
  /\ row = [status |-> NotCreated, owner |-> NoOne, live |-> FALSE, cancel |-> FALSE, patch |-> 0]
  /\ patches = <<>>
  /\ approvals = {}
  /\ treeRow = "none"
  /\ tree = NoTree
  /\ slot = [s \in Slot |-> Idle]
  /\ view = [a \in Actor |-> [fresh |-> FALSE, patch |-> 0]]
  /\ used = [faults |-> 0, requests |-> 0]

(* createRecovery, once per idempotency key: a repeated request is answered *)
(* from the stored response.  The row and its job are one transaction.      *)
createRecovery ==
  /\ row.status = NotCreated
  /\ row' = [row EXCEPT !.status = "REQUESTED"]
  /\ UNCHANGED <<patches, approvals, treeRow, tree, slot, view, used>>

(* acquireLease and the start of processRecovery.  At the publication gate  *)
(* the call returns and leaves the lease it took behind.                    *)
acquireLease(s) ==
  IF /\ row.owner = NoOne \/ ~row.live \/ row.owner = WorkerOf[s]
     /\ row.status \in Status \ NotLeasable
  THEN /\ row' = [row EXCEPT !.owner = WorkerOf[s], !.live = TRUE]
       /\ slot' = [slot EXCEPT ![s] =
                     IF row.status \in Gate THEN Idle
                     ELSE [Idle EXCEPT !.pc = StepOf("load"), !.retry = (row.status # "REQUESTED")]]
  ELSE /\ slot' = [slot EXCEPT ![s] = Idle]
       /\ UNCHANGED row

(* A job of the queue.  Every request that wants a run stores a job with it, *)
(* and the outbox and the queue deliver it at least once, early or late.    *)
deliverJob(s) ==
  /\ ~Running(s) /\ row.status # NotCreated
  /\ acquireLease(s)
  /\ UNCHANGED <<patches, approvals, treeRow, tree, view, used>>

(* Mutant of listStaleRecoveryJobs: only recoveries without an owner. *)
listUnowned == row.status \in Status \ NotLeasable /\ row.owner = NoOne

(* reconcile: listStaleRecoveryJobs, then processRecovery for what it listed. *)
listStaleRecoveryJobs == row.status \in Status \ NotLeasable /\ ~row.live

reconcile(s) ==
  /\ ~Running(s) /\ listStaleRecoveryJobs
  /\ acquireLease(s)
  /\ UNCHANGED <<patches, approvals, treeRow, tree, view, used>>

(* loadRecoveryContext: the patch version read here numbers the next patch. *)
loadRecoveryContext(s) ==
  /\ At(s, "load")
  /\ Advance(s, [slot[s] EXCEPT !.base = row.patch]) \/ FailAs(s, {"TOOL_FAILED"})
  /\ Keep

restartForRetry(s) ==
  /\ At(s, "restart")
  /\ IF slot[s].retry /\ Leased(s)
     THEN row' = [row EXCEPT !.status = "REQUESTED"] /\ BumpVersion
     ELSE UNCHANGED <<row, view>>
  /\ IF slot[s].retry /\ ~Leased(s) THEN Fail(s, "TOOL_FAILED") ELSE Advance(s, [slot[s] EXCEPT !.retry = FALSE])
  /\ UNCHANGED <<patches, approvals, treeRow, tree, used>>

(* What can fail on the way to a checkpoint without touching shared state:  *)
(* the plan's scope against the policy (a rejected patch, never             *)
(* POLICY_BLOCKED), reading the repository and choosing an allowed model.   *)
preparation == [POLICY_CHECK |-> {}, WORKTREE_PREPARING |-> {"PATCH_REJECTED", "TOOL_FAILED"},
                PATCH_PLANNING |-> {}, PATCH_GENERATING |-> {"MODEL_FAILED", "PATCH_REJECTED"},
                PATCH_VALIDATING |-> {}, SECURITY_REVIEW |-> {}, VERIFYING |-> {},
                PACKAGE_BUILDING |-> {}, AWAITING_PUBLICATION_APPROVAL |-> {}]

(* checkpoint: the lease, then the transition, then the row. *)
checkpoint(s) ==
  /\ AtCheckpoint(s)
  /\ LET stage == Program[slot[s].pc] IN
     \/ /\ Leased(s) /\ assertRecoveryTransition(row.status, stage)
        /\ row' = [row EXCEPT !.status = stage]
        /\ BumpVersion
        /\ Advance(s, slot[s])
     \/ /\ IF ~Leased(s) THEN Fail(s, "TOOL_FAILED")
           ELSE /\ ~assertRecoveryTransition(row.status, stage)
                /\ Fail(s, transitionError(row.status, stage))
        /\ UNCHANGED <<row, view>>
     \/ /\ FailAs(s, preparation[stage])
        /\ UNCHANGED <<row, view>>
  /\ UNCHANGED <<patches, approvals, treeRow, tree, used>>

(* checkControl: an error the heartbeat timer left, the lease, the          *)
(* cancellation.                                                            *)
checkControl(s) ==
  /\ At(s, "control")
  /\ \/ /\ InControl(s)
        /\ Advance(s, slot[s])
     \/ /\ ~Leased(s) /\ Fail(s, "TOOL_FAILED")
     \/ /\ Leased(s) /\ row.cancel /\ Fail(s, "CANCELLED")
     \/ FailAs(s, {"TOOL_FAILED"})
  /\ Keep

(* RecoveryWorktreeManager.create removes what is at the path and starts    *)
(* from the base commit; remove leaves nothing at the path.                 *)
create(s) == [by |-> s, diff |-> Clean]
remove == NoTree

createWorktree(s) ==
  /\ At(s, "create")
  /\ \/ /\ tree' = create(s)
        /\ Advance(s, [slot[s] EXCEPT !.tree = TRUE])
     \/ /\ tree' \in {tree, remove, create(s)}
        /\ FailAs(s, {"WORKTREE_FAILED", "PATCH_REJECTED", "TIMED_OUT"})
  /\ UNCHANGED <<row, patches, approvals, treeRow, view, used>>

recordWorktree(s) ==
  /\ At(s, "recordWorktree")
  /\ IF Leased(s) THEN treeRow' = "READY" /\ Advance(s, slot[s])
     ELSE Fail(s, "TOOL_FAILED") /\ UNCHANGED treeRow
  /\ UNCHANGED <<row, patches, approvals, tree, view, used>>

(* The repair model and its cost. *)
generate(s) ==
  /\ At(s, "generate")
  /\ \/ \E d \in Diff : recordAgentRun(s) /\ Advance(s, [slot[s] EXCEPT !.diff = d])
     \/ ~recordAgentRun(s) /\ Fail(s, "TOOL_FAILED")
     \/ FailAs(s, {"MODEL_FAILED", "TIMED_OUT", "BUDGET_EXCEEDED"})
  /\ Keep

(* applyPatchAtomically: Git refuses a tree that is gone or that another run *)
(* has already changed.                                                     *)
appliable == tree # NoTree /\ tree.diff = Clean

(* What the checks of a proposed patch throw.  The messages quote paths and *)
(* lines of the patch, and the first word safeError knows decides: a file   *)
(* named after a timeout is enough.  The limits of the policy on the size   *)
(* of a patch are called budgets.                                           *)
Quoted == {"PATCH_REJECTED", "SECURITY_REJECTED", "BUDGET_EXCEEDED", "TIMED_OUT", "CANCELLED"}
buildProvenance == Quoted
parseUnifiedDiff == Quoted
evaluatePatchPolicy == {"BUDGET_EXCEEDED"} \cup Quoted

(* The checks, the application and the diff of the worktree, which is what  *)
(* gets recorded.                                                           *)
applyPatch(s) ==
  /\ At(s, "apply")
  /\ \/ /\ appliable
        /\ tree' = [tree EXCEPT !.diff = slot[s].diff]
        /\ Advance(s, slot[s])
     \/ /\ ~appliable
        /\ Fail(s, "PATCH_REJECTED") /\ UNCHANGED tree
     \/ FailAs(s, buildProvenance \cup parseUnifiedDiff \cup evaluatePatchPolicy) /\ UNCHANGED tree
  /\ UNCHANGED <<row, patches, approvals, treeRow, view, used>>

(* The version and the digest of a patch are unique; a duplicate is an error *)
(* whose text names the patch table.                                        *)
recordPatch(s) ==
  /\ At(s, "recordPatch")
  /\ LET version == slot[s].base + 1
         unique == \A i \in DOMAIN patches :
                     patches[i].version # version /\ patches[i].diff # slot[s].diff
     IN IF Leased(s) /\ unique
        THEN /\ patches' = Append(patches, [version |-> version, diff |-> slot[s].diff,
                                           review |-> "none", report |-> "none", package |-> FALSE])
             /\ row' = [row EXCEPT !.patch = version]
             /\ BumpVersion
             /\ Advance(s, slot[s])
        ELSE /\ Fail(s, IF Leased(s) THEN "PATCH_REJECTED" ELSE "TOOL_FAILED")
             /\ UNCHANGED <<row, patches, view>>
  /\ UNCHANGED <<approvals, treeRow, tree, used>>

(* Mutant of Own: results are filed under the first patch of the recovery. *)
FirstPatch(s) == 1

(* The patch a run works on is the one it recorded. *)
Own(s) == CHOOSE i \in DOMAIN patches : patches[i].version = slot[s].base + 1

(* What the security model may answer within the budget. *)
securityDecision == {"ALLOW", "BLOCK"}

(* recordSecurityReview: only ALLOW goes on. *)
recordSecurityReview(s) ==
  /\ At(s, "review")
  /\ \/ /\ recordAgentRun(s)
        /\ \E decision \in securityDecision :
             /\ patches' = [patches EXCEPT ![Own(s)].review = decision]
             /\ IF decision = "ALLOW" THEN Advance(s, slot[s]) ELSE Fail(s, "SECURITY_REJECTED")
     \/ /\ ~recordAgentRun(s) /\ Fail(s, "TOOL_FAILED") /\ UNCHANGED patches
     \/ /\ FailAs(s, {"MODEL_FAILED", "TIMED_OUT", "BUDGET_EXCEEDED"}) /\ UNCHANGED patches
  /\ UNCHANGED <<row, approvals, treeRow, tree, view, used>>

(* The sandbox run on the worktree.  Its callbacks call checkControl, and   *)
(* an error of theirs makes the result inconclusive: a cancellation seen    *)
(* here ends as a failed verification.                                      *)
execute(s) ==
  /\ At(s, "execute")
  /\ \/ /\ InControl(s)
        /\ Advance(s, [slot[s] EXCEPT !.good = TRUE])
     \/ Advance(s, slot[s])
     \/ FailAs(s, {"VERIFICATION_FAILED"})
  /\ Keep

(* The verdict: the failure did not come back and the worktree still holds  *)
(* the recorded patch.                                                      *)
passed(s) == slot[s].good /\ tree.diff = slot[s].diff

(* The report is stored and a failed one ends the run; a missing worktree   *)
(* is an error of realpath, which safeError takes for one about a patch.    *)
recordVerification(s) ==
  /\ At(s, "recordVerification")
  /\ IF tree = NoTree THEN Fail(s, "PATCH_REJECTED") /\ UNCHANGED patches
     ELSE IF ~Leased(s) THEN Fail(s, "TOOL_FAILED") /\ UNCHANGED patches
     ELSE IF passed(s)
     THEN patches' = [patches EXCEPT ![Own(s)].report = "PASSED"] /\ Advance(s, [slot[s] EXCEPT !.good = FALSE])
     ELSE patches' = [patches EXCEPT ![Own(s)].report = "FAILED"] /\ Fail(s, "VERIFICATION_FAILED")
  /\ UNCHANGED <<row, approvals, treeRow, tree, view, used>>

(* buildPullRequestPackage asks for the review and the report once more. *)
buildable(patch) == patch.review = "ALLOW" /\ patch.report = "PASSED"

recordPullRequestPackage(s) ==
  /\ At(s, "recordPackage")
  /\ IF Leased(s) /\ buildable(patches[Own(s)])
     THEN patches' = [patches EXCEPT ![Own(s)].package = TRUE] /\ Advance(s, slot[s])
     ELSE Fail(s, "TOOL_FAILED") /\ UNCHANGED patches
  /\ UNCHANGED <<row, approvals, treeRow, tree, view, used>>

(* markCleanup asks for no lease. *)
markCleanup == treeRow' = IF treeRow = "READY" THEN "REMOVED" ELSE treeRow

(* The finally block: the worktree at the path is removed whoever made it.  *)
(* When the removal or its record fails the run ends as CLEANUP_FAILED, a   *)
(* successful one too.  A run that made no worktree records that there is   *)
(* none, whatever is at the path.                                           *)
cleanUp(s) ==
  /\ At(s, "cleanup")
  /\ \/ slot[s].tree /\ tree' = remove /\ markCleanup /\ Advance(s, slot[s])
     \/ /\ slot[s].tree /\ tree' \in {tree, remove} /\ UNCHANGED treeRow
        /\ Advance(s, [slot[s] EXCEPT !.outcome = "CLEANUP_FAILED"])
     \/ /\ ~slot[s].tree /\ UNCHANGED tree
        /\ markCleanup
        /\ Advance(s, slot[s])
  /\ UNCHANGED <<row, patches, approvals, view, used>>

(* complete writes whatever status the run ended with, without asking       *)
(* assertRecoveryTransition; without the lease it is only logged.           *)
complete(s) ==
  /\ At(s, "finish") /\ slot[s].outcome # "none"
  /\ IF Leased(s)
     THEN /\ row' = [row EXCEPT !.status = slot[s].outcome, !.owner = NoOne, !.live = FALSE]
          /\ BumpVersion
     ELSE UNCHANGED <<row, view>>
  /\ slot' = [slot EXCEPT ![s] = Idle]
  /\ UNCHANGED <<patches, approvals, treeRow, tree, used>>

releaseLease(s) ==
  /\ At(s, "finish") /\ slot[s].outcome = "none"
  /\ IF Leased(s) /\ row.status \in Gate
     THEN row' = [row EXCEPT !.owner = NoOne, !.live = FALSE] /\ BumpVersion
     ELSE UNCHANGED <<row, view>>
  /\ slot' = [slot EXCEPT ![s] = Idle]
  /\ UNCHANGED <<patches, approvals, treeRow, tree, used>>
-----------------------------------------------------------------------------
(* Operations of the API.  Every one of them moves the version. *)

Ask == used.requests < MaxRequests /\ used' = [used EXCEPT !.requests = @ + 1]

requestCancellation ==
  /\ Ask
  /\ row.status # NotCreated
  /\ row' = [row EXCEPT !.cancel = TRUE]
  /\ BumpVersion
  /\ UNCHANGED <<patches, approvals, treeRow, tree, slot>>

resumeRecovery ==
  /\ Ask
  /\ row.status \in Resumable
  /\ row' = [row EXCEPT !.status = "PATCH_PLANNING", !.cancel = FALSE, !.owner = NoOne, !.live = FALSE]
  /\ BumpVersion
  /\ UNCHANGED <<patches, approvals, treeRow, tree, slot>>

(* getRecovery: a person reads the recovery and its patch. *)
getRecovery(a) ==
  /\ row.status \in Gate /\ ~view[a].fresh
  /\ view' = [view EXCEPT ![a] = [fresh |-> TRUE, patch |-> row.patch]]
  /\ UNCHANGED <<row, patches, approvals, treeRow, tree, slot, used>>

requestRevision(a) ==
  /\ Ask
  /\ view[a].fresh
  /\ row.status \in Gate \cup Resumable
  /\ row' = [row EXCEPT !.status = "REQUESTED", !.cancel = FALSE, !.owner = NoOne, !.live = FALSE]
  /\ BumpVersion
  /\ UNCHANGED <<patches, approvals, treeRow, tree, slot>>

SeparateDuties(a) == (Threshold > 1 \/ Elevated) => a \notin PlanApprover

Approvers(round, table) ==
  {a \in Actor : \E x \in table : x.round = round /\ x.actor = a /\ x.decision = "APPROVE"}

(* Mutant of decidePublication: the approvers of the plan may approve. *)
decideUnseparated(a, decision) ==
  /\ Ask /\ view[a].fresh /\ row.status \in Gate
  /\ approvals' = approvals \cup {[round |-> row.patch, actor |-> a, decision |-> decision,
                                   saw |-> view[a].patch]}
  /\ row' = [row EXCEPT !.status =
                IF decision = "APPROVE" /\ Cardinality(Approvers(row.patch, approvals')) >= Threshold
                THEN "READY_TO_PUBLISH" ELSE "AWAITING_PUBLICATION_APPROVAL"]
  /\ BumpVersion
  /\ UNCHANGED <<patches, treeRow, tree, slot>>

(* decidePublication: approvals are counted per patch version; a rejection  *)
(* returns the recovery to the gate and leaves the approvals.               *)
decidePublication(a, decision) ==
  /\ Ask
  /\ view[a].fresh
  /\ row.status \in Gate
  /\ decision = "APPROVE" => SeparateDuties(a)
  /\ row.patch # 0
  /\ LET cast == approvals \cup {[round |-> row.patch, actor |-> a, decision |-> decision,
                                  saw |-> view[a].patch]}
     IN /\ approvals' = cast
        /\ row' = [row EXCEPT !.status =
                     IF decision = "APPROVE" /\ Cardinality(Approvers(row.patch, cast)) >= Threshold
                     THEN "READY_TO_PUBLISH" ELSE "AWAITING_PUBLICATION_APPROVAL"]
  /\ BumpVersion
  /\ UNCHANGED <<patches, treeRow, tree, slot>>
-----------------------------------------------------------------------------
(* The environment. *)

Break == used.faults < MaxFaults /\ used' = [used EXCEPT !.faults = @ + 1]

(* No heartbeat of a run under way reached the database in time. *)
LeaseLapses ==
  /\ row.live
  /\ \E s \in Slot : Running(s) /\ row.owner = WorkerOf[s]
  /\ Break
  /\ row' = [row EXCEPT !.live = FALSE]
  /\ UNCHANGED <<patches, approvals, treeRow, tree, slot, view>>

(* A lease nobody renews runs out. *)
LeaseExpires ==
  /\ row.live
  /\ ~\E s \in Slot : Running(s) /\ row.owner = WorkerOf[s]
  /\ row' = [row EXCEPT !.live = FALSE]
  /\ UNCHANGED <<patches, approvals, treeRow, tree, slot, view, used>>

(* A worker process dies; the next one has another name. *)
Crash(w) ==
  /\ \E s \in Slot : WorkerOf[s] = w /\ Running(s)
  /\ Break
  /\ slot' = [s \in Slot |-> IF WorkerOf[s] = w THEN Idle ELSE slot[s]]
  /\ row' = [row EXCEPT !.owner = IF @ = w THEN Gone ELSE @]
  /\ UNCHANGED <<patches, approvals, treeRow, tree, view>>

Work(s) ==
  \/ loadRecoveryContext(s) \/ restartForRetry(s) \/ checkpoint(s) \/ checkControl(s)
  \/ createWorktree(s) \/ recordWorktree(s) \/ generate(s) \/ applyPatch(s) \/ recordPatch(s)
  \/ recordSecurityReview(s) \/ execute(s) \/ recordVerification(s)
  \/ recordPullRequestPackage(s) \/ cleanUp(s) \/ complete(s) \/ releaseLease(s)

Decide(a) ==
  getRecovery(a) \/ requestRevision(a)
    \/ \E d \in {"APPROVE", "REJECT"} : decidePublication(a, d)

Next ==
  \/ \E s \in Slot : deliverJob(s) \/ reconcile(s) \/ Work(s)
  \/ \E a \in Actor : Decide(a)
  \/ createRecovery \/ requestCancellation \/ resumeRecovery
  \/ LeaseLapses \/ LeaseExpires \/ \E w \in {WorkerOf[s] : s \in Slot} : Crash(w)

Spec == Init /\ [][Next]_vars

(* The reconciler runs on a timer and processRecovery always ends: every    *)
(* call it makes has a time limit.  An unrenewed lease expires.  Nothing is *)
(* assumed of the queue, of the people or of crashes.                       *)
Fairness ==
  /\ \A s \in Slot : WF_vars(Work(s)) /\ WF_vars(reconcile(s))
  /\ WF_vars(LeaseExpires)

FairSpec == Spec /\ Fairness
-----------------------------------------------------------------------------
TypeOK ==
  /\ row \in [status : Status \cup {NotCreated}, owner : {WorkerOf[s] : s \in Slot} \cup {NoOne, Gone},
             live : BOOLEAN, cancel : BOOLEAN, patch : Nat]
  /\ patches \in Seq([version : Nat, diff : Diff, review : {"none", "ALLOW", "BLOCK"},
                     report : {"none", "PASSED", "FAILED"}, package : BOOLEAN])
  /\ approvals \subseteq [round : Nat, actor : Actor, decision : {"APPROVE", "REJECT"}, saw : Nat]
  /\ treeRow \in {"none", "READY", "REMOVED"}
  /\ tree \in [by : Slot, diff : Diff \cup {Clean}] \cup {NoTree}
  /\ slot \in [Slot -> [pc : 0 .. Len(Program), retry : BOOLEAN, base : Nat,
                        diff : Diff \cup {NoDiff}, tree : BOOLEAN, good : BOOLEAN,
                        outcome : Status \cup {"none"}]]
  /\ view \in [Actor -> [fresh : BOOLEAN, patch : Nat]]
  /\ used \in [faults : 0 .. MaxFaults, requests : 0 .. MaxRequests]

(* A recovery at the publication gate offers a patch that a security review *)
(* allowed, that passed verification and that has a package: its current    *)
(* patch and no older one, whoever ran in between.                          *)
GateIsEvidenced ==
  row.status \in Gate =>
    \E i \in DOMAIN patches :
      /\ patches[i].version = row.patch
      /\ patches[i].review = "ALLOW" /\ patches[i].report = "PASSED" /\ patches[i].package

(* A recovery that is ready to publish has as many distinct approvers of    *)
(* its current patch as the policy asks for, and when duties are separated  *)
(* none of them approved the plan.                                          *)
ReadyIsApproved ==
  row.status = "READY_TO_PUBLISH" =>
    /\ Cardinality(Approvers(row.patch, approvals)) >= Threshold
    /\ \A a \in Approvers(row.patch, approvals) : SeparateDuties(a)

(* A decision is filed under the patch its author had read, however many    *)
(* revisions and runs went by between the reading and the decision.         *)
DecidedAsRead == \A x \in approvals : x.saw = x.round

(* Patch versions are numbered without gaps and the row names the last one, *)
(* although the number is chosen from a version read at the start of the run. *)
PatchesAreNumbered ==
  /\ \A i \in DOMAIN patches : patches[i].version = i
  /\ row.patch = Len(patches)

(* The conjunction the safety run checks: the types, the numbering of the    *)
(* patches and that decisions are filed as read.                            *)
RecoveryInv == TypeOK /\ PatchesAreNumbered /\ DecidedAsRead

(* What was reviewed and verified does not change afterwards: a step only   *)
(* adds a patch or fills in a result the last patch still lacks.            *)
EvidenceIsKept ==
  [][\A i \in DOMAIN patches :
       /\ i \in DOMAIN patches'
       /\ patches'[i].diff = patches[i].diff
       /\ patches[i].review # "none" => patches'[i].review = patches[i].review
       /\ patches[i].report # "none" => patches'[i].report = patches[i].report
       /\ patches'[i] # patches[i] => i = Len(patches)]_vars

(* A recovery under way leaves the active states: a lost job, a dead worker *)
(* or a lapsed lease is made good by reconciliation.                        *)
ActiveSettles == (row.status \in Active) ~> (row.status \notin Active)

(* A cancellation asked for before the security review is over is not       *)
(* overtaken: the recovery does not come to rest at the publication gate.   *)
CancelTakesEffect ==
  (row.cancel /\ row.status \in Active \ {"VERIFYING", "PACKAGE_BUILDING"})
    ~> (~row.cancel \/ row.status \notin Active \cup Gate)

=============================================================================
