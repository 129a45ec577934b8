----------------------------- MODULE Publication -----------------------------
(***************************************************************************)
(* The publications of one recovery: the PublicationRun rows with their    *)
(* PublishedCommit and PullRequestRecord (packages/database                *)
(* publication-store.ts), the runs of the worker that execute them         *)
(* (apps/worker publication-execution-worker.ts, packages/publication      *)
(* execution.ts), the branch and pull requests on GitHub, and the people   *)
(* who cancel and retry (apps/api publications.service.ts).                *)
(*                                                                         *)
(* A publication is named by the patch version it publishes: the table has *)
(* at most one per recovery and patch.  The recovery changes as module     *)
(* Recovery lets it once it is ready to publish.                           *)
(***************************************************************************)
EXTENDS Integers, Sequences, FiniteSets, PublicationLifecycle

CONSTANTS
  Slot,          \* calls of processPublication that can be under way
  WorkerOf,      \* the process each slot belongs to
  Branch,        \* head branches a request may name
  MaxPatch,      \* bound: patch versions of the recovery
  MaxStamp,      \* bound: publication approvals of one patch
  MaxAttempts,   \* maximumPublicationAttempts of the policy
  GithubFails,   \* whether calls of GitHub may fail
  MaxFaults, MaxRequests  \* bounds: lapses and crashes, requests of people

ASSUME PublicationAssumption ==
  /\ DOMAIN WorkerOf = Slot /\ Branch # {}
  /\ MaxPatch \in Nat \ {0} /\ MaxStamp \in Nat \ {0} /\ MaxAttempts \in Nat \ {0}
  /\ GithubFails \in BOOLEAN
  /\ MaxFaults \in Nat /\ MaxRequests \in Nat

VARIABLES
  recovery,  \* the RecoveryRun row as far as publication reads it
  run,       \* the PublicationRun rows
  github,    \* the base branch, the head branches and the pull requests
  slot,      \* the local state of every call of processPublication
  used       \* how much of each bound is used up

vars == <<recovery, run, github, slot, used>>

Patch == 1 .. MaxPatch
NotCreated == "not created"
NoOne == "no one"
Gone == "a worker that no longer exists"
-----------------------------------------------------------------------------
(* A commit's hash is a function of the publication, whose patch and base    *)
(* never change, and of the time of the latest approval, which is its date. *)
Commit == [patch : Patch, stamp : 1 .. MaxStamp]
NoCommit == [patch |-> 0, stamp |-> 0]
Pushed == [patch |-> 0, stamp |-> 1]   \* a commit a person pushed

(* processPublication as a sequence of steps; a step that is not needed for  *)
(* the status the run was claimed in is passed over.                        *)
Program == <<"POLICY_CHECK", "load", "control",
  "COMMIT_MATERIALIZING", "token", "materialize", "recordMaterialization", "verifyExisting", "control",
  "retryPush", "branch", "DRAFT_PR_CREATING", "control",
  "retryPr", "base", "pullRequest", "recordPullRequest", "failed">>

publicationExecutionStage(status) ==
  CASE status = "PUBLICATION_REQUESTED" -> 0
    [] status = "POLICY_CHECK" -> 1
    [] status = "COMMIT_MATERIALIZING" -> 2
    [] status \in {"BRANCH_PUBLISHING", "PUSH_FAILED"} -> 3
    [] status \in {"DRAFT_PR_CREATING", "PR_CREATION_FAILED"} -> 4
    [] OTHER -> 5

Needed(step, claimed) ==
  LET stage == publicationExecutionStage(claimed) IN
  CASE step = "POLICY_CHECK" -> stage = 0
    [] step = "COMMIT_MATERIALIZING" -> stage < 2
    [] step \in {"materialize", "recordMaterialization"} -> stage < 3
    [] step = "verifyExisting" -> stage >= 3
    [] step = "retryPush" -> claimed = "PUSH_FAILED"
    [] step = "DRAFT_PR_CREATING" -> stage < 4
    [] step = "retryPr" -> claimed = "PR_CREATION_FAILED"
    [] OTHER -> TRUE

NextNeeded(i, claimed) ==
  CHOOSE j \in i + 1 .. Len(Program) :
    /\ Needed(Program[j], claimed)
    /\ \A k \in i + 1 .. j - 1 : ~Needed(Program[k], claimed)

(* The status an advancePublication step asks for. *)
Target(step) ==
  CASE step = "retryPush" -> "BRANCH_PUBLISHING"
    [] step = "retryPr" -> "DRAFT_PR_CREATING"
    [] OTHER -> step

Idle == [pc |-> 0, patch |-> 0, claimed |-> NotCreated, stamp |-> 0, commit |-> NoCommit,
         pr |-> 0, outcome |-> "none"]

Running(s) == slot[s].pc # 0
At(s, name) == Running(s) /\ Program[slot[s].pc] = name
Row(s) == run[slot[s].patch]

(* The variable stage of processPublication and stageFailureStatus. *)
stageFailureStatus(s) ==
  LET i == slot[s].pc IN
  IF i >= 14 THEN "PR_CREATION_FAILED" ELSE IF i >= 10 THEN "PUSH_FAILED" ELSE "PUBLICATION_BLOCKED"

(* assertPublicationLease and the condition of heartbeat. *)
Leased(s) == Row(s).owner = WorkerOf[s] /\ Row(s).live

Advance(s, local) == slot' = [slot EXCEPT ![s] = [local EXCEPT !.pc = NextNeeded(@, local.claimed)]]

Fail(s, status) ==
  slot' = [slot EXCEPT ![s] = [Idle EXCEPT !.pc = Len(Program), !.patch = slot[s].patch, !.outcome = status]]

(* classifyPublicationFailure of "Invalid publication transition: from ->    *)
(* to": the pattern for a cancellation matches the name of the status.      *)
transitionFailure(s, from) == IF from = "CANCELLED" THEN "CANCELLED" ELSE stageFailureStatus(s)

(* classifyPublicationFailure of an error of GitHub: refused or not found,   *)
(* or anything else.                                                        *)
githubFailure(s) == GithubFails /\ \E st \in {"PUBLICATION_BLOCKED", stageFailureStatus(s)} : Fail(s, st)

(* Steps that can only end in a refusal: the token, what GitHub answers      *)
(* about blobs, trees and commits, and the approved diff when this parser    *)
(* or the base content does not take it.                                    *)
createInstallationToken == IF GithubFails THEN {"PUBLICATION_BLOCKED"} ELSE {}
gitObjects == IF GithubFails THEN {"PUBLICATION_BLOCKED"} ELSE {}
parseUnifiedDiffFiles == {"PUBLICATION_BLOCKED"}
applyFileHunks == {"PUBLICATION_BLOCKED"}
FailAs(s, statuses) == \E st \in statuses : Fail(s, st)

(* GithubPublicationClient: objects are addressed by their contents, so only *)
(* refs and pull requests are state.                                        *)
getRef(b) == github.ref[b]
createCommit(s) == [patch |-> slot[s].patch, stamp |-> slot[s].stamp]
createRef(b, commit) == [github EXCEPT !.ref[b] = commit]
createPullRequest(b) == [github EXCEPT !.prs = Append(@, [branch |-> b, head |-> getRef(b), open |-> TRUE])]
findOpenPullRequest(b) == {n \in DOMAIN github.prs : github.prs[n].open /\ github.prs[n].branch = b}

Keep == UNCHANGED <<recovery, run, github, used>>

Break == used.faults < MaxFaults /\ used' = [used EXCEPT !.faults = @ + 1]
-----------------------------------------------------------------------------
Init ==
  /\ recovery = [ready |-> TRUE, patch |-> 1, stamp |-> 1]
  /\ run = [p \in Patch |-> [status |-> NotCreated, owner |-> NoOne, live |-> FALSE, attempts |-> 0,
                             branch |-> CHOOSE b \in Branch : TRUE, genuine |-> TRUE, permitted |-> TRUE,
                             commit |-> NoCommit, pr |-> 0]]
  /\ github = [moved |-> FALSE, ref |-> [b \in Branch |-> NoCommit], prs |-> <<>>]
  /\ slot = [s \in Slot |-> Idle]
  /\ used = [faults |-> 0, requests |-> 0]

(* createPublication.  The package and the policy come with the request: the *)
(* digest it names may be of another patch, and a stored policy of the same *)
(* version, which is the one the worker reads, may forbid the branch.       *)
(* A second request for the same patch gets the row or violates the unique  *)
(* key.                                                                     *)
createPublication(p, branch, genuine, permitted) ==
  /\ run[p].status = NotCreated
  /\ recovery.ready /\ recovery.patch = p
  /\ run' = [run EXCEPT ![p] = [@ EXCEPT !.status = "PUBLICATION_REQUESTED", !.branch = branch,
                                         !.genuine = genuine, !.permitted = permitted]]
  /\ UNCHANGED <<recovery, github, slot, used>>

(* claimPublication: the attempt is counted (as far as it matters), the     *)
(* version stays.                                                           *)
claimPublication(s, p) ==
  /\ ~Running(s)
  /\ run[p].status \in Executable
  /\ run[p].owner = NoOne \/ ~run[p].live \/ run[p].owner = WorkerOf[s]
  /\ run' = [run EXCEPT ![p] = [run[p] EXCEPT !.owner = WorkerOf[s], !.live = TRUE,
                                              !.attempts = IF @ > MaxAttempts THEN @ ELSE @ + 1]]
  /\ slot' = [slot EXCEPT ![s] = [Idle EXCEPT !.pc = NextNeeded(0, run[p].status),
                                              !.patch = p, !.claimed = run[p].status]]

(* A job of the queue.  A delivery after the first claim (a stalled job, a   *)
(* second publication of the outbox row) counts as a fault.                 *)
deliverJob(s, p) ==
  /\ claimPublication(s, p)
  /\ IF run[p].attempts = 0 THEN UNCHANGED used ELSE Break
  /\ UNCHANGED <<recovery, github>>

(* Mutant of listStalePublicationJobs: only publications never claimed. *)
listUnclaimed(p) == run[p].status \in InFlight /\ run[p].attempts = 0

listStalePublicationJobs(p) == run[p].status \in InFlight /\ ~run[p].live

reconcile(s, p) ==
  /\ listStalePublicationJobs(p)
  /\ claimPublication(s, p)
  /\ UNCHANGED <<recovery, github, used>>

(* advancePublication: the lease, the transition, the row. *)
advancePublication(s) ==
  /\ \E name \in {"POLICY_CHECK", "COMMIT_MATERIALIZING", "DRAFT_PR_CREATING", "retryPush", "retryPr"} : At(s, name)
  /\ LET p == slot[s].patch  to == Target(Program[slot[s].pc]) IN
     IF Leased(s) /\ assertPublicationTransition(run[p].status, to)
     THEN /\ run' = [run EXCEPT ![p].status = to]
          /\ Advance(s, slot[s])
     ELSE /\ Fail(s, IF Leased(s) THEN transitionFailure(s, run[p].status) ELSE stageFailureStatus(s))
          /\ UNCHANGED run
  /\ UNCHANGED <<recovery, github, used>>

(* Mutant of verifyPublicationBundle: the digest is not compared. *)
verifyUndigested(p) ==
  IF ~recovery.ready \/ recovery.patch # p THEN "PUBLICATION_BLOCKED"
  ELSE IF ~run[p].permitted THEN "SECURITY_BLOCKED"
  ELSE IF run[p].attempts > MaxAttempts THEN "PUBLICATION_BLOCKED"
  ELSE "ok"

(* verifyPublicationBundle on the persisted rows.  The review, the           *)
(* verification and the base commit it compares are facts about the patch   *)
(* that never change once the recovery was ready (see module Recovery).     *)
verifyPublicationBundle(p) ==
  IF ~recovery.ready \/ recovery.patch # p \/ ~run[p].genuine THEN "PUBLICATION_BLOCKED"
  ELSE IF ~run[p].permitted THEN "SECURITY_BLOCKED"
  ELSE IF run[p].attempts > MaxAttempts \/ recovery.stamp = 0 THEN "PUBLICATION_BLOCKED"
  ELSE "ok"

(* loadExecutionBundle: what is read here is used until the end of the run. *)
loadExecutionBundle(s) ==
  /\ At(s, "load")
  /\ LET verdict == verifyPublicationBundle(slot[s].patch) IN
     IF verdict = "ok"
     THEN Advance(s, [slot[s] EXCEPT !.stamp = recovery.stamp, !.commit = Row(s).commit])
     ELSE Fail(s, verdict)
  /\ Keep

(* checkControl: nothing ever sets cancellationRequestedAt, so only the     *)
(* lease can stop the run here.                                             *)
checkControl(s) ==
  /\ At(s, "control")
  /\ IF Leased(s) THEN Advance(s, slot[s]) ELSE Fail(s, stageFailureStatus(s))
  /\ Keep

acquireInstallationToken(s) ==
  /\ At(s, "token")
  /\ \/ Advance(s, slot[s])
     \/ FailAs(s, createInstallationToken)
  /\ Keep

(* materializePublicationCommit: blobs, tree and commit are addressed by     *)
(* their contents and no branch names them yet.                             *)
materializePublicationCommit(s) ==
  /\ At(s, "materialize")
  /\ IF github.moved THEN Fail(s, "BASE_BRANCH_STALE")
     ELSE \/ Advance(s, [slot[s] EXCEPT !.commit = createCommit(s), !.stamp = 0])
          \/ FailAs(s, gitObjects \cup parseUnifiedDiffFiles \cup applyFileHunks)
          \/ githubFailure(s)
  /\ Keep

(* recordMaterialization: the first commit recorded is the only one. *)
recordMaterialization(s) ==
  /\ At(s, "recordMaterialization")
  /\ LET p == slot[s].patch
         valid == assertPublicationTransition(run[p].status, "BRANCH_PUBLISHING")
     IN IF Leased(s) /\ valid /\ run[p].commit \in {NoCommit, slot[s].commit}
        THEN /\ run' = [run EXCEPT ![p] = [@ EXCEPT !.status = "BRANCH_PUBLISHING", !.commit = slot[s].commit]]
             /\ Advance(s, slot[s])
        ELSE /\ Fail(s, IF Leased(s) /\ ~valid THEN transitionFailure(s, run[p].status)
                        ELSE stageFailureStatus(s))
             /\ UNCHANGED run
  /\ UNCHANGED <<recovery, github, used>>

(* verifyExistingPublicationCommit: the recorded commit is used as it is. *)
verifyExistingPublicationCommit(s) ==
  /\ At(s, "verifyExisting")
  /\ \/ /\ slot[s].commit # NoCommit
        /\ Advance(s, [slot[s] EXCEPT !.stamp = 0])
     \/ slot[s].commit = NoCommit /\ Fail(s, "PUBLICATION_BLOCKED")
     \/ githubFailure(s)
  /\ Keep

(* Mutant of ensurePublicationBranch: an existing branch is reused as it is. *)
ensureAnyBranch(s) ==
  /\ At(s, "branch")
  /\ github' = [github EXCEPT !.ref[Row(s).branch] = IF @ = NoCommit THEN slot[s].commit ELSE @]
  /\ Advance(s, slot[s])
  /\ UNCHANGED <<recovery, run, used>>

(* ensurePublicationBranch: createRef fails when the branch exists, and an   *)
(* existing branch is taken over only at the same commit.  An answer that   *)
(* is lost leaves the branch behind.                                        *)
ensurePublicationBranch(s) ==
  /\ At(s, "branch")
  /\ LET b == Row(s).branch IN
     \/ /\ getRef(b) = NoCommit
        /\ github' = createRef(b, slot[s].commit)
        /\ Advance(s, slot[s]) \/ githubFailure(s)
     \/ /\ IF getRef(b) = slot[s].commit THEN Advance(s, slot[s])
           ELSE getRef(b) # NoCommit /\ Fail(s, "PUSH_FAILED")
        /\ UNCHANGED github
     \/ githubFailure(s) /\ UNCHANGED github
  /\ UNCHANGED <<recovery, run, used>>

(* ensureDraftPullRequest looks at the base branch first. *)
checkBase(s) ==
  /\ At(s, "base")
  /\ IF github.moved THEN Fail(s, "BASE_BRANCH_STALE") ELSE Advance(s, slot[s])
  /\ Keep

(* ensureDraftPullRequest: an open pull request of the branch is reused when *)
(* its head is the commit, otherwise GitHub refuses a second one.  The head *)
(* of a pull request that was created is not compared.                      *)
ensureDraftPullRequest(s) ==
  /\ At(s, "pullRequest")
  /\ LET b == Row(s).branch IN
     \/ /\ findOpenPullRequest(b) = {} /\ getRef(b) # NoCommit
        /\ github' = createPullRequest(b)
        /\ Advance(s, [slot[s] EXCEPT !.pr = Len(github.prs) + 1]) \/ githubFailure(s)
     \/ /\ \E n \in findOpenPullRequest(b) :
             IF getRef(b) = slot[s].commit THEN Advance(s, [slot[s] EXCEPT !.pr = n])
             ELSE Fail(s, "PR_CREATION_FAILED")
        /\ UNCHANGED github
     \/ githubFailure(s) /\ UNCHANGED github
  /\ UNCHANGED <<recovery, run, used>>

(* Mutant of recordPullRequest: the transition is not asserted. *)
recordUnasserted(s) ==
  /\ At(s, "recordPullRequest")
  /\ LET p == slot[s].patch IN
     IF Leased(s)
     THEN /\ run' = [run EXCEPT ![p] = [@ EXCEPT !.status = "CI_MONITORING", !.pr = slot[s].pr,
                                                 !.owner = NoOne, !.live = FALSE]]
          /\ slot' = [slot EXCEPT ![s] = Idle]
     ELSE Fail(s, stageFailureStatus(s)) /\ UNCHANGED run
  /\ UNCHANGED <<recovery, github, used>>

recordPullRequest(s) ==
  /\ At(s, "recordPullRequest")
  /\ LET p == slot[s].patch
         valid == assertPublicationTransition(run[p].status, "CI_MONITORING")
     IN IF Leased(s) /\ valid /\ run[p].pr \in {0, slot[s].pr}
        THEN /\ run' = [run EXCEPT ![p] = [@ EXCEPT !.status = "CI_MONITORING", !.pr = slot[s].pr,
                                                    !.owner = NoOne, !.live = FALSE]]
             /\ slot' = [slot EXCEPT ![s] = Idle]
        ELSE /\ Fail(s, IF Leased(s) /\ ~valid THEN transitionFailure(s, run[p].status)
                        ELSE stageFailureStatus(s))
             /\ UNCHANGED run
  /\ UNCHANGED <<recovery, github, used>>

(* failPublication, from the exception handler.  An invalid transition or a *)
(* lost lease is only logged: the row keeps its status and its lease.       *)
failPublication(s) ==
  /\ At(s, "failed")
  /\ LET p == slot[s].patch IN
     IF Leased(s) /\ assertPublicationTransition(run[p].status, slot[s].outcome)
     THEN /\ run' = [run EXCEPT ![p] = [@ EXCEPT !.status = slot[s].outcome, !.owner = NoOne, !.live = FALSE]]
     ELSE UNCHANGED run
  /\ slot' = [slot EXCEPT ![s] = Idle]
  /\ UNCHANGED <<recovery, github, used>>
-----------------------------------------------------------------------------
(* Operations of the API.  transition compares the version, so it acts on    *)
(* the row its caller saw, and asks nothing of the lifecycle.               *)

Ask == used.requests < MaxRequests /\ used' = [used EXCEPT !.requests = @ + 1]

transition(p, status) ==
  /\ Ask
  /\ run' = [run EXCEPT ![p].status = status]
  /\ UNCHANGED <<recovery, github, slot>>

cancel(p) == run[p].status # NotCreated /\ transition(p, "CANCELLED")

(* A retry stores no job: the reconciler has to find the publication. *)
retry(p) == run[p].status \in Retryable /\ transition(p, "POLICY_CHECK")
-----------------------------------------------------------------------------
(* The recovery: one more approval of its patch, a rejection or a request   *)
(* for a revision, and the next patch approved.                             *)
approveAgain ==
  /\ Ask /\ recovery.ready /\ recovery.stamp < MaxStamp
  /\ recovery' = [recovery EXCEPT !.stamp = @ + 1]
  /\ UNCHANGED <<run, github, slot>>

withdraw ==
  /\ Ask /\ recovery.ready
  /\ recovery' = [recovery EXCEPT !.ready = FALSE]
  /\ UNCHANGED <<run, github, slot>>

approveRevision ==
  /\ ~recovery.ready /\ recovery.patch < MaxPatch
  /\ recovery' = [ready |-> TRUE, patch |-> recovery.patch + 1, stamp |-> 1]
  /\ UNCHANGED <<run, github, slot, used>>

(* People on GitHub: the base branch moves, a commit is pushed to a recovery *)
(* branch, a pull request is closed.                                        *)
baseMoves ==
  /\ Ask /\ ~github.moved
  /\ github' = [github EXCEPT !.moved = TRUE]
  /\ UNCHANGED <<recovery, run, slot>>

pushToBranch(b) ==
  /\ Ask /\ github.ref[b] \in Commit
  /\ github' = [github EXCEPT !.ref[b] = Pushed,
                  !.prs = [n \in DOMAIN @ |-> IF n \in findOpenPullRequest(b) THEN [@[n] EXCEPT !.head = Pushed] ELSE @[n]]]
  /\ UNCHANGED <<recovery, run, slot>>

closePullRequest(n) ==
  /\ Ask /\ github.prs[n].open
  /\ github' = [github EXCEPT !.prs[n].open = FALSE]
  /\ UNCHANGED <<recovery, run, slot>>

Busy(p) == \E s \in Slot : Running(s) /\ slot[s].patch = p /\ run[p].owner = WorkerOf[s]

LeaseLapses(p) ==
  /\ run[p].live /\ Busy(p) /\ Break
  /\ run' = [run EXCEPT ![p].live = FALSE]
  /\ UNCHANGED <<recovery, github, slot>>

LeaseExpires(p) ==
  /\ run[p].live /\ ~Busy(p)
  /\ run' = [run EXCEPT ![p].live = FALSE]
  /\ UNCHANGED <<recovery, github, slot, used>>

Crash(w) ==
  /\ \E s \in Slot : WorkerOf[s] = w /\ Running(s)
  /\ Break
  /\ slot' = [s \in Slot |-> IF WorkerOf[s] = w THEN Idle ELSE slot[s]]
  /\ run' = [p \in Patch |-> [run[p] EXCEPT !.owner = IF @ = w THEN Gone ELSE @]]
  /\ UNCHANGED <<recovery, github>>

Work(s) ==
  \/ advancePublication(s) \/ loadExecutionBundle(s) \/ checkControl(s) \/ acquireInstallationToken(s)
  \/ materializePublicationCommit(s) \/ recordMaterialization(s) \/ verifyExistingPublicationCommit(s)
  \/ ensurePublicationBranch(s) \/ checkBase(s) \/ ensureDraftPullRequest(s) \/ recordPullRequest(s)
  \/ failPublication(s)

Next ==
  \/ \E p \in Patch, b \in Branch, genuine, permitted \in BOOLEAN : createPublication(p, b, genuine, permitted)
  \/ \E s \in Slot, p \in Patch : deliverJob(s, p) \/ reconcile(s, p)
  \/ \E s \in Slot : Work(s)
  \/ \E p \in Patch : cancel(p) \/ retry(p) \/ LeaseLapses(p) \/ LeaseExpires(p)
  \/ approveAgain \/ withdraw \/ approveRevision
  \/ baseMoves \/ \E b \in Branch : pushToBranch(b) \/ \E n \in DOMAIN github.prs : closePullRequest(n)
  \/ \E w \in {WorkerOf[s] : s \in Slot} : Crash(w)

Spec == Init /\ [][Next]_vars

(* The worker's calls end and its reconciler runs on a timer; an unrenewed  *)
(* lease expires.  Nothing is assumed of the queue, of people or of faults. *)
Fairness ==
  /\ \A s \in Slot : WF_vars(Work(s)) /\ WF_vars(\E p \in Patch : reconcile(s, p))
  /\ \A p \in Patch : WF_vars(LeaseExpires(p))

FairSpec == Spec /\ Fairness
-----------------------------------------------------------------------------
TypeOK ==
  /\ recovery \in [ready : BOOLEAN, patch : Patch, stamp : 1 .. MaxStamp]
  /\ run \in [Patch -> [status : Status \cup {NotCreated}, owner : {WorkerOf[s] : s \in Slot} \cup {NoOne, Gone},
                        live : BOOLEAN, attempts : Nat, branch : Branch, genuine : BOOLEAN,
                        permitted : BOOLEAN, commit : Commit \cup {NoCommit}, pr : Nat]]
  /\ github \in [moved : BOOLEAN, ref : [Branch -> Commit \cup {NoCommit, Pushed}],
                 prs : Seq([branch : Branch, head : Commit \cup {Pushed}, open : BOOLEAN])]
  /\ slot \in [Slot -> [pc : 0 .. Len(Program), patch : 0 .. MaxPatch, claimed : Status \cup {NotCreated},
                        stamp : 0 .. MaxStamp, commit : Commit \cup {NoCommit}, pr : Nat,
                        outcome : Status \cup {"none"}]]
  /\ used \in [faults : 0 .. MaxFaults, requests : 0 .. MaxRequests]

(* Whatever a head branch carries that a person did not push is the commit   *)
(* recorded for a publication of that very branch, of a patch whose digest  *)
(* and branch were found to be as approved.                                 *)
BranchIsApproved ==
  \A b \in Branch : github.ref[b] \in Commit =>
    LET p == github.ref[b].patch IN
    run[p].commit = github.ref[b] /\ run[p].branch = b /\ run[p].genuine /\ run[p].permitted

(* A publication under CI monitoring has a pull request of its own branch,   *)
(* which no other publication has recorded and which carries its commit or  *)
(* what a person pushed on top.                                             *)
MonitoredHasDraft ==
  \A p \in Patch : run[p].status = "CI_MONITORING" =>
    /\ run[p].pr \in DOMAIN github.prs
    /\ github.prs[run[p].pr].branch = run[p].branch
    /\ github.prs[run[p].pr].head \in {run[p].commit, Pushed}
    /\ \A q \in Patch \ {p} : run[q].pr # run[p].pr

(* The conjunction the run checks: the types, and that what is monitored has  *)
(* a draft pull request of its own.                                         *)
PublicationInv == TypeOK /\ MonitoredHasDraft

(* A cancelled publication stays cancelled, whatever the run under way was  *)
(* about to record.                                                         *)
CancellationIsFinal ==
  [][\A p \in Patch : run[p].status = "CANCELLED" => run'[p].status = "CANCELLED"]_vars

(* A publication in flight comes to rest: lost jobs, dead workers, lapsed   *)
(* leases and retries without a job are made good by reconciliation.        *)
InFlightSettles == \A p \in Patch : (run[p].status \in InFlight) ~> (run[p].status \notin InFlight)
=============================================================================
