---------------------------- MODULE Investigation ----------------------------
(***************************************************************************)
(* One investigation: the InvestigationRun row with its diagnosis, its     *)
(* treatment plan and the approvals of the plan (packages/database         *)
(* investigation-store.ts), the jobs that execute it and the reconciler    *)
(* (apps/worker investigation-worker.ts), and the people who cancel,       *)
(* resume and decide.  What the agents find is left to chance; the rows    *)
(* that only record their work (context packages, agent runs, invocations, *)
(* tool calls, guardrails, events) are kept as the lease checks they make. *)
(***************************************************************************)
EXTENDS Integers, Sequences, FiniteSets

CONSTANTS
  Slot,               \* calls of processInvestigation that can be under way
  WorkerOf,           \* the process each slot belongs to
  Actor,              \* people who decide about plans
  RequiredApprovals,  \* requiredApprovals of the plan
  Failure,            \* the errors of an agent's work that are explored
  MaxFaults,          \* bound: redeliveries, lapses, crashes, database errors
  MaxRequests         \* bound: cancellations and resumptions

NoOne == "no one"
Gone == "a worker that no longer exists"
NoPlan == "no plan"

ASSUME InvestigationAssumption ==
  /\ DOMAIN WorkerOf = Slot
  /\ \A s \in Slot : WorkerOf[s] \notin {NoOne, Gone}
  /\ RequiredApprovals \in Nat \ {0}
  /\ MaxFaults \in Nat /\ MaxRequests \in Nat

VARIABLES
  run,    \* the InvestigationRun row
  plan,   \* the TreatmentPlan row and its PlanApproval rows
  jobs,   \* the deduplication keys of the outbox, and the jobs not yet started
  slot,   \* the local state of every call of processInvestigation
  used    \* how much of each bound is used up

vars == <<run, plan, jobs, slot, used>>

(* The stages of a run in their order; the last seven are those of the       *)
(* agents (stageByAgent).                                                    *)
Stages == <<"POLICY_CHECK", "CONTEXT_BUILDING", "TRIAGE", "MAPPING", "HYPOTHESIS", "VALIDATION",
            "SECURITY_REVIEW", "PLAN_COMPOSITION", "CRITIC_REVIEW">>
Active == {Stages[i] : i \in DOMAIN Stages}
Decided == {"APPROVED", "REJECTED", "REVISION_REQUESTED"}
Failed == {"INSUFFICIENT_EVIDENCE", "CANCELLED", "TIMED_OUT", "MODEL_FAILED", "TOOL_FAILED",
           "BUDGET_EXCEEDED", "SECURITY_REJECTED"}
Status == Active \cup Decided \cup Failed \cup {"REQUESTED", "AWAITING_APPROVAL"}

(* The table of packages/ai policy.ts, as far as checkpoints and resumptions *)
(* ask it.                                                                   *)
transitions ==
  [st \in Status |->
     CASE st = "REQUESTED" -> {"POLICY_CHECK"}
       [] st \in Active -> {Stages[i] : i \in {j \in 2 .. Len(Stages) : Stages[j - 1] = st}}
       [] st = "REVISION_REQUESTED" -> {"PLAN_COMPOSITION"}
       [] st \in {"INSUFFICIENT_EVIDENCE", "TOOL_FAILED"} -> {"CONTEXT_BUILDING"}
       [] st \in {"TIMED_OUT", "MODEL_FAILED"} -> {"POLICY_CHECK"}
       [] OTHER -> {}]

assertInvestigationTransition(current, next) == current = next \/ next \in transitions[current]

(* safeError, statusForError and the handler that calls them turn the        *)
(* message of an exception into a status.  What a critic says is part of its *)
(* message, so it decides how the refusal is classified.                     *)
safeError(error) ==
  CASE error \in {"lease", "transition", "database", "prompt", "model"} -> {"MODEL_FAILED"}
    [] error = "cancellation" -> {"CANCELLED"}
    [] error = "evidence" -> {"INSUFFICIENT_EVIDENCE"}
    [] error = "tool" -> {"TOOL_FAILED"}
    [] error = "timeout" -> {"TIMED_OUT"}
    [] error = "budget" -> {"BUDGET_EXCEEDED"}
    [] error \in {"review", "grounding"} -> {"SECURITY_REJECTED"}
    [] error = "critic" -> Failed

Idle == [stage |-> 0, step |-> "idle", outcome |-> "none"]
Running(s) == slot[s].step # "idle"
At(s, step) == slot[s].step = step

assertInvestigationLease(s) == run.owner = WorkerOf[s] /\ run.live

Go(s, stage, step) == slot' = [slot EXCEPT ![s] = [Idle EXCEPT !.stage = stage, !.step = step]]
Fail(s, error) ==
  \E status \in safeError(error) :
    slot' = [slot EXCEPT ![s] = [Idle EXCEPT !.step = "failed", !.outcome = status]]

Break == used.faults < MaxFaults /\ used' = [used EXCEPT !.faults = @ + 1]
Ask == used.requests < MaxRequests /\ used' = [used EXCEPT !.requests = @ + 1]
-----------------------------------------------------------------------------
(* createInvestigation has committed: a reproduced failure, a free place     *)
(* under the organization's limit, the row and the first job.  The same      *)
(* request again gets this row.                                              *)
Init ==
  /\ run = [status |-> "REQUESTED", owner |-> NoOne, live |-> FALSE, checkpoint |-> 0, cancel |-> FALSE]
  /\ plan = [status |-> NoPlan, approvals |-> {}]
  /\ jobs = [keys |-> {1}, queued |-> {1}]
  /\ slot = [s \in Slot |-> Idle]
  /\ used = [faults |-> 0, requests |-> 0]

NotLeasable == {"APPROVED", "REJECTED", "CANCELLED", "BUDGET_EXCEEDED", "SECURITY_REJECTED"}

Leasable(s) ==
  /\ run.owner = NoOne \/ ~run.live \/ run.owner = WorkerOf[s]
  /\ run.status \notin NotLeasable

acquireLease(s) ==
  /\ Leasable(s)
  /\ run' = [run EXCEPT !.owner = WorkerOf[s], !.live = TRUE]
  /\ Go(s, 1, "checkpoint")

(* A job starts; a job that cannot have the lease is done with. *)
deliverJob(s, k) ==
  /\ k \in jobs.queued /\ ~Running(s)
  /\ jobs' = [jobs EXCEPT !.queued = @ \ {k}]
  /\ acquireLease(s) \/ (~Leasable(s) /\ UNCHANGED <<run, slot>>)
  /\ UNCHANGED <<plan, used>>

(* A stalled job is run again. *)
redeliverJob(s) ==
  /\ jobs.queued = {} /\ ~Running(s) /\ Break
  /\ acquireLease(s)
  /\ UNCHANGED <<plan, jobs>>

(* An agent may run at all: its model is allowed and the budgets of          *)
(* invocations and of output tokens are not used up.                         *)
Admission(stage) == IF stage <= 2 THEN {} ELSE Failure \cap {"model", "budget"}

(* checkControl: the lease is renewed and a cancellation noticed; then an    *)
(* agent is admitted.                                                        *)
checkControl(s) ==
  /\ At(s, "control")
  /\ IF ~assertInvestigationLease(s) THEN Fail(s, "lease")
     ELSE IF run.cancel THEN Fail(s, "cancellation")
     ELSE \/ Go(s, slot[s].stage, "checkpoint")
          \/ \E error \in Admission(slot[s].stage) : Fail(s, error)
  /\ UNCHANGED <<run, plan, jobs, used>>

(* checkpoint: the lease, the transition, the row; or an error of the        *)
(* database.                                                                 *)
checkpoint(s) ==
  /\ At(s, "checkpoint")
  /\ LET to == Stages[slot[s].stage] IN
     \/ /\ IF ~assertInvestigationLease(s) THEN Fail(s, "lease") /\ UNCHANGED run
           ELSE IF ~assertInvestigationTransition(run.status, to) THEN Fail(s, "transition") /\ UNCHANGED run
           ELSE /\ run' = [run EXCEPT !.status = to, !.checkpoint = @ + 1]
                /\ Go(s, slot[s].stage, "work")
        /\ UNCHANGED used
     \/ Break /\ Fail(s, "database") /\ UNCHANGED run
  /\ UNCHANGED <<plan, jobs>>

(* What the worker records of its work: every record is refused without the  *)
(* lease, and no step reads one back.                                        *)
recordContextPackage(s) == assertInvestigationLease(s)
recordGuardrail(s) == assertInvestigationLease(s)
startAgentRun(s) == assertInvestigationLease(s)
recordToolCall(s) == assertInvestigationLease(s)
recordModelInvocation(s) == assertInvestigationLease(s)
finishAgentRun(s) == assertInvestigationLease(s)

(* POLICY_CHECK records nothing.  An agent records its invocation and its    *)
(* end when it fails, too.                                                   *)
Recorded(s) ==
  CASE slot[s].stage = 1 -> TRUE
    [] slot[s].stage = 2 -> recordContextPackage(s) /\ recordGuardrail(s)
    [] OTHER -> startAgentRun(s) /\ recordToolCall(s) /\ recordModelInvocation(s) /\ finishAgentRun(s)

(* The context stage: the sources of the incident, which must give at least  *)
(* two items of context, and the worktree of the reproduction.               *)
loadInvestigationSources == Failure \cap {"model"}
buildInvestigationContext == Failure \cap {"evidence"}
resolveWorktree == Failure \cap {"tool"}
buildContext == loadInvestigationSources \cup buildInvestigationContext \cup resolveWorktree

(* The composer of the plan is the only agent that is sent no tool call. *)
toolRequests == [stage \in 3 .. Len(Stages) |-> Stages[stage] # "PLAN_COMPOSITION"]

(* ReadOnlyToolGateway.execute: a tool that is not allowed, not known or too *)
(* talkative, or an error of the tool.                                       *)
executeTool == Failure \cap {"tool"}

(* A tool of an agent: its own look for a cancellation, its budget, the      *)
(* call.                                                                     *)
runTool(stage) ==
  IF ~toolRequests[stage] THEN {}
  ELSE executeTool \cup (Failure \cap {"budget"}) \cup (IF run.cancel THEN {"cancellation"} ELSE {})

(* OpenAIResponsesGateway.generateStructured: an answer that is no answer, a *)
(* provider that fails or takes too long.                                    *)
generateStructured == Failure \cap {"prompt", "model", "timeout"}

(* The budgets of tokens and of money against what the invocation used. *)
chargeUsage == Failure \cap {"budget"}

(* Citations that name nothing in the committed context, of the diagnosis,   *)
(* the plan or the critic.                                                   *)
validateGrounding == Failure \cap {"grounding"}

(* What follows the answer of the security reviewer and of the critic. *)
review(stage) ==
  CASE Stages[stage] = "SECURITY_REVIEW" -> Failure \cap {"review"}
    [] Stages[stage] = "CRITIC_REVIEW" -> (Failure \cap {"critic"}) \cup validateGrounding
    [] OTHER -> {}

Errors(stage) ==
  CASE stage = 1 -> {}
    [] stage = 2 -> buildContext
    [] OTHER -> runTool(stage) \cup generateStructured \cup chargeUsage \cup review(stage)

(* The work of a stage, with its records. *)
executeAgent(s) ==
  /\ At(s, "work")
  /\ \/ IF ~Recorded(s) THEN Fail(s, "lease")
        ELSE IF slot[s].stage < Len(Stages) THEN Go(s, slot[s].stage + 1, "control")
        ELSE Go(s, slot[s].stage, "save")
     \/ \E error \in Errors(slot[s].stage) : Fail(s, error)
  /\ UNCHANGED <<run, plan, jobs, used>>

(* Mutant of saveDiagnosisAndPlan: stored without the lease. *)
saveUnfenced(s) ==
  /\ At(s, "save")
  /\ IF plan.status = NoPlan
     THEN /\ plan' = [plan EXCEPT !.status = "AWAITING_APPROVAL"]
          /\ run' = [run EXCEPT !.status = "AWAITING_APPROVAL", !.owner = NoOne, !.live = FALSE]
          /\ slot' = [slot EXCEPT ![s] = Idle]
     ELSE Fail(s, "database") /\ UNCHANGED <<run, plan>>
  /\ UNCHANGED <<jobs, used>>

(* saveDiagnosisAndPlan: an investigation has one diagnosis, and its plan    *)
(* has version 1, so a second one violates the unique keys.  The status is   *)
(* not asked.                                                                *)
saveDiagnosisAndPlan(s) ==
  /\ At(s, "save")
  /\ IF assertInvestigationLease(s) /\ plan.status = NoPlan
     THEN /\ plan' = [plan EXCEPT !.status = "AWAITING_APPROVAL"]
          /\ run' = [run EXCEPT !.status = "AWAITING_APPROVAL", !.owner = NoOne, !.live = FALSE]
          /\ slot' = [slot EXCEPT ![s] = Idle]
     ELSE Fail(s, "database") /\ UNCHANGED <<run, plan>>
  /\ UNCHANGED <<jobs, used>>

(* failInvestigation, from the exception handler: the status is set without  *)
(* a look at the old one; without the lease nothing is written.              *)
failInvestigation(s) ==
  /\ At(s, "failed")
  /\ run' = IF assertInvestigationLease(s)
            THEN [run EXCEPT !.status = slot[s].outcome, !.owner = NoOne, !.live = FALSE]
            ELSE run
  /\ slot' = [slot EXCEPT ![s] = Idle]
  /\ UNCHANGED <<plan, jobs, used>>

(* Mutant of staleStatuses: the last stage is forgotten. *)
staleBeforeCritic == Active \ {"CRITIC_REVIEW"}

staleStatuses == Active

(* reconcileStaleInvestigations: a lease that has expired and a row that was *)
(* not touched for some time, which here is a lease that is not live.        *)
reconcileStaleInvestigations ==
  /\ run.owner # NoOne /\ ~run.live /\ run.status \in staleStatuses
  /\ run' = [run EXCEPT !.status = "MODEL_FAILED", !.owner = NoOne]
  /\ UNCHANGED <<plan, jobs, slot, used>>
-----------------------------------------------------------------------------
requestCancellation ==
  /\ Ask /\ ~run.cancel
  /\ run.status \notin {"APPROVED", "REJECTED", "CANCELLED", "SECURITY_REJECTED"}
  /\ run' = [run EXCEPT !.cancel = TRUE]
  /\ UNCHANGED <<plan, jobs, slot>>

Retryable == {"INSUFFICIENT_EVIDENCE", "TIMED_OUT", "MODEL_FAILED", "TOOL_FAILED", "REVISION_REQUESTED"}

(* resumeInvestigation: a retryable status from which the table also allows  *)
(* POLICY_CHECK.  The job's key is made of the number of checkpoints; when   *)
(* that key was used, no job is stored.                                      *)
resumeInvestigation ==
  /\ Ask
  /\ run.status \in Retryable /\ assertInvestigationTransition(run.status, "POLICY_CHECK")
  /\ run' = [run EXCEPT !.status = "REQUESTED", !.owner = NoOne, !.live = FALSE, !.cancel = FALSE]
  /\ LET key == run.checkpoint + 1 IN
     jobs' = IF key \in jobs.keys THEN jobs
             ELSE [keys |-> jobs.keys \cup {key}, queued |-> jobs.queued \cup {key}]
  /\ UNCHANGED <<plan, slot>>

(* Mutant of decideTreatmentPlan: the investigation keeps its status. *)
decidePlanAlone(a, decision) ==
  /\ plan.status = "AWAITING_APPROVAL"
  /\ LET approvals == IF decision = "APPROVED" THEN plan.approvals \cup {a} ELSE plan.approvals
         next == IF decision = "APPROVED" /\ Cardinality(approvals) < RequiredApprovals
                 THEN "AWAITING_APPROVAL" ELSE decision
     IN plan' = [status |-> next, approvals |-> approvals]
  /\ UNCHANGED <<run, jobs, slot, used>>

(* decideTreatmentPlan by a person, once per decision: the plan and the      *)
(* investigation get the status, whatever the investigation is doing.        *)
decideTreatmentPlan(a, decision) ==
  /\ plan.status = "AWAITING_APPROVAL"
  /\ decision = "APPROVED" => a \notin plan.approvals
  /\ LET approvals == IF decision = "APPROVED" THEN plan.approvals \cup {a} ELSE plan.approvals
         next == IF decision = "APPROVED" /\ Cardinality(approvals) < RequiredApprovals
                 THEN "AWAITING_APPROVAL" ELSE decision
     IN /\ plan' = [status |-> next, approvals |-> approvals]
        /\ run' = [run EXCEPT !.status = next]
  /\ UNCHANGED <<jobs, slot, used>>
-----------------------------------------------------------------------------
Busy == \E s \in Slot : Running(s) /\ run.owner = WorkerOf[s]

(* The heartbeat of a run under way comes too late. *)
LeaseLapses ==
  /\ run.live /\ Busy /\ Break
  /\ run' = [run EXCEPT !.live = FALSE]
  /\ UNCHANGED <<plan, jobs, slot>>

(* Nobody renews the lease of a run that is no more. *)
LeaseExpires ==
  /\ run.live /\ ~Busy
  /\ run' = [run EXCEPT !.live = FALSE]
  /\ UNCHANGED <<plan, jobs, slot, used>>

Crash(w) ==
  /\ \E s \in Slot : WorkerOf[s] = w /\ Running(s)
  /\ Break
  /\ slot' = [s \in Slot |-> IF WorkerOf[s] = w THEN Idle ELSE slot[s]]
  /\ run' = [run EXCEPT !.owner = IF @ = w THEN Gone ELSE @]
  /\ UNCHANGED <<plan, jobs>>

Work(s) ==
  checkControl(s) \/ checkpoint(s) \/ executeAgent(s) \/ saveDiagnosisAndPlan(s) \/ failInvestigation(s)

Next ==
  \/ \E s \in Slot : (\E k \in jobs.queued : deliverJob(s, k)) \/ redeliverJob(s) \/ Work(s)
  \/ reconcileStaleInvestigations
  \/ requestCancellation \/ resumeInvestigation
  \/ \E a \in Actor, decision \in Decided : decideTreatmentPlan(a, decision)
  \/ LeaseLapses \/ LeaseExpires \/ \E w \in {WorkerOf[s] : s \in Slot} : Crash(w)

Spec == Init /\ [][Next]_vars

(* Calls end, the reconciler runs on a timer, unrenewed leases expire, and a *)
(* queued job is started while a slot is free.                               *)
Fairness ==
  /\ \A s \in Slot : WF_vars(Work(s))
  /\ WF_vars(\E s \in Slot, k \in jobs.queued : deliverJob(s, k))
  /\ WF_vars(reconcileStaleInvestigations) /\ WF_vars(LeaseExpires)

FairSpec == Spec /\ Fairness
-----------------------------------------------------------------------------
TypeOK ==
  /\ run \in [status : Status, owner : {WorkerOf[s] : s \in Slot} \cup {NoOne, Gone}, live : BOOLEAN,
              checkpoint : Nat, cancel : BOOLEAN]
  /\ plan \in [status : Decided \cup {NoPlan, "AWAITING_APPROVAL"}, approvals : SUBSET Actor]
  /\ jobs \in [keys : SUBSET (Nat \ {0}), queued : SUBSET (Nat \ {0})]
  /\ slot \in [Slot -> [stage : 0 .. Len(Stages), step : {"idle", "control", "checkpoint", "work", "save", "failed"},
                        outcome : Failed \cup {"none"}]]
  /\ used \in [faults : 0 .. MaxFaults, requests : 0 .. MaxRequests]

(* A diagnosis and its plan are stored only when the investigation has come   *)
(* through every stage: a run that lost its lease, to the reconciler or to    *)
(* another delivery, cannot store one into the run that follows it.           *)
SavedAfterCritic ==
  [][plan.status = NoPlan /\ plan'.status # NoPlan => run.status = "CRITIC_REVIEW"]_vars

(* A plan counts as approved, and the investigation with it, only by as many  *)
(* different people as it requires.                                           *)
ApprovedByEnough ==
  "APPROVED" \in {plan.status, run.status} => Cardinality(plan.approvals) >= RequiredApprovals

(* When the investigation says that people have decided or have to decide,    *)
(* the plan says the same.                                                    *)
DecisionsAgree == run.status \in Decided \cup {"AWAITING_APPROVAL"} => plan.status = run.status

(* The conjunction the run checks: the types, and that plan and investigation *)
(* agree about a decision that enough people took.                            *)
InvestigationInv == TypeOK /\ ApprovedByEnough /\ DecisionsAgree

(* An investigation under way comes to rest: a run ends, or the reconciler    *)
(* ends what a dead or stale run left.                                        *)
ActiveSettles == (run.status \in Active) ~> (run.status \notin Active)

=============================================================================
