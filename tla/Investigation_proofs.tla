------------------------ MODULE Investigation_proofs ------------------------
(***************************************************************************)
(* What holds of an investigation for any number of workers, calls,        *)
(* people, required approvals, faults and requests.                        *)
(***************************************************************************)
EXTENDS Investigation, FiniteSetTheorems, TLAPS

\* No two calls of processInvestigation share a process, and so a lease.
OneCallPerProcess == \A s, t \in Slot : WorkerOf[s] = WorkerOf[t] => s = t

\* What a call has in its hands: a stage as long as it works, afterwards the
\* status it failed with.
Placed(local) ==
  /\ local.step = "failed" => local.outcome \in Failed
  /\ local.step \in {"control", "checkpoint", "work"} => local.stage \in 1 .. 9
  /\ local.step = "save" => local.stage = 9

\* The inductive invariant of the types and of the decisions.
IInv ==
  /\ InvestigationInv
  /\ \A s \in Slot : Placed(slot[s])
  /\ IsFiniteSet(plan.approvals)

\* As long as there is no plan, the call that holds the lease and has passed
\* the checkpoint of its stage finds the investigation in that stage.
InStage ==
  plan.status = NoPlan =>
    \A s \in Slot : assertInvestigationLease(s) /\ slot[s].step \in {"work", "save"}
                      => run.status = Stages[slot[s].stage]

-----------------------------------------------------------------------------
(* The tables.                                                             *)

\* The stages of a run, the last of which is the critic's.
LEMMA StagesNamed ==
  /\ Len(Stages) = 9
  /\ \A i \in 1 .. 9 : Stages[i] \in Active
  /\ Stages[9] = "CRITIC_REVIEW"
BY DEF Stages, Active

\* No status belongs to two of the sets the code asks about.
LEMMA StatusesApart ==
  /\ Active \subseteq Status /\ Decided \subseteq Status /\ Failed \subseteq Status
  /\ {"REQUESTED", "AWAITING_APPROVAL"} \subseteq Status
  /\ \A st \in Active \cup Failed \cup {"REQUESTED"} : st \notin Decided \cup {"AWAITING_APPROVAL"}
<1>1. Active = {"POLICY_CHECK", "CONTEXT_BUILDING", "TRIAGE", "MAPPING", "HYPOTHESIS", "VALIDATION",
                "SECURITY_REVIEW", "PLAN_COMPOSITION", "CRITIC_REVIEW"}
  BY DEF Active, Stages
<1>. QED  BY <1>1 DEF Status, Decided, Failed

\* The errors a run can meet.
ErrorName == {"lease", "transition", "database", "prompt", "model", "cancellation", "evidence", "tool",
              "timeout", "budget", "review", "grounding", "critic"}

\* Whatever an error says, the handler finds a failed status for it.
LEMMA ErrorsFail ==
  ASSUME NEW error \in ErrorName
  PROVE  safeError(error) \subseteq Failed
BY DEF ErrorName, safeError, Failed

\* The errors of a stage are among them.
LEMMA ErrorsNamed ==
  ASSUME NEW stage \in 1 .. 9
  PROVE  Errors(stage) \subseteq ErrorName /\ Admission(stage) \subseteq ErrorName
<1>1. /\ runTool(stage) \subseteq ErrorName /\ generateStructured \subseteq ErrorName
      /\ chargeUsage \subseteq ErrorName /\ review(stage) \subseteq ErrorName
      /\ buildContext \subseteq ErrorName /\ Admission(stage) \subseteq ErrorName
  BY DEF runTool, executeTool, generateStructured, chargeUsage, review, validateGrounding, buildContext,
         loadInvestigationSources, buildInvestigationContext, resolveWorktree, Admission, ErrorName
<1>. QED  BY <1>1 DEF Errors

-----------------------------------------------------------------------------
(* The local states of the calls.                                          *)

Local == [stage : 0 .. 9, step : {"idle", "control", "checkpoint", "work", "save", "failed"},
          outcome : Failed \cup {"none"}]

\* The types and the places of all calls, as one fact about slot.
Slots == slot \in [Slot -> Local] /\ \A s \in Slot : Placed(slot[s])

LEMMA IdlePlaced == Idle \in Local /\ Placed(Idle)
BY DEF Idle, Local, Placed

\* A call takes a place: the others keep theirs.
LEMMA Takes ==
  ASSUME Slots, NEW s \in Slot, NEW local \in Local, Placed(local), slot' = [slot EXCEPT ![s] = local]
  PROVE  Slots' /\ \A t \in Slot : slot'[t] = IF t = s THEN local ELSE slot[t]
BY DEF Slots

LEMMA Goes ==
  ASSUME Slots, NEW s \in Slot, NEW stage \in 0 .. 9,
         NEW step \in {"control", "checkpoint", "work", "save"}, Go(s, stage, step),
         step = "save" => stage = 9, step # "save" => stage # 0
  PROVE  /\ Slots'
         /\ slot'[s].stage = stage /\ slot'[s].step = step
         /\ \A t \in Slot \ {s} : slot'[t] = slot[t]
<1>. DEFINE local == [Idle EXCEPT !.stage = stage, !.step = step]
<1>1. local \in Local /\ local.stage = stage /\ local.step = step  BY IdlePlaced DEF Local
<1>2. slot' = [slot EXCEPT ![s] = local]  BY DEF Go
<1>. HIDE DEF local
<1>3. Placed(local)  BY <1>1 DEF Placed
<1>4. Slots' /\ \A t \in Slot : slot'[t] = IF t = s THEN local ELSE slot[t]  BY <1>1, <1>2, <1>3, Takes
<1>. QED  BY <1>1, <1>4

\* A call that fails keeps the status for the exception handler.
LEMMA Fails ==
  ASSUME Slots, NEW s \in Slot, NEW error \in ErrorName, Fail(s, error)
  PROVE  Slots' /\ slot'[s].step = "failed" /\ \A t \in Slot \ {s} : slot'[t] = slot[t]
<1>1. PICK status \in safeError(error) :
        slot' = [slot EXCEPT ![s] = [Idle EXCEPT !.step = "failed", !.outcome = status]]
  BY DEF Fail
<1>. DEFINE local == [Idle EXCEPT !.step = "failed", !.outcome = status]
<1>2. status \in Failed  BY ErrorsFail
<1>3. local \in Local /\ local.step = "failed" /\ local.outcome = status  BY <1>2, IdlePlaced DEF Local
<1>4. slot' = [slot EXCEPT ![s] = local]  BY <1>1
<1>. HIDE DEF local
<1>5. Placed(local)  BY <1>2, <1>3 DEF Placed
<1>6. Slots' /\ \A t \in Slot : slot'[t] = IF t = s THEN local ELSE slot[t]  BY <1>3, <1>4, <1>5, Takes
<1>. QED  BY <1>3, <1>6

LEMMA Ends ==
  ASSUME Slots, NEW s \in Slot, slot' = [slot EXCEPT ![s] = Idle]
  PROVE  Slots' /\ slot'[s].step = "idle" /\ \A t \in Slot \ {s} : slot'[t] = slot[t]
<1>1. Slots' /\ \A t \in Slot : slot'[t] = IF t = s THEN Idle ELSE slot[t]  BY IdlePlaced, Takes
<1>. QED  BY <1>1 DEF Idle

-----------------------------------------------------------------------------
(* The rows.                                                               *)

RunRow == [status : Status, owner : {WorkerOf[s] : s \in Slot} \cup {NoOne, Gone}, live : BOOLEAN,
           checkpoint : Nat, cancel : BOOLEAN]
PlanRow == [status : Decided \cup {NoPlan, "AWAITING_APPROVAL"}, approvals : SUBSET Actor]
JobRows == [keys : SUBSET (Nat \ {0}), queued : SUBSET (Nat \ {0})]
Used == [faults : 0 .. MaxFaults, requests : 0 .. MaxRequests]

\* TypeOK by rows and calls.
LEMMA TypesOfRows ==
  TypeOK <=> run \in RunRow /\ plan \in PlanRow /\ jobs \in JobRows /\ used \in Used /\ slot \in [Slot -> Local]
BY StagesNamed DEF TypeOK, RunRow, PlanRow, JobRows, Used, Local

\* The bounds are respected by faults and requests.
LEMMA UsedTyped ==
  ASSUME used \in Used, Break \/ Ask \/ used' = used
  PROVE  used' \in Used
BY InvestigationAssumption DEF Used, Break, Ask

\* A step that leaves the plan alone and gives the investigation a status that
\* nobody decides about, or none, keeps the agreement.
LEMMA Undecided ==
  ASSUME ApprovedByEnough, DecisionsAgree, plan' = plan,
         run'.status = run.status \/ run'.status \in Active \cup Failed \cup {"REQUESTED"}
  PROVE  ApprovedByEnough' /\ DecisionsAgree'
<1>1. CASE run'.status = run.status
  BY <1>1 DEF ApprovedByEnough, DecisionsAgree
<1>2. CASE run'.status \in Active \cup Failed \cup {"REQUESTED"}
  <2>1. run'.status \notin Decided \cup {"AWAITING_APPROVAL"}  BY <1>2, StatusesApart
  <2>2. run'.status # "APPROVED"  BY <2>1 DEF Decided
  <2>. QED  BY <2>1, <2>2 DEF ApprovedByEnough, DecisionsAgree
<1>. QED  BY <1>1, <1>2

\* The rows that the store and the API write, by their columns.
LEMMA RunRows ==
  ASSUME run \in RunRow, NEW s \in Slot, NEW st \in Status
  PROVE  /\ [run EXCEPT !.owner = WorkerOf[s], !.live = TRUE] \in RunRow
         /\ [run EXCEPT !.status = st, !.checkpoint = @ + 1] \in RunRow
         /\ [run EXCEPT !.status = st, !.owner = NoOne, !.live = FALSE] \in RunRow
         /\ [run EXCEPT !.status = st, !.owner = NoOne, !.live = FALSE, !.cancel = FALSE] \in RunRow
         /\ [run EXCEPT !.status = st] \in RunRow
<1>1. [run EXCEPT !.owner = WorkerOf[s], !.live = TRUE] \in RunRow  BY DEF RunRow
<1>2. [run EXCEPT !.status = st, !.checkpoint = @ + 1] \in RunRow
  <2>1. run.checkpoint + 1 \in Nat  BY DEF RunRow
  <2>. QED  BY <2>1 DEF RunRow
<1>3. [run EXCEPT !.status = st, !.owner = NoOne, !.live = FALSE] \in RunRow  BY DEF RunRow
<1>4. [run EXCEPT !.status = st, !.owner = NoOne, !.live = FALSE, !.cancel = FALSE] \in RunRow  BY DEF RunRow
<1>5. [run EXCEPT !.status = st] \in RunRow  BY DEF RunRow
<1>. QED  BY <1>1, <1>2, <1>3, <1>4, <1>5

-----------------------------------------------------------------------------
(* The steps.                                                              *)

\* The parts of the inductive invariant that the steps are looked at for.
Parts ==
  /\ run \in RunRow /\ plan \in PlanRow /\ jobs \in JobRows /\ used \in Used /\ Slots
  /\ ApprovedByEnough /\ DecisionsAgree /\ IsFiniteSet(plan.approvals)

LEMMA PartsOfIInv == IInv <=> Parts
BY TypesOfRows DEF IInv, InvestigationInv, Parts, Slots

\* A lease is taken, or a job is given up.
LEMMA LeaseStep ==
  ASSUME Parts, NEW s \in Slot, acquireLease(s) \/ UNCHANGED <<run, slot>>, UNCHANGED plan,
         jobs' \in JobRows, used' \in Used
  PROVE  Parts'
<1>1. CASE acquireLease(s)
  <2>1. run' = [run EXCEPT !.owner = WorkerOf[s], !.live = TRUE] /\ Go(s, 1, "checkpoint")
    BY <1>1 DEF acquireLease
  <2>2. run' \in RunRow /\ run'.status = run.status  BY <2>1 DEF Parts, RunRow
  <2>3. Slots'  BY <2>1, Goes DEF Parts
  <2>. QED  BY <2>2, <2>3, Undecided DEF Parts
<1>2. CASE UNCHANGED <<run, slot>>
  BY <1>2, Undecided DEF Parts, Slots
<1>. QED  BY <1>1, <1>2

LEMMA CheckpointStep ==
  ASSUME Parts, NEW s \in Slot, checkpoint(s)
  PROVE  Parts'
<1>. DEFINE to == Stages[slot[s].stage]
<1>1. slot[s].stage \in 1 .. 9  BY DEF Parts, Slots, Placed, checkpoint, At
<1>2. to \in Active /\ to \in Status  BY <1>1, StagesNamed, StatusesApart
<1>3. plan' = plan /\ jobs' \in JobRows /\ used' \in Used  BY UsedTyped DEF checkpoint, Parts
<1>4. CASE run' = run /\ \E error \in ErrorName : Fail(s, error)
  <2>1. Slots'  BY <1>4, Fails DEF Parts
  <2>. QED  BY <1>3, <1>4, <2>1, Undecided DEF Parts
<1>5. CASE run' = [run EXCEPT !.status = to, !.checkpoint = @ + 1] /\ Go(s, slot[s].stage, "work")
  <2>1. run' \in RunRow  BY <1>2, <1>5, RunRows DEF Parts
  <2>3. run'.status = to  BY <1>5 DEF Parts, RunRow
  <2>2. Slots'  BY <1>1, <1>5, Goes DEF Parts
  <2>. QED  BY <1>2, <1>3, <2>1, <2>2, <2>3, Undecided DEF Parts
<1>. QED  BY <1>4, <1>5 DEF checkpoint, ErrorName

\* A step that leaves the rows alone.
LEMMA SameRows ==
  ASSUME Parts, UNCHANGED <<run, plan, jobs>>, used' \in Used, Slots'
  PROVE  Parts'
BY Undecided DEF Parts

LEMMA LocalStep ==
  ASSUME Parts, NEW s \in Slot, checkControl(s) \/ executeAgent(s)
  PROVE  Parts'
<1>1. UNCHANGED <<run, plan, jobs, used>>  BY DEF checkControl, executeAgent
<1>2. slot[s].stage \in 1 .. 9  BY DEF Parts, Slots, Placed, checkControl, executeAgent, At
<1>3. Errors(slot[s].stage) \subseteq ErrorName /\ Admission(slot[s].stage) \subseteq ErrorName
  BY <1>2, ErrorsNamed
<1>4. CASE \E error \in ErrorName : Fail(s, error)
  <2>1. Slots'  BY <1>4, Fails DEF Parts
  <2>. QED  BY <1>1, <2>1, SameRows DEF Parts
<1>5. CASE \E stage \in 1 .. 9, step \in {"control", "checkpoint", "save"} :
             (step = "save" => stage = 9) /\ Go(s, stage, step)
  <2>1. Slots'  BY <1>5, Goes DEF Parts
  <2>. QED  BY <1>1, <2>1, SameRows DEF Parts
<1>6. CASE checkControl(s)
  BY <1>2, <1>3, <1>4, <1>5, <1>6 DEF checkControl, ErrorName
<1>7. CASE executeAgent(s)
  <2>1. CASE \E error \in Errors(slot[s].stage) : Fail(s, error)  BY <1>3, <1>4, <2>1
  <2>2. CASE Fail(s, "lease")  BY <1>4, <2>2 DEF ErrorName
  <2>3. CASE slot[s].stage < 9 /\ Go(s, slot[s].stage + 1, "control")
    <3>1. slot[s].stage + 1 \in 1 .. 9  BY <1>2, <2>3
    <3>. QED  BY <1>5, <2>3, <3>1
  <2>4. CASE ~(slot[s].stage < 9) /\ Go(s, slot[s].stage, "save")
    <3>1. slot[s].stage = 9  BY <1>2, <2>4
    <3>. QED  BY <1>5, <2>4, <3>1
  <2>. QED  BY <1>7, <2>1, <2>2, <2>3, <2>4, StagesNamed DEF executeAgent
<1>. QED  BY <1>6, <1>7

LEMMA SaveStep ==
  ASSUME Parts, NEW s \in Slot, saveDiagnosisAndPlan(s)
  PROVE  Parts'
<1>1. UNCHANGED <<jobs, used>>  BY DEF saveDiagnosisAndPlan
<1>2. CASE Fail(s, "database") /\ UNCHANGED <<run, plan>>
  <2>1. Slots'  BY <1>2, Fails DEF Parts, ErrorName
  <2>. QED  BY <1>1, <1>2, <2>1, SameRows DEF Parts
<1>3. CASE /\ plan.status = NoPlan
           /\ plan' = [plan EXCEPT !.status = "AWAITING_APPROVAL"]
           /\ run' = [run EXCEPT !.status = "AWAITING_APPROVAL", !.owner = NoOne, !.live = FALSE]
           /\ slot' = [slot EXCEPT ![s] = Idle]
  <2>1. run' \in RunRow  BY <1>3, RunRows, StatusesApart DEF Parts
  <2>2. run'.status = "AWAITING_APPROVAL"  BY <1>3 DEF Parts, RunRow
  <2>3. plan' \in PlanRow /\ plan'.status = "AWAITING_APPROVAL" /\ plan'.approvals = plan.approvals
    BY <1>3 DEF Parts, PlanRow
  <2>4. Slots'  BY <1>3, Ends DEF Parts
  <2>5. ApprovedByEnough' /\ DecisionsAgree'  BY <2>2, <2>3 DEF ApprovedByEnough, DecisionsAgree
  <2>. QED  BY <1>1, <2>1, <2>3, <2>4, <2>5 DEF Parts
<1>. QED  BY <1>2, <1>3 DEF saveDiagnosisAndPlan

LEMMA FailStep ==
  ASSUME Parts, NEW s \in Slot, failInvestigation(s)
  PROVE  Parts'
<1>1. UNCHANGED <<plan, jobs, used>>  BY DEF failInvestigation
<1>2. slot[s].outcome \in Failed /\ slot[s].outcome \in Status
  BY StatusesApart DEF Parts, Slots, Placed, failInvestigation, At
<1>3. run' \in RunRow /\ (run'.status = run.status \/ run'.status \in Failed)
  <2>1. CASE run' = run  BY <2>1 DEF Parts
  <2>2. CASE run' = [run EXCEPT !.status = slot[s].outcome, !.owner = NoOne, !.live = FALSE]
    <3>1. run' \in RunRow  BY <1>2, <2>2, RunRows DEF Parts
    <3>2. run'.status = slot[s].outcome  BY <2>2 DEF Parts, RunRow
    <3>. QED  BY <1>2, <3>1, <3>2
  <2>. QED  BY <2>1, <2>2 DEF failInvestigation
<1>4. Slots'  BY Ends DEF failInvestigation, Parts
<1>. QED  BY <1>1, <1>3, <1>4, Undecided DEF Parts

\* The reconciler, the cancellation and the lapse of a lease.
LEMMA RunStep ==
  ASSUME Parts, reconcileStaleInvestigations \/ requestCancellation \/ LeaseLapses \/ LeaseExpires
  PROVE  Parts'
<1>1. UNCHANGED <<plan, jobs, slot>> /\ used' \in Used
  BY UsedTyped DEF reconcileStaleInvestigations, requestCancellation, LeaseLapses, LeaseExpires, Parts
<1>2. Slots'  BY <1>1 DEF Parts, Slots
<1>3. run' \in RunRow /\ (run'.status = run.status \/ run'.status \in Failed)
  <2>1. CASE reconcileStaleInvestigations
    BY <2>1, StatusesApart DEF reconcileStaleInvestigations, Parts, RunRow, Failed
  <2>2. CASE requestCancellation
    BY <2>2 DEF requestCancellation, Parts, RunRow
  <2>3. CASE LeaseLapses \/ LeaseExpires
    BY <2>3 DEF LeaseLapses, LeaseExpires, Parts, RunRow
  <2>. QED  BY <2>1, <2>2, <2>3
<1>. QED  BY <1>1, <1>2, <1>3, Undecided DEF Parts

LEMMA ResumeStep ==
  ASSUME Parts, resumeInvestigation
  PROVE  Parts'
<1>1. UNCHANGED <<plan, slot>> /\ used' \in Used  BY UsedTyped DEF resumeInvestigation, Parts
<1>2. run' = [run EXCEPT !.status = "REQUESTED", !.owner = NoOne, !.live = FALSE, !.cancel = FALSE]
  BY DEF resumeInvestigation
<1>3. run' \in RunRow /\ run'.status = "REQUESTED"  BY <1>2, StatusesApart DEF Parts, RunRow
<1>4. jobs' \in JobRows
  <2>. DEFINE key == run.checkpoint + 1
  <2>1. key \in Nat \ {0}  BY DEF Parts, RunRow
  <2>2. jobs' = IF key \in jobs.keys THEN jobs
                ELSE [keys |-> jobs.keys \cup {key}, queued |-> jobs.queued \cup {key}]
    BY DEF resumeInvestigation
  <2>. QED  BY <2>1, <2>2 DEF Parts, JobRows
<1>5. Slots'  BY <1>1 DEF Parts, Slots
<1>. QED  BY <1>1, <1>3, <1>4, <1>5, Undecided DEF Parts

\* A decision reaches the plan and the investigation together, and an approval
\* is complete only when enough people have given theirs.
LEMMA DecideStep ==
  ASSUME Parts, NEW a \in Actor, NEW decision \in Decided, decideTreatmentPlan(a, decision)
  PROVE  Parts'
<1>. DEFINE approvals == IF decision = "APPROVED" THEN plan.approvals \cup {a} ELSE plan.approvals
            next == IF decision = "APPROVED" /\ Cardinality(approvals) < RequiredApprovals
                    THEN "AWAITING_APPROVAL" ELSE decision
<1>1. /\ UNCHANGED <<jobs, slot, used>> /\ plan.status = "AWAITING_APPROVAL"
      /\ plan' = [status |-> next, approvals |-> approvals]
      /\ run' = [run EXCEPT !.status = next]
  BY DEF decideTreatmentPlan
<1>2. approvals \in SUBSET Actor /\ IsFiniteSet(approvals)
  BY FS_AddElement DEF Parts, PlanRow
<1>3. Cardinality(approvals) \in Nat  BY <1>2, FS_CardinalityType
<1>4. next = "APPROVED" => Cardinality(approvals) >= RequiredApprovals
  BY <1>3, InvestigationAssumption
<1>5. next \in Decided \cup {"AWAITING_APPROVAL"} /\ next \in Status  BY StatusesApart
<1>. HIDE DEF next, approvals
<1>6. plan' \in PlanRow /\ plan'.status = next /\ plan'.approvals = approvals  BY <1>1, <1>2, <1>5 DEF PlanRow
<1>7. run' \in RunRow /\ run'.status = next  BY <1>1, <1>5 DEF Parts, RunRow
<1>8. ApprovedByEnough' /\ DecisionsAgree'  BY <1>4, <1>6, <1>7 DEF ApprovedByEnough, DecisionsAgree
<1>9. Slots'  BY <1>1 DEF Parts, Slots
<1>. QED  BY <1>1, <1>2, <1>6, <1>7, <1>8, <1>9 DEF Parts

LEMMA CrashStep ==
  ASSUME Parts, NEW w, Crash(w)
  PROVE  Parts'
<1>1. UNCHANGED <<plan, jobs>> /\ used' \in Used  BY UsedTyped DEF Crash, Parts
<1>2. run' \in RunRow /\ run'.status = run.status  BY DEF Crash, Parts, RunRow
<1>3. Slots'  BY IdlePlaced DEF Crash, Parts, Slots
<1>. QED  BY <1>1, <1>2, <1>3, Undecided DEF Parts

LEMMA InitParts == Init => Parts
<1>. SUFFICES ASSUME Init PROVE Parts  OBVIOUS
<1>1. run \in RunRow /\ run.status = "REQUESTED"  BY StatusesApart DEF Init, RunRow
<1>2. plan \in PlanRow /\ plan.status = NoPlan /\ plan.approvals = {}  BY DEF Init, PlanRow
<1>3. jobs \in JobRows  BY DEF Init, JobRows
<1>4. used \in Used  BY InvestigationAssumption DEF Init, Used
<1>5. Slots  BY IdlePlaced DEF Init, Slots
<1>6. ApprovedByEnough  BY <1>1, <1>2 DEF ApprovedByEnough, NoPlan
<1>7. DecisionsAgree  BY <1>1, StatusesApart DEF DecisionsAgree
<1>. QED  BY <1>1, <1>2, <1>3, <1>4, <1>5, <1>6, <1>7, FS_EmptySet DEF Parts

LEMMA NextParts ==
  ASSUME Parts, [Next]_vars
  PROVE  Parts'
<1>1. ASSUME NEW s \in Slot, \E k \in jobs.queued : deliverJob(s, k)  PROVE Parts'
  <2>1. PICK k \in jobs.queued : deliverJob(s, k)  BY <1>1
  <2>2. jobs' \in JobRows  BY <2>1 DEF deliverJob, Parts, JobRows
  <2>3. UNCHANGED <<plan, used>> /\ (acquireLease(s) \/ UNCHANGED <<run, slot>>)  BY <2>1 DEF deliverJob
  <2>. QED  BY <2>2, <2>3, LeaseStep DEF Parts
<1>2. ASSUME NEW s \in Slot, redeliverJob(s)  PROVE Parts'
  <2>1. UNCHANGED <<plan, jobs>> /\ acquireLease(s) /\ used' \in Used
    BY <1>2, UsedTyped DEF redeliverJob, Parts
  <2>. QED  BY <2>1, LeaseStep DEF Parts
<1>3. ASSUME NEW s \in Slot, Work(s)  PROVE Parts'
  BY <1>3, CheckpointStep, LocalStep, SaveStep, FailStep DEF Work
<1>4. CASE reconcileStaleInvestigations \/ requestCancellation \/ LeaseLapses \/ LeaseExpires
  BY <1>4, RunStep
<1>5. CASE resumeInvestigation  BY <1>5, ResumeStep
<1>6. CASE \E a \in Actor, decision \in Decided : decideTreatmentPlan(a, decision)  BY <1>6, DecideStep
<1>7. CASE \E w \in {WorkerOf[s] : s \in Slot} : Crash(w)  BY <1>7, CrashStep
<1>8. CASE UNCHANGED vars
  BY <1>8 DEF vars, Parts, Slots, ApprovedByEnough, DecisionsAgree
<1>. QED  BY <1>1, <1>2, <1>3, <1>4, <1>5, <1>6, <1>7, <1>8 DEF Next

(***************************************************************************)
(* Plan and investigation agree about every decision, and approved means   *)
(* by as many different people as the plan requires, whatever calls are    *)
(* still under way, fail late or lose their lease.                         *)
(***************************************************************************)
THEOREM DecisionsHold == Spec => []InvestigationInv
<1>1. Init => IInv  BY InitParts, PartsOfIInv
<1>2. IInv /\ [Next]_vars => IInv'
  <2>. SUFFICES ASSUME IInv, [Next]_vars PROVE IInv'  OBVIOUS
  <2>1. Parts  BY PartsOfIInv
  <2>2. Parts'  BY <2>1, NextParts
  <2>. QED  BY <2>2, PartsOfIInv, PTL
<1>3. IInv => InvestigationInv  BY DEF IInv
<1>. QED  BY <1>1, <1>2, <1>3, PTL DEF Spec

-----------------------------------------------------------------------------
(* What the lease tells calls of different processes apart.                *)

\* A step that neither moves a call nor the investigation, and gives the call
\* no lease it did not have.
LEMMA InStageFrame ==
  ASSUME InStage, NEW s \in Slot, slot'[s] = slot[s], run'.status = run.status,
         plan.status = NoPlan, assertInvestigationLease(s)' => assertInvestigationLease(s),
         assertInvestigationLease(s)', slot'[s].step \in {"work", "save"}
  PROVE  run'.status = Stages[slot'[s].stage]
BY DEF InStage

\* A call of another process cannot have this one's lease.
LEMMA LeaseIsExclusive ==
  ASSUME OneCallPerProcess, NEW s \in Slot, NEW t \in Slot, s # t,
         assertInvestigationLease(s)
  PROVE  ~assertInvestigationLease(t)
BY DEF OneCallPerProcess, assertInvestigationLease

LEMMA NextInStage ==
  ASSUME OneCallPerProcess, Parts, InStage, [Next]_vars
  PROVE  InStage'
<1>. SUFFICES ASSUME plan'.status = NoPlan, NEW s \in Slot, assertInvestigationLease(s)',
                     slot'[s].step \in {"work", "save"}
              PROVE  run'.status = Stages[slot'[s].stage]
  BY DEF InStage
<1>. DEFINE Frame == /\ slot'[s] = slot[s] /\ run'.status = run.status /\ plan.status = NoPlan
                     /\ assertInvestigationLease(s)' => assertInvestigationLease(s)
<1>0. Frame => run'.status = Stages[slot'[s].stage]  BY InStageFrame
<1>. HIDE DEF Frame
<1>1. ASSUME NEW t \in Slot, acquireLease(t)  PROVE FALSE
  <2>1. run'.owner = WorkerOf[t] /\ Go(t, 1, "checkpoint")  BY <1>1 DEF acquireLease, Parts, RunRow
  <2>2. slot'[t].step = "checkpoint"  BY <2>1, Goes DEF Parts
  <2>. QED  BY <2>1, <2>2 DEF OneCallPerProcess, assertInvestigationLease
<1>2. ASSUME UNCHANGED <<run, plan>>, slot'[s] = slot[s]  PROVE Frame
  BY <1>2 DEF Frame, assertInvestigationLease
<1>3. ASSUME NEW t \in Slot, checkControl(t)  PROVE Frame
  <2>1. slot[t].stage \in 1 .. 9  BY <1>3 DEF checkControl, At, Parts, Slots, Placed
  <2>2. (\E error \in ErrorName : Fail(t, error)) \/ Go(t, slot[t].stage, "checkpoint")
    BY <1>3, <2>1, ErrorsNamed DEF checkControl, ErrorName
  <2>3. slot'[t].step \in {"failed", "checkpoint"} /\ \A u \in Slot \ {t} : slot'[u] = slot[u]
    BY <2>1, <2>2, Fails, Goes DEF Parts
  <2>. QED  BY <1>2, <1>3, <2>3 DEF checkControl
<1>4. ASSUME NEW t \in Slot, checkpoint(t)  PROVE Frame \/ run'.status = Stages[slot'[s].stage]
  <2>. DEFINE to == Stages[slot[t].stage]
  <2>1. slot[t].stage \in 1 .. 9 /\ plan' = plan  BY <1>4 DEF checkpoint, At, Parts, Slots, Placed
  <2>2. CASE run' = run /\ \E error \in ErrorName : Fail(t, error)
    BY <1>2, <2>1, <2>2, Fails DEF Parts
  <2>3. CASE /\ assertInvestigationLease(t)
             /\ run' = [run EXCEPT !.status = to, !.checkpoint = @ + 1] /\ Go(t, slot[t].stage, "work")
    <3>1. run'.status = to /\ run'.owner = run.owner /\ run'.live = run.live
      BY <2>3 DEF Parts, RunRow
    <3>2. s = t  BY <2>3, <3>1 DEF OneCallPerProcess, assertInvestigationLease
    <3>3. slot'[s].stage = slot[t].stage  BY <2>1, <2>3, <3>2, Goes DEF Parts
    <3>. QED  BY <3>1, <3>3
  <2>. QED  BY <1>4, <2>2, <2>3 DEF checkpoint, ErrorName
<1>5. ASSUME NEW t \in Slot, executeAgent(t)  PROVE Frame \/ run'.status = Stages[slot'[s].stage]
  <2>1. slot[t].stage \in 1 .. 9 /\ slot[t].step = "work" /\ UNCHANGED <<run, plan>>
    BY <1>5 DEF executeAgent, At, Parts, Slots, Placed
  <2>2. CASE \E error \in ErrorName : Fail(t, error)
    BY <1>2, <2>1, <2>2, Fails DEF Parts
  <2>3. CASE slot[t].stage < 9 /\ Go(t, slot[t].stage + 1, "control")
    <3>1. slot[t].stage + 1 \in 1 .. 9  BY <2>1, <2>3
    <3>2. slot'[t].step = "control" /\ \A u \in Slot \ {t} : slot'[u] = slot[u]
      BY <2>3, <3>1, Goes DEF Parts
    <3>. QED  BY <1>2, <2>1, <3>2
  <2>4. CASE slot[t].stage = 9 /\ Go(t, 9, "save")
    <3>1. slot'[t].stage = 9 /\ \A u \in Slot \ {t} : slot'[u] = slot[u]  BY <2>4, Goes DEF Parts
    <3>2. CASE s = t
      BY <2>1, <2>4, <3>1, <3>2 DEF InStage, assertInvestigationLease
    <3>. QED  BY <1>2, <2>1, <3>1, <3>2
  <2>. QED  BY <1>5, <2>1, <2>2, <2>3, <2>4, StagesNamed, ErrorsNamed DEF executeAgent, ErrorName
<1>6. ASSUME NEW t \in Slot, saveDiagnosisAndPlan(t)  PROVE Frame
  <2>1. ~(plan' = [plan EXCEPT !.status = "AWAITING_APPROVAL"])  BY DEF Parts, PlanRow, NoPlan
  <2>2. Fail(t, "database") /\ UNCHANGED <<run, plan>>  BY <1>6, <2>1 DEF saveDiagnosisAndPlan
  <2>. QED  BY <1>2, <2>2, Fails DEF Parts, ErrorName
<1>7. ASSUME NEW t \in Slot, failInvestigation(t)  PROVE Frame
  <2>1. ~(run' = [run EXCEPT !.status = slot[t].outcome, !.owner = NoOne, !.live = FALSE])
    BY DEF Parts, RunRow, assertInvestigationLease
  <2>2. UNCHANGED <<run, plan>> /\ slot' = [slot EXCEPT ![t] = Idle]  BY <1>7, <2>1 DEF failInvestigation
  <2>. QED  BY <1>2, <2>2, Ends DEF Parts
<1>8. ASSUME reconcileStaleInvestigations \/ resumeInvestigation \/ LeaseLapses \/ LeaseExpires  PROVE FALSE
  <2>1. ~run'.live
    BY <1>8 DEF reconcileStaleInvestigations, resumeInvestigation, LeaseLapses, LeaseExpires, Parts, RunRow
  <2>. QED  BY <2>1 DEF assertInvestigationLease
<1>9. ASSUME requestCancellation  PROVE Frame
  BY <1>9 DEF requestCancellation, Parts, RunRow, Frame, assertInvestigationLease
<1>10. ASSUME NEW a \in Actor, NEW decision \in Decided, decideTreatmentPlan(a, decision)  PROVE FALSE
  BY <1>10 DEF decideTreatmentPlan, Decided, NoPlan
<1>11. ASSUME NEW w, Crash(w)  PROVE Frame
  <2>1. run'.owner = (IF run.owner = w THEN Gone ELSE run.owner) /\ run'.live = run.live
        /\ run'.status = run.status /\ plan' = plan
    BY <1>11 DEF Crash, Parts, RunRow
  <2>2. slot'[s] = IF WorkerOf[s] = w THEN Idle ELSE slot[s]  BY <1>11 DEF Crash
  <2>3. slot'[s] = slot[s]  BY <2>2 DEF Idle
  <2>. QED  BY <2>1, <2>3, InvestigationAssumption DEF Frame, assertInvestigationLease
<1>12. CASE UNCHANGED vars  BY <1>2, <1>0, <1>12 DEF vars
<1>13. ASSUME NEW t \in Slot, (\E k \in jobs.queued : deliverJob(t, k)) \/ redeliverJob(t)  PROVE Frame
  BY <1>1, <1>2, <1>13 DEF deliverJob, redeliverJob
<1>14. ASSUME NEW t \in Slot, Work(t)  PROVE Frame \/ run'.status = Stages[slot'[s].stage]
  BY <1>3, <1>4, <1>5, <1>6, <1>7, <1>14 DEF Work
<1>. QED  BY <1>0, <1>8, <1>9, <1>10, <1>11, <1>12, <1>13, <1>14 DEF Next

\* The only step that stores a plan is the one of a call that holds the lease.
LEMMA SavingStep ==
  ASSUME Parts, InStage, [Next]_vars, plan.status = NoPlan, plan'.status # NoPlan
  PROVE  run.status = "CRITIC_REVIEW"
<1>1. ASSUME NEW s \in Slot, saveDiagnosisAndPlan(s)  PROVE run.status = "CRITIC_REVIEW"
  <2>1. slot[s].step = "save" /\ assertInvestigationLease(s)
    BY <1>1 DEF saveDiagnosisAndPlan, At
  <2>2. slot[s].stage = 9  BY <2>1 DEF Parts, Slots, Placed
  <2>. QED  BY <2>1, <2>2, StagesNamed DEF InStage
<1>2. ASSUME NEW a \in Actor, NEW decision \in Decided, decideTreatmentPlan(a, decision)  PROVE FALSE
  BY <1>2 DEF decideTreatmentPlan, NoPlan
<1>3. ASSUME plan' = plan  PROVE FALSE  BY <1>3
<1>. QED
  BY <1>1, <1>2, <1>3 DEF Next, Work, vars, deliverJob, redeliverJob, checkControl, checkpoint, executeAgent,
     failInvestigation, reconcileStaleInvestigations, requestCancellation, resumeInvestigation,
     LeaseLapses, LeaseExpires, Crash

(***************************************************************************)
(* As long as no two calls of one process work on the investigation, a     *)
(* diagnosis is stored only when the investigation is in its last stage: a *)
(* call that lost its lease, to the reconciler or to another process, and  *)
(* goes on cannot store one into the run that follows.                     *)
(***************************************************************************)
THEOREM DiagnosisFollowsCritic ==
  ASSUME OneCallPerProcess
  PROVE  Spec => SavedAfterCritic
<1>1. Init => Parts /\ InStage  BY InitParts DEF Init, InStage, Idle
<1>2. Parts /\ InStage /\ [Next]_vars => Parts' /\ InStage'  BY NextParts, NextInStage
<1>3. Parts /\ InStage /\ [Next]_vars =>
        [plan.status = NoPlan /\ plan'.status # NoPlan => run.status = "CRITIC_REVIEW"]_vars
  BY SavingStep
<1>. QED  BY <1>1, <1>2, <1>3, PTL DEF Spec, SavedAfterCritic
=============================================================================
