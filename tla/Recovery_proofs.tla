-------------------------- MODULE Recovery_proofs --------------------------
(***************************************************************************)
(* What holds of a controlled recovery for any number of workers, calls,   *)
(* people, patches, faults and requests.                                   *)
(***************************************************************************)
EXTENDS Recovery, SequenceTheorems, TLAPS

\* No two calls of processRecovery share a process, and so a lease.
OneCallPerProcess == \A s, t \in Slot : WorkerOf[s] = WorkerOf[t] => s = t

\* How a run may end: never at the publication gate.
Outcome == Status \ Gate

Row == [status : Status \cup {NotCreated}, owner : {WorkerOf[s] : s \in Slot} \cup {NoOne, Gone},
        live : BOOLEAN, cancel : BOOLEAN, patch : Nat]
Patch == [version : Nat, diff : Diff, review : {"none", "ALLOW", "BLOCK"},
          report : {"none", "PASSED", "FAILED"}, package : BOOLEAN]
Approval == [round : Nat, actor : Actor, decision : {"APPROVE", "REJECT"}, saw : Nat]
Tree == [by : Slot, diff : Diff \cup {Clean}] \cup {NoTree}
Local == [pc : 0 .. 28, retry : BOOLEAN, base : Nat, diff : Diff \cup {NoDiff},
          tree : BOOLEAN, good : BOOLEAN, outcome : Outcome \cup {"none"}]
View == [fresh : BOOLEAN, patch : Nat]
Used == [faults : 0 .. MaxFaults, requests : 0 .. MaxRequests]

\* What a call has in its hands when n patches are recorded: a diff from the
\* proposal on, a patch of its own from the recording on.
Placed(local, n) ==
  /\ local.pc \in 12 .. 26 => local.diff \in Diff
  /\ local.base <= n
  /\ local.pc \in 16 .. 26 => local.base + 1 <= n

Slots == slot \in [Slot -> Local] /\ \A s \in Slot : Placed(slot[s], Len(patches))

\* Who read the row in its present version has seen its patch.
Seen == \A a \in Actor : view[a].fresh => view[a].patch = row.patch

\* The tables of one recovery: the row, its patches and decisions.
Records ==
  /\ row \in Row /\ patches \in Seq(Patch) /\ approvals \subseteq Approval /\ view \in [Actor -> View]
  /\ Seen /\ PatchesAreNumbered /\ DecidedAsRead

Surroundings == treeRow \in {"none", "READY", "REMOVED"} /\ tree \in Tree /\ used \in Used

\* The inductive invariant of the types, the numbering and the decisions.
IInv == Records /\ Surroundings /\ Slots

\* The stage in which the row is for the call that has the lease, by the steps
\* between two checkpoints.
Stage(pc) ==
  IF pc \in 14 .. 17 THEN "PATCH_VALIDATING"
  ELSE IF pc \in 18 .. 20 THEN "SECURITY_REVIEW"
  ELSE IF pc \in 21 .. 24 THEN "VERIFYING"
  ELSE "PACKAGE_BUILDING"

\* The call that has the lease and is about to record, or has recorded, a patch
\* finds the row in the stage of its last checkpoint, its own patch the last,
\* and of the results exactly those it stored itself.
InStep(s) ==
  /\ slot[s].pc \in 14 .. 26 => row.status = Stage(slot[s].pc)
  /\ slot[s].pc \in 16 .. 26 => row.patch = slot[s].base + 1
  /\ slot[s].pc \in 16 .. 18 => patches[row.patch].review = "none"
  /\ slot[s].pc \in 16 .. 22 => patches[row.patch].report = "none"
  /\ slot[s].pc \in 19 .. 26 => patches[row.patch].review = "ALLOW"
  /\ slot[s].pc \in 23 .. 26 => patches[row.patch].report = "PASSED"
  /\ slot[s].pc = 26 => patches[row.patch].package

Lockstep == \A s \in Slot : Leased(s) => InStep(s)

\* Whoever approved was allowed to.
ApprovalsSeparated == \A x \in approvals : x.decision = "APPROVE" => SeparateDuties(x.actor)

\* The inductive invariant of the evidence and the approvals, with IInv.
Evidence == Lockstep /\ GateIsEvidenced /\ ReadyIsApproved /\ ApprovalsSeparated

-----------------------------------------------------------------------------
(* The program of a run.                                                   *)

LEMMA ProgramSteps ==
  /\ Len(Program) = 28 /\ DOMAIN Program = 1 .. 28
  /\ Program[1] = "load" /\ Program[2] = "restart" /\ Program[3] = "POLICY_CHECK"
  /\ Program[4] = "control" /\ Program[5] = "WORKTREE_PREPARING" /\ Program[6] = "create"
  /\ Program[7] = "recordWorktree" /\ Program[8] = "control" /\ Program[9] = "PATCH_PLANNING"
  /\ Program[10] = "PATCH_GENERATING" /\ Program[11] = "generate" /\ Program[12] = "control"
  /\ Program[13] = "PATCH_VALIDATING" /\ Program[14] = "apply" /\ Program[15] = "recordPatch"
  /\ Program[16] = "control" /\ Program[17] = "SECURITY_REVIEW" /\ Program[18] = "review"
  /\ Program[19] = "control" /\ Program[20] = "VERIFYING" /\ Program[21] = "execute"
  /\ Program[22] = "recordVerification" /\ Program[23] = "control" /\ Program[24] = "PACKAGE_BUILDING"
  /\ Program[25] = "recordPackage" /\ Program[26] = "AWAITING_PUBLICATION_APPROVAL"
  /\ Program[27] = "cleanup" /\ Program[28] = "finish"
BY DEF Program

\* Where a step stands in the program.
LEMMA Places ==
  ASSUME NEW i \in 1 .. 28
  PROVE  /\ Program[i] = "load" => i = 1
         /\ Program[i] = "restart" => i = 2
         /\ Program[i] = "create" => i = 6
         /\ Program[i] = "recordWorktree" => i = 7
         /\ Program[i] = "generate" => i = 11
         /\ Program[i] = "control" => i \in {4, 8, 12, 16, 19, 23}
         /\ Program[i] = "apply" => i = 14
         /\ Program[i] = "recordPatch" => i = 15
         /\ Program[i] = "review" => i = 18
         /\ Program[i] = "execute" => i = 21
         /\ Program[i] = "recordVerification" => i = 22
         /\ Program[i] = "recordPackage" => i = 25
         /\ Program[i] = "cleanup" => i = 27
         /\ Program[i] = "finish" => i = 28
         /\ Program[i] \in Status => i \in {3, 5, 9, 10, 13, 17, 20, 24, 26}
<1>1. \/ i = 1 \/ i = 2 \/ i = 3 \/ i = 4 \/ i = 5 \/ i = 6 \/ i = 7 \/ i = 8 \/ i = 9 \/ i = 10
      \/ i = 11 \/ i = 12 \/ i = 13 \/ i = 14 \/ i = 15 \/ i = 16 \/ i = 17 \/ i = 18 \/ i = 19
      \/ i = 20 \/ i = 21 \/ i = 22 \/ i = 23 \/ i = 24 \/ i = 25 \/ i = 26 \/ i = 27 \/ i = 28
  OBVIOUS
<1>2. {"load", "restart", "create", "recordWorktree", "generate", "control", "apply", "recordPatch",
       "review", "execute", "recordVerification", "recordPackage", "cleanup", "finish"} \cap Status = {}
  BY DEF Status, Active, Gate, Resumable, NotLeasable
<1>. QED  BY <1>1, <1>2, ProgramSteps

LEMMA Beginnings == StepOf("load") = 1 /\ StepOf("cleanup") = 27
<1>1. Program[StepOf("load")] = "load" /\ StepOf("load") \in 1 .. 28  BY ProgramSteps DEF StepOf
<1>2. Program[StepOf("cleanup")] = "cleanup" /\ StepOf("cleanup") \in 1 .. 28  BY ProgramSteps DEF StepOf
<1>. QED  BY <1>1, <1>2, Places

\* Every status an exception is given is one a run may end with.
LEMMA FailuresAreOutcomes ==
  /\ Resumable \cup {"TIMED_OUT", "BUDGET_EXCEEDED", "CANCELLED", "CLEANUP_FAILED"} \subseteq Outcome
  /\ Quoted \cup evaluatePatchPolicy \subseteq Outcome
  /\ Outcome \subseteq Status
  /\ Active \subseteq Outcome
BY DEF Resumable, Outcome, Status, Gate, Active, NotLeasable, Quoted, evaluatePatchPolicy

LEMMA TransitionFailure ==
  ASSUME NEW current, NEW next
  PROVE  transitionError(current, next) \in Outcome
BY FailuresAreOutcomes DEF transitionError, Resumable

LEMMA Preparations ==
  ASSUME NEW i \in {3, 5, 9, 10, 13, 17, 20, 24, 26}
  PROVE  preparation[Program[i]] \subseteq Outcome
BY ProgramSteps, FailuresAreOutcomes DEF preparation, Resumable

-----------------------------------------------------------------------------
(* The calls.                                                              *)

LEMMA IdleLocal ==
  /\ Idle \in Local /\ Idle.pc = 0 /\ Idle.base = 0
  /\ \A n \in Nat : Placed(Idle, n)
BY DEF Idle, Local, Placed

\* A call takes a place, and patches are never taken away.
LEMMA Takes ==
  ASSUME Slots, NEW s \in Slot, NEW local \in Local, slot' = [slot EXCEPT ![s] = local],
         Len(patches) \in Nat, Len(patches') \in Nat, Len(patches') >= Len(patches),
         Placed(local, Len(patches'))
  PROVE  Slots' /\ \A t \in Slot : slot'[t] = IF t = s THEN local ELSE slot[t]
<1>1. slot' \in [Slot -> Local] /\ \A t \in Slot : slot'[t] = IF t = s THEN local ELSE slot[t]
  BY DEF Slots
<1>2. ASSUME NEW t \in Slot, t # s  PROVE Placed(slot[t], Len(patches'))
  <2>1. slot[t].base \in Nat /\ Placed(slot[t], Len(patches))  BY DEF Slots, Local
  <2>. QED  BY <2>1 DEF Placed
<1>. QED  BY <1>1, <1>2 DEF Slots

\* The place of a call whose exception handler has run.
Failed(status, made, place) == [Idle EXCEPT !.outcome = status, !.tree = made, !.pc = place]

LEMMA FailedLocal ==
  ASSUME NEW status \in Outcome, NEW made \in BOOLEAN, NEW place \in 0 .. 28
  PROVE  /\ Failed(status, made, place) \in Local
         /\ Failed(status, made, place).pc = place /\ Failed(status, made, place).base = 0
BY IdleLocal DEF Local, Failed

\* A call that fails goes to its clean-up with a status to end with.
LEMMA Fails ==
  ASSUME Slots, Len(patches) \in Nat, UNCHANGED patches, NEW s \in Slot, NEW status \in Outcome, Fail(s, status)
  PROVE  Slots' /\ slot'[s].pc = 27 /\ \A t \in Slot \ {s} : slot'[t] = slot[t]
<1>1. slot[s].tree \in BOOLEAN  BY DEF Slots, Local
<1>. DEFINE local == Failed(status, slot[s].tree, StepOf("cleanup"))
<1>2. slot' = [slot EXCEPT ![s] = local]  BY DEF Fail, Failed
<1>3. local \in Local /\ local.pc = 27 /\ local.base = 0  BY <1>1, Beginnings, FailedLocal
<1>. HIDE DEF local
<1>4. Len(patches') \in Nat /\ Len(patches') >= Len(patches)  OBVIOUS
<1>5. Placed(local, Len(patches'))  BY <1>3, <1>4 DEF Placed
<1>6. Slots' /\ \A t \in Slot : slot'[t] = IF t = s THEN local ELSE slot[t]
  BY <1>2, <1>3, <1>4, <1>5, Takes
<1>. QED  BY <1>3, <1>6

LEMMA FailsAs ==
  ASSUME Slots, Len(patches) \in Nat, UNCHANGED patches, NEW s \in Slot, NEW statuses \in SUBSET Outcome,
         FailAs(s, statuses)
  PROVE  Slots' /\ slot'[s].pc = 27 /\ \A t \in Slot \ {s} : slot'[t] = slot[t]
<1>1. PICK status \in statuses \cap Fault : Fail(s, status)  BY DEF FailAs
<1>. QED  BY <1>1, Fails

LEMMA OneFurther ==
  ASSUME NEW i \in 0 .. 27
  PROVE  i + 1 \in 1 .. 28
OBVIOUS

\* A call that goes on is one step further.
LEMMA Advances ==
  ASSUME Slots, NEW s \in Slot, NEW local \in Local, Advance(s, local), slot[s].pc \in 0 .. 27,
         Len(patches) \in Nat, Len(patches') \in Nat, Len(patches') >= Len(patches),
         slot[s].pc + 1 \in 12 .. 26 => local.diff \in Diff,
         local.base <= Len(patches'),
         slot[s].pc + 1 \in 16 .. 26 => local.base + 1 <= Len(patches')
  PROVE  /\ Slots'
         /\ slot'[s].pc = slot[s].pc + 1 /\ slot'[s].base = local.base /\ slot'[s].diff = local.diff
         /\ slot'[s].outcome = local.outcome
         /\ \A t \in Slot \ {s} : slot'[t] = slot[t]
<1>1. slot[s].pc + 1 \in 0 .. 28
  <2>1. slot[s].pc + 1 \in 1 .. 28  BY OneFurther, Zenon
  <2>. QED  BY <2>1
<1>. DEFINE pc == slot[s].pc + 1
            new == [local EXCEPT !.pc = pc]
<1>2. slot' = [slot EXCEPT ![s] = new] /\ pc \in 0 .. 28  BY <1>1 DEF Advance
<1>. HIDE DEF pc
<1>3. new \in Local  BY <1>2 DEF Local
<1>4. new.pc = pc /\ new.base = local.base /\ new.diff = local.diff /\ new.outcome = local.outcome
  BY DEF Local
<1>. HIDE DEF new
<1>5. Placed(new, Len(patches'))  BY <1>4 DEF Placed, pc
<1>6. Slots' /\ \A t \in Slot : slot'[t] = IF t = s THEN new ELSE slot[t]  BY <1>2, <1>3, <1>5, Takes
<1>. QED  BY <1>4, <1>6 DEF pc

\* What a step of a call does to the calls: the others stay, and on the way from
\* the application of a patch to the gate the call goes one step at a time.
Moves(s) ==
  /\ \A t \in Slot \ {s} : slot'[t] = slot[t]
  /\ slot'[s].pc \in 14 .. 26 => slot'[s].pc = slot[s].pc + 1 /\ slot'[s].base = slot[s].base

-----------------------------------------------------------------------------
(* The records.                                                            *)

LEMMA Lengths ==
  ASSUME Records
  PROVE  Len(patches) \in Nat /\ DOMAIN patches = 1 .. Len(patches) /\ row.patch = Len(patches)
BY LenProperties DEF Records, PatchesAreNumbered

LEMMA RecordsKept ==
  ASSUME Records, UNCHANGED <<row, patches, approvals, view>>
  PROVE  Records'
BY DEF Records, Seen, PatchesAreNumbered, DecidedAsRead

\* A change of the row that leaves its patch.
LEMMA RowChanges ==
  ASSUME Records, UNCHANGED <<patches, approvals>>, row' \in Row, row'.patch = row.patch,
         BumpVersion \/ UNCHANGED view
  PROVE  Records'
<1>1. view' \in [Actor -> View] /\ Seen'
  <2>1. CASE UNCHANGED view  BY <2>1 DEF Records, Seen
  <2>2. CASE BumpVersion
    <3>1. [fresh |-> FALSE, patch |-> 0] \in View /\ ~[fresh |-> FALSE, patch |-> 0].fresh  BY DEF View
    <3>2. view' \in [Actor -> View]  BY <2>2, <3>1 DEF BumpVersion
    <3>3. \A a \in Actor : ~view'[a].fresh  BY <2>2, <3>1 DEF BumpVersion
    <3>. QED  BY <3>2, <3>3 DEF Seen
  <2>. QED  BY <2>1, <2>2
<1>2. PatchesAreNumbered' /\ DecidedAsRead'  BY DEF Records, PatchesAreNumbered, DecidedAsRead
<1>. QED  BY <1>1, <1>2 DEF Records

\* A run knows its own patch by its number.
LEMMA OwnPatch ==
  ASSUME Records, Slots, NEW s \in Slot, slot[s].pc \in 16 .. 26
  PROVE  Own(s) = slot[s].base + 1 /\ Own(s) \in 1 .. Len(patches)
<1>1. slot[s].base \in Nat /\ slot[s].base + 1 <= Len(patches)  BY DEF Slots, Local, Placed
<1>. DEFINE version == slot[s].base + 1
<1>2. version \in 1 .. Len(patches)  BY <1>1, Lengths
<1>3. \A i \in 1 .. Len(patches) : patches[i].version = i  BY Lengths DEF Records, PatchesAreNumbered
<1>. HIDE DEF version
<1>4. version = CHOOSE i \in 1 .. Len(patches) : patches[i].version = version  BY <1>2, <1>3
<1>5. Own(s) = CHOOSE i \in 1 .. Len(patches) : patches[i].version = version  BY Lengths DEF Own, version
<1>. QED  BY <1>2, <1>4, <1>5 DEF version

\* A result is filled in.
LEMMA Filled ==
  ASSUME Records, NEW i \in 1 .. Len(patches), NEW patch \in Patch, patch.version = patches[i].version,
         patches' = [patches EXCEPT ![i] = patch], UNCHANGED <<row, approvals, view>>
  PROVE  /\ Records' /\ Len(patches') = Len(patches) /\ patches'[i] = patch
         /\ \A j \in 1 .. Len(patches) \ {i} : patches'[j] = patches[j]
<1>1. patches \in Seq(Patch)  BY DEF Records
<1>2. /\ patches' \in Seq(Patch) /\ Len(patches') = Len(patches) /\ patches'[i] = patch
      /\ \A j \in 1 .. Len(patches) \ {i} : patches'[j] = patches[j]
  BY <1>1, ExceptSeq
<1>3. DOMAIN patches' = 1 .. Len(patches)  BY <1>2, LenProperties
<1>4. PatchesAreNumbered'  BY <1>2, <1>3, Lengths DEF Records, PatchesAreNumbered
<1>5. Seen' /\ DecidedAsRead'  BY DEF Records, Seen, DecidedAsRead
<1>. QED  BY <1>2, <1>4, <1>5 DEF Records

-----------------------------------------------------------------------------
(* The steps of the queue, the reconciler and the calls.                   *)

\* The place of a call that has just begun.
Started(place, again) == [Idle EXCEPT !.pc = place, !.retry = again]

LEMMA StartedLocal ==
  ASSUME NEW place \in 0 .. 28, NEW again \in BOOLEAN
  PROVE  Started(place, again) \in Local /\ Started(place, again).pc = place /\ Started(place, again).base = 0
BY IdleLocal DEF Local, Started

\* A call that ends or begins: its place is free or the first one.
LEMMA Reset ==
  ASSUME Records, Slots, NEW s \in Slot, UNCHANGED patches, NEW local \in Local, local.pc \in {0, 1}, local.base = 0,
         slot' = [slot EXCEPT ![s] = local]
  PROVE  Slots' /\ Moves(s) /\ slot'[s].pc \in {0, 1}
<1>1. Len(patches') \in Nat /\ Len(patches') >= Len(patches)  BY Lengths
<1>2. Placed(local, Len(patches'))  BY <1>1 DEF Placed
<1>3. Slots' /\ \A t \in Slot : slot'[t] = IF t = s THEN local ELSE slot[t]  BY <1>1, <1>2, Lengths, Takes
<1>. QED  BY <1>3 DEF Moves

LEMMA Acquisition ==
  ASSUME IInv, NEW s \in Slot, acquireLease(s), UNCHANGED <<patches, approvals, treeRow, tree, view, used>>
  PROVE  /\ IInv' /\ Moves(s) /\ slot'[s].pc \in {0, 1}
         /\ row'.status = row.status /\ row'.patch = row.patch
         /\ row'.owner # row.owner => row'.owner = WorkerOf[s] /\ (row.owner = NoOne \/ ~row.live)
         /\ row'.live # row.live => row'.owner = WorkerOf[s]
<1>1. CASE row' = [row EXCEPT !.owner = WorkerOf[s], !.live = TRUE]
           /\ (row.owner = NoOne \/ ~row.live \/ row.owner = WorkerOf[s])
           /\ slot' = [slot EXCEPT ![s] = IF row.status \in Gate THEN Idle
                                         ELSE [Idle EXCEPT !.pc = StepOf("load"), !.retry = (row.status # "REQUESTED")]]
  <2>1. WorkerOf[s] \in {WorkerOf[t] : t \in Slot}  OBVIOUS
  <2>2. /\ row' \in Row /\ row'.status = row.status /\ row'.patch = row.patch
        /\ row'.owner = WorkerOf[s]
    BY <1>1, <2>1 DEF IInv, Records, Row
  <2>3. Records'  BY <2>2, RowChanges DEF IInv
  <2>4. CASE row.status \in Gate
    <3>1. slot' = [slot EXCEPT ![s] = Idle]  BY <1>1, <2>4
    <3>. QED  BY <3>1, <2>2, <2>3, IdleLocal, Reset, <1>1 DEF IInv, Surroundings
  <2>5. CASE row.status \notin Gate
    <3>. DEFINE again == row.status # "REQUESTED"
                local == Started(StepOf("load"), again)
    <3>0. again \in BOOLEAN  OBVIOUS
    <3>1. slot' = [slot EXCEPT ![s] = local]  BY <1>1, <2>5 DEF Started
    <3>. HIDE DEF again
    <3>2. local \in Local /\ local.pc = 1 /\ local.base = 0  BY <3>0, Beginnings, StartedLocal
    <3>. HIDE DEF local
    <3>3. Slots' /\ Moves(s) /\ slot'[s].pc \in {0, 1}  BY <3>1, <3>2, Reset DEF IInv
    <3>. QED  BY <3>3, <2>2, <2>3, <1>1 DEF IInv, Surroundings
  <2>. QED  BY <2>4, <2>5
<1>2. CASE slot' = [slot EXCEPT ![s] = Idle] /\ UNCHANGED row
  <2>1. Slots' /\ Moves(s) /\ slot'[s].pc \in {0, 1}  BY <1>2, IdleLocal, Reset DEF IInv
  <2>. QED  BY <1>2, <2>1, RecordsKept DEF IInv, Surroundings
<1>. QED  BY <1>1, <1>2 DEF acquireLease

\* Where a call stands.
LEMMA Standing ==
  ASSUME Slots, NEW s \in Slot, NEW name, At(s, name)
  PROVE  slot[s].pc \in 1 .. 28 /\ Program[slot[s].pc] = name /\ slot[s] \in Local
BY DEF Slots, Local, At, Running

\* A call fails, or does its step, among unchanged patches.
LEMMA FailsAmong ==
  ASSUME Records, Slots, UNCHANGED patches, NEW s \in Slot, NEW status \in Outcome, Fail(s, status)
  PROVE  Slots' /\ Moves(s) /\ slot'[s].pc = 27
<1>1. Slots' /\ slot'[s].pc = 27 /\ \A t \in Slot \ {s} : slot'[t] = slot[t]  BY Lengths, Fails
<1>. QED  BY <1>1 DEF Moves

LEMMA FailsAsAmong ==
  ASSUME Records, Slots, UNCHANGED patches, NEW s \in Slot, NEW statuses \in SUBSET Outcome, FailAs(s, statuses)
  PROVE  Slots' /\ Moves(s) /\ slot'[s].pc = 27
<1>1. PICK status \in statuses \cap Fault : Fail(s, status)  BY DEF FailAs
<1>. QED  BY <1>1, FailsAmong

\* The call goes on with the same number and, from the proposal on, a diff.
LEMMA GoesOn ==
  ASSUME Records, Slots, UNCHANGED patches, NEW s \in Slot, slot[s].pc \in 1 .. 27, slot[s].pc # 15,
         NEW local \in Local, Advance(s, local), local.base = slot[s].base, local.diff = slot[s].diff,
         slot[s].pc # 11
  PROVE  Slots' /\ Moves(s) /\ slot'[s].pc = slot[s].pc + 1
<1>1. Placed(slot[s], Len(patches)) /\ Len(patches') = Len(patches) /\ Len(patches') \in Nat
  BY Lengths DEF Slots
<1>2. /\ slot[s].pc + 1 \in 12 .. 26 => local.diff \in Diff
      /\ local.base <= Len(patches')
      /\ slot[s].pc + 1 \in 16 .. 26 => local.base + 1 <= Len(patches')
  <2>. DEFINE pc == slot[s].pc
  <2>1. pc \in 1 .. 27 /\ pc # 15 /\ pc # 11  OBVIOUS
  <2>2. /\ pc \in 12 .. 26 => local.diff \in Diff
        /\ local.base <= Len(patches')
        /\ pc \in 16 .. 26 => local.base + 1 <= Len(patches')
    BY <1>1 DEF Placed
  <2>. HIDE DEF pc
  <2>3. /\ pc + 1 \in 12 .. 26 => pc \in 12 .. 26
        /\ pc + 1 \in 16 .. 26 => pc \in 16 .. 26
    BY <2>1
  <2>. QED  BY <2>2, <2>3 DEF pc
<1>3. slot[s].pc \in 0 .. 27  OBVIOUS
<1>4. /\ Slots' /\ slot'[s].pc = slot[s].pc + 1 /\ slot'[s].base = local.base
      /\ \A t \in Slot \ {s} : slot'[t] = slot[t]
  BY <1>1, <1>2, <1>3, Advances
<1>. QED  BY <1>4 DEF Moves

\* The steps that touch nothing but the call.
LEMMA Loading ==
  ASSUME IInv, NEW s \in Slot, loadRecoveryContext(s)
  PROVE  IInv' /\ Moves(s) /\ slot'[s].pc \in {2, 27}
<1>. USE DEF loadRecoveryContext, Keep
<1>1. slot[s].pc = 1 /\ slot[s] \in Local  BY Standing, Places DEF IInv
<1>2. Records' /\ Surroundings'  BY RecordsKept DEF IInv, Surroundings
<1>3. CASE Advance(s, [slot[s] EXCEPT !.base = row.patch])
  <2>. DEFINE local == [slot[s] EXCEPT !.base = row.patch]
  <2>1. row.patch \in Nat  BY Lengths DEF IInv
  <2>2. local \in Local /\ local.base = row.patch  BY <1>1, <2>1 DEF Local
  <2>3. Advance(s, local)  BY <1>3
  <2>. HIDE DEF local
  <2>4. local.base <= Len(patches')  BY <2>1, <2>2, Lengths DEF IInv
  <2>5. slot[s].pc \in 0 .. 27 /\ slot[s].pc + 1 = 2 /\ 2 \notin 12 .. 26 /\ 2 \notin 16 .. 26  BY <1>1
  <2>6. /\ Slots' /\ slot'[s].pc = slot[s].pc + 1 /\ \A t \in Slot \ {s} : slot'[t] = slot[t]
    <3>1. Len(patches) \in Nat /\ Len(patches') \in Nat /\ Len(patches') >= Len(patches)  BY Lengths DEF IInv
    <3>2. Slots  BY DEF IInv
    <3>. QED  BY <3>1, <3>2, <2>2, <2>3, <2>4, <2>5, Advances
  <2>. QED  BY <1>2, <2>5, <2>6 DEF IInv, Moves
<1>4. CASE FailAs(s, {"TOOL_FAILED"})
  <2>1. {"TOOL_FAILED"} \in SUBSET Outcome  BY FailuresAreOutcomes DEF Resumable
  <2>. QED  BY <1>2, <1>4, <2>1, FailsAsAmong DEF IInv
<1>. QED  BY <1>3, <1>4

LEMMA Controlling ==
  ASSUME IInv, NEW s \in Slot, checkControl(s)
  PROVE  IInv' /\ Moves(s) /\ slot'[s].pc \in {slot[s].pc + 1, 27} /\ slot[s].pc \in {4, 8, 12, 16, 19, 23}
<1>. USE DEF checkControl, Keep
<1>1. slot[s].pc \in {4, 8, 12, 16, 19, 23} /\ slot[s] \in Local  BY Standing, Places DEF IInv
<1>2. Records' /\ Surroundings'  BY RecordsKept DEF IInv, Surroundings
<1>3. CASE Advance(s, slot[s])
  <2>1. slot[s].pc \in 1 .. 27 /\ slot[s].pc \notin {11, 15}  BY <1>1
  <2>. QED  BY <1>1, <1>2, <1>3, <2>1, GoesOn DEF IInv
<1>4. CASE Fail(s, "TOOL_FAILED") \/ Fail(s, "CANCELLED") \/ FailAs(s, {"TOOL_FAILED"})
  <2>1. "TOOL_FAILED" \in Outcome /\ "CANCELLED" \in Outcome /\ {"TOOL_FAILED"} \in SUBSET Outcome
    BY FailuresAreOutcomes DEF Resumable
  <2>. QED  BY <1>1, <1>2, <1>4, <2>1, FailsAmong, FailsAsAmong DEF IInv
<1>. QED  BY <1>3, <1>4

LEMMA Generating ==
  ASSUME IInv, NEW s \in Slot, generate(s)
  PROVE  IInv' /\ Moves(s) /\ slot'[s].pc \in {12, 27}
<1>. USE DEF generate, Keep
<1>1. slot[s].pc = 11 /\ slot[s] \in Local  BY Standing, Places DEF IInv
<1>2. Records' /\ Surroundings'  BY RecordsKept DEF IInv, Surroundings
<1>3. ASSUME NEW d \in Diff, Advance(s, [slot[s] EXCEPT !.diff = d])  PROVE IInv' /\ Moves(s) /\ slot'[s].pc \in {12, 27}
  <2>. DEFINE local == [slot[s] EXCEPT !.diff = d]
  <2>2. local \in Local /\ local.base = slot[s].base /\ local.diff = d  BY <1>1 DEF Local
  <2>3. Advance(s, local)  BY <1>3
  <2>. HIDE DEF local
  <2>4. local.base <= Len(patches')  BY <2>2, Lengths DEF IInv, Slots, Placed
  <2>5. slot[s].pc \in 0 .. 27 /\ slot[s].pc + 1 = 12 /\ 12 \notin 16 .. 26  BY <1>1
  <2>6. /\ Slots' /\ slot'[s].pc = slot[s].pc + 1 /\ \A t \in Slot \ {s} : slot'[t] = slot[t]
    <3>1. Len(patches) \in Nat /\ Len(patches') \in Nat /\ Len(patches') >= Len(patches)  BY Lengths DEF IInv
    <3>2. Slots  BY DEF IInv
    <3>. QED  BY <3>1, <3>2, <2>2, <2>3, <2>4, <2>5, Advances
  <2>. QED  BY <1>2, <2>5, <2>6 DEF IInv, Moves
<1>4. CASE Fail(s, "TOOL_FAILED") \/ FailAs(s, {"MODEL_FAILED", "TIMED_OUT", "BUDGET_EXCEEDED"})
  <2>1. "TOOL_FAILED" \in Outcome /\ {"MODEL_FAILED", "TIMED_OUT", "BUDGET_EXCEEDED"} \in SUBSET Outcome
    BY FailuresAreOutcomes DEF Resumable
  <2>. QED  BY <1>2, <1>4, <2>1, FailsAmong, FailsAsAmong DEF IInv
<1>. QED  BY <1>3, <1>4

LEMMA Executing ==
  ASSUME IInv, NEW s \in Slot, execute(s)
  PROVE  IInv' /\ Moves(s) /\ slot'[s].pc \in {22, 27} /\ slot[s].pc = 21
<1>. USE DEF execute, Keep
<1>1. slot[s].pc = 21 /\ slot[s] \in Local  BY Standing, Places DEF IInv
<1>2. Records' /\ Surroundings'  BY RecordsKept DEF IInv, Surroundings
<1>3. slot[s].pc \in 1 .. 27 /\ slot[s].pc \notin {11, 15} /\ slot[s].pc + 1 = 22  BY <1>1
<1>4. CASE Advance(s, [slot[s] EXCEPT !.good = TRUE])
  <2>. DEFINE local == [slot[s] EXCEPT !.good = TRUE]
  <2>1. local \in Local /\ local.base = slot[s].base /\ local.diff = slot[s].diff  BY <1>1 DEF Local
  <2>2. Advance(s, local)  BY <1>4
  <2>. HIDE DEF local
  <2>. QED  BY <1>1, <1>2, <1>3, <2>1, <2>2, GoesOn DEF IInv
<1>5. CASE Advance(s, slot[s])
  BY <1>1, <1>2, <1>3, <1>5, GoesOn DEF IInv
<1>6. CASE FailAs(s, {"VERIFICATION_FAILED"})
  <2>1. {"VERIFICATION_FAILED"} \in SUBSET Outcome  BY FailuresAreOutcomes DEF Resumable
  <2>. QED  BY <1>1, <1>2, <1>6, <2>1, FailsAsAmong DEF IInv
<1>. QED  BY <1>4, <1>5, <1>6

\* The steps that change the row.
LEMMA Restarting ==
  ASSUME IInv, NEW s \in Slot, restartForRetry(s)
  PROVE  /\ IInv' /\ Moves(s) /\ slot'[s].pc \in {3, 27} /\ slot[s].pc = 2
         /\ UNCHANGED row \/ (Leased(s) /\ row' = [row EXCEPT !.status = "REQUESTED"])
<1>. USE DEF restartForRetry
<1>1. slot[s].pc = 2 /\ slot[s] \in Local  BY Standing, Places DEF IInv
<1>2. Surroundings'  BY DEF IInv, Surroundings
<1>3. Records'
  <2>1. CASE row' = [row EXCEPT !.status = "REQUESTED"] /\ BumpVersion
    <3>1. "REQUESTED" \in Status  BY DEF Status, Active
    <3>2. row' \in Row /\ row'.patch = row.patch  BY <2>1, <3>1 DEF IInv, Records, Row
    <3>. QED  BY <2>1, <3>2, RowChanges DEF IInv
  <2>. QED  BY <2>1, RecordsKept DEF IInv
<1>4. CASE Advance(s, [slot[s] EXCEPT !.retry = FALSE])
  <2>. DEFINE local == [slot[s] EXCEPT !.retry = FALSE]
  <2>1. local \in Local /\ local.base = slot[s].base /\ local.diff = slot[s].diff  BY <1>1 DEF Local
  <2>2. Advance(s, local)  BY <1>4
  <2>. HIDE DEF local
  <2>3. slot[s].pc \in 1 .. 27 /\ slot[s].pc \notin {11, 15} /\ slot[s].pc + 1 = 3  BY <1>1
  <2>. QED  BY <1>1, <1>2, <1>3, <2>1, <2>2, <2>3, GoesOn DEF IInv
<1>5. CASE Fail(s, "TOOL_FAILED")
  <2>1. "TOOL_FAILED" \in Outcome  BY FailuresAreOutcomes DEF Resumable
  <2>. QED  BY <1>1, <1>2, <1>3, <1>5, <2>1, FailsAmong DEF IInv
<1>. QED  BY <1>4, <1>5

LEMMA Checkpointing ==
  ASSUME IInv, NEW s \in Slot, checkpoint(s)
  PROVE  /\ IInv' /\ Moves(s) /\ slot[s].pc \in {3, 5, 9, 10, 13, 17, 20, 24, 26}
         /\ \/ slot'[s].pc = 27 /\ UNCHANGED row
            \/ /\ slot'[s].pc = slot[s].pc + 1 /\ Leased(s)
               /\ row' = [row EXCEPT !.status = Program[slot[s].pc]]
<1>. USE DEF checkpoint
<1>1. slot[s].pc \in {3, 5, 9, 10, 13, 17, 20, 24, 26} /\ slot[s] \in Local /\ Program[slot[s].pc] \in Status
  <2>1. slot[s] \in Local /\ slot[s].pc \in 1 .. 28  BY DEF IInv, Slots, Local, AtCheckpoint, Running
  <2>. QED  BY <2>1, Places DEF AtCheckpoint
<1>2. Surroundings'  BY DEF IInv, Surroundings
<1>. DEFINE stage == Program[slot[s].pc]
<1>3. CASE Leased(s) /\ row' = [row EXCEPT !.status = stage] /\ BumpVersion /\ Advance(s, slot[s])
  <2>1. row' \in Row /\ row'.patch = row.patch  BY <1>1, <1>3 DEF IInv, Records, Row
  <2>2. Records'  BY <1>3, <2>1, RowChanges DEF IInv
  <2>3. slot[s].pc \in 1 .. 27 /\ slot[s].pc \notin {11, 15}  BY <1>1
  <2>. QED  BY <1>1, <1>2, <1>3, <2>2, <2>3, GoesOn DEF IInv
<1>4. ASSUME UNCHANGED <<row, view>>, NEW status \in Outcome, Fail(s, status)
      PROVE  IInv' /\ Moves(s) /\ slot'[s].pc = 27
  <2>1. Records'  BY <1>4, RecordsKept DEF IInv
  <2>. QED  BY <1>2, <1>4, <2>1, FailsAmong DEF IInv
<1>5. CASE UNCHANGED <<row, view>> /\ (Fail(s, "TOOL_FAILED") \/ Fail(s, transitionError(row.status, stage)))
  <2>1. "TOOL_FAILED" \in Outcome  BY FailuresAreOutcomes DEF Resumable
  <2>. QED  BY <1>1, <1>4, <1>5, <2>1, TransitionFailure
<1>6. CASE UNCHANGED <<row, view>> /\ FailAs(s, preparation[stage])
  <2>1. preparation[stage] \in SUBSET Outcome  BY <1>1, Preparations
  <2>2. PICK status \in preparation[stage] : Fail(s, status)  BY <1>6 DEF FailAs
  <2>. QED  BY <1>1, <1>4, <1>6, <2>1, <2>2
<1>. QED  BY <1>3, <1>5, <1>6

LEMMA Completing ==
  ASSUME IInv, NEW s \in Slot, complete(s)
  PROVE  /\ IInv' /\ Moves(s) /\ slot'[s].pc = 0
         /\ UNCHANGED row \/ (row'.owner = NoOne /\ ~row'.live /\ row'.status \in Outcome /\ row'.patch = row.patch)
<1>. USE DEF complete
<1>1. slot[s].pc = 28 /\ slot[s] \in Local  BY Standing, Places DEF IInv
<1>2. Surroundings'  BY DEF IInv, Surroundings
<1>3. slot[s].outcome \in Outcome  BY <1>1 DEF Local
<1>4. CASE row' = [row EXCEPT !.status = slot[s].outcome, !.owner = NoOne, !.live = FALSE] /\ BumpVersion
  <2>. DEFINE outcome == slot[s].outcome
  <2>0. outcome \in Outcome /\ outcome \in Status  BY <1>3, FailuresAreOutcomes
  <2>1. row' = [row EXCEPT !.status = outcome, !.owner = NoOne, !.live = FALSE]  BY <1>4
  <2>. HIDE DEF outcome
  <2>2. /\ row' \in Row /\ row'.patch = row.patch /\ row'.owner = NoOne /\ ~row'.live
        /\ row'.status = outcome
    BY <2>0, <2>1 DEF IInv, Records, Row
  <2>3. Records'  BY <1>4, <2>2, RowChanges DEF IInv
  <2>4. Slots' /\ Moves(s)  BY IdleLocal, Reset DEF IInv
  <2>5. slot'[s].pc = 0  BY IdleLocal DEF IInv, Slots
  <2>. QED  BY <1>2, <2>0, <2>2, <2>3, <2>4, <2>5 DEF IInv
<1>5. CASE UNCHANGED <<row, view>>
  <2>1. Records'  BY <1>5, RecordsKept DEF IInv
  <2>2. Slots' /\ Moves(s)  BY IdleLocal, Reset DEF IInv
  <2>3. slot'[s].pc = 0  BY IdleLocal DEF IInv, Slots
  <2>. QED  BY <1>2, <1>5, <2>1, <2>2, <2>3 DEF IInv
<1>. QED  BY <1>4, <1>5

LEMMA Releasing ==
  ASSUME IInv, NEW s \in Slot, releaseLease(s)
  PROVE  /\ IInv' /\ Moves(s) /\ slot'[s].pc = 0
         /\ UNCHANGED row \/ (row'.owner = NoOne /\ ~row'.live /\ row'.status = row.status /\ row'.patch = row.patch)
<1>. USE DEF releaseLease
<1>2. Surroundings'  BY DEF IInv, Surroundings
<1>3. Slots' /\ Moves(s)  BY IdleLocal, Reset DEF IInv
<1>4. slot'[s].pc = 0  BY IdleLocal DEF IInv, Slots
<1>5. CASE row' = [row EXCEPT !.owner = NoOne, !.live = FALSE] /\ BumpVersion
  <2>1. /\ row' \in Row /\ row'.patch = row.patch /\ row'.owner = NoOne /\ ~row'.live
        /\ row'.status = row.status
    BY <1>5 DEF IInv, Records, Row
  <2>2. Records'  BY <1>5, <2>1, RowChanges DEF IInv
  <2>. QED  BY <1>2, <1>3, <1>4, <2>1, <2>2 DEF IInv
<1>6. CASE UNCHANGED <<row, view>>
  <2>1. Records'  BY <1>6, RecordsKept DEF IInv
  <2>. QED  BY <1>2, <1>3, <1>4, <1>6, <2>1 DEF IInv
<1>. QED  BY <1>5, <1>6

\* The steps that change the worktree or its record.
LEMMA CreatingTree ==
  ASSUME IInv, NEW s \in Slot, createWorktree(s)
  PROVE  IInv' /\ Moves(s) /\ slot'[s].pc \in {7, 27}
<1>. USE DEF createWorktree
<1>1. slot[s].pc = 6 /\ slot[s] \in Local  BY Standing, Places DEF IInv
<1>2. Records'  BY RecordsKept DEF IInv
<1>3. create(s) \in Tree /\ remove \in Tree  BY DEF create, remove, Tree
<1>4. Surroundings'  BY <1>3 DEF IInv, Surroundings
<1>5. CASE Advance(s, [slot[s] EXCEPT !.tree = TRUE])
  <2>. DEFINE local == [slot[s] EXCEPT !.tree = TRUE]
  <2>1. local \in Local /\ local.base = slot[s].base /\ local.diff = slot[s].diff  BY <1>1 DEF Local
  <2>2. Advance(s, local)  BY <1>5
  <2>. HIDE DEF local
  <2>3. slot[s].pc \in 1 .. 27 /\ slot[s].pc \notin {11, 15} /\ slot[s].pc + 1 = 7  BY <1>1
  <2>. QED  BY <1>2, <1>4, <2>1, <2>2, <2>3, GoesOn DEF IInv
<1>6. CASE FailAs(s, {"WORKTREE_FAILED", "PATCH_REJECTED", "TIMED_OUT"})
  <2>1. {"WORKTREE_FAILED", "PATCH_REJECTED", "TIMED_OUT"} \in SUBSET Outcome
    BY FailuresAreOutcomes DEF Resumable
  <2>. QED  BY <1>2, <1>4, <1>6, <2>1, FailsAsAmong DEF IInv
<1>. QED  BY <1>5, <1>6

LEMMA RecordingTree ==
  ASSUME IInv, NEW s \in Slot, recordWorktree(s)
  PROVE  IInv' /\ Moves(s) /\ slot'[s].pc \in {8, 27}
<1>. USE DEF recordWorktree
<1>1. slot[s].pc = 7 /\ slot[s] \in Local  BY Standing, Places DEF IInv
<1>2. Records' /\ Surroundings'  BY RecordsKept DEF IInv, Surroundings
<1>3. CASE Advance(s, slot[s])
  <2>1. slot[s].pc \in 1 .. 27 /\ slot[s].pc \notin {11, 15} /\ slot[s].pc + 1 = 8  BY <1>1
  <2>. QED  BY <1>1, <1>2, <1>3, <2>1, GoesOn DEF IInv
<1>4. CASE Fail(s, "TOOL_FAILED")
  <2>1. "TOOL_FAILED" \in Outcome  BY FailuresAreOutcomes DEF Resumable
  <2>. QED  BY <1>2, <1>4, <2>1, FailsAmong DEF IInv
<1>. QED  BY <1>3, <1>4

LEMMA Applying ==
  ASSUME IInv, NEW s \in Slot, applyPatch(s)
  PROVE  IInv' /\ Moves(s) /\ slot'[s].pc \in {15, 27} /\ slot[s].pc = 14
<1>. USE DEF applyPatch
<1>1. slot[s].pc = 14 /\ slot[s] \in Local  BY Standing, Places DEF IInv
<1>2. Records'  BY RecordsKept DEF IInv
<1>3. CASE appliable /\ tree' = [tree EXCEPT !.diff = slot[s].diff] /\ Advance(s, slot[s])
  <2>1. slot[s].diff \in Diff  BY <1>1 DEF IInv, Slots, Placed
  <2>2. tree \in [by : Slot, diff : Diff \cup {Clean}]  BY <1>3 DEF IInv, Surroundings, Tree, appliable
  <2>. DEFINE diff == slot[s].diff
  <2>3. tree' = [tree EXCEPT !.diff = diff] /\ diff \in Diff  BY <1>3, <2>1
  <2>. HIDE DEF diff
  <2>4. tree' \in Tree  BY <2>2, <2>3 DEF Tree
  <2>5. Surroundings'  BY <2>4 DEF IInv, Surroundings
  <2>6. slot[s].pc \in 1 .. 27 /\ slot[s].pc \notin {11, 15} /\ slot[s].pc + 1 = 15  BY <1>1
  <2>. QED  BY <1>1, <1>2, <1>3, <2>5, <2>6, GoesOn DEF IInv
<1>4. CASE UNCHANGED tree /\ (Fail(s, "PATCH_REJECTED")
                              \/ FailAs(s, buildProvenance \cup parseUnifiedDiff \cup evaluatePatchPolicy))
  <2>1. Surroundings'  BY <1>4 DEF IInv, Surroundings
  <2>2. "PATCH_REJECTED" \in Outcome  BY FailuresAreOutcomes DEF Resumable
  <2>3. buildProvenance \cup parseUnifiedDiff \cup evaluatePatchPolicy \in SUBSET Outcome
    BY FailuresAreOutcomes DEF buildProvenance, parseUnifiedDiff
  <2>4. CASE Fail(s, "PATCH_REJECTED")  BY <1>1, <1>2, <2>1, <2>2, <2>4, FailsAmong DEF IInv
  <2>5. CASE FailAs(s, buildProvenance \cup parseUnifiedDiff \cup evaluatePatchPolicy)
    BY <1>1, <1>2, <2>1, <2>3, <2>5, FailsAsAmong DEF IInv
  <2>. QED  BY <1>4, <2>4, <2>5
<1>. QED  BY <1>3, <1>4

LEMMA CleaningUp ==
  ASSUME IInv, NEW s \in Slot, cleanUp(s)
  PROVE  IInv' /\ Moves(s) /\ slot'[s].pc = 28
<1>. USE DEF cleanUp
<1>1. slot[s].pc = 27 /\ slot[s] \in Local  BY Standing, Places DEF IInv
<1>2. Records'  BY RecordsKept DEF IInv
<1>3. remove \in Tree /\ (markCleanup => treeRow' \in {"none", "READY", "REMOVED"})
  BY DEF remove, Tree, markCleanup, IInv, Surroundings
<1>4. Surroundings'  BY <1>3 DEF IInv, Surroundings
<1>5. slot[s].pc \in 1 .. 27 /\ slot[s].pc \notin {11, 15} /\ slot[s].pc + 1 = 28  BY <1>1
<1>6. CASE Advance(s, slot[s])
  BY <1>1, <1>2, <1>4, <1>5, <1>6, GoesOn DEF IInv
<1>7. CASE Advance(s, [slot[s] EXCEPT !.outcome = "CLEANUP_FAILED"])
  <2>. DEFINE local == [slot[s] EXCEPT !.outcome = "CLEANUP_FAILED"]
  <2>0. "CLEANUP_FAILED" \in Outcome  BY FailuresAreOutcomes
  <2>1. local \in Local /\ local.base = slot[s].base /\ local.diff = slot[s].diff  BY <1>1, <2>0 DEF Local
  <2>2. Advance(s, local)  BY <1>7
  <2>. HIDE DEF local
  <2>. QED  BY <1>2, <1>4, <1>5, <2>1, <2>2, GoesOn DEF IInv
<1>. QED  BY <1>6, <1>7

\* The steps that change the patches.
LEMMA RecordingPatch ==
  ASSUME IInv, NEW s \in Slot, recordPatch(s)
  PROVE  /\ IInv' /\ Moves(s) /\ slot[s].pc = 15
         /\ \/ slot'[s].pc = 27 /\ UNCHANGED <<row, patches>>
            \/ /\ slot'[s].pc = 16 /\ Leased(s) /\ slot[s].base = Len(patches)
               /\ row' = [row EXCEPT !.patch = Len(patches) + 1]
               /\ patches' = Append(patches, [version |-> Len(patches) + 1, diff |-> slot[s].diff,
                                              review |-> "none", report |-> "none", package |-> FALSE])
<1>. USE DEF recordPatch
<1>. DEFINE base == slot[s].base
            diff == slot[s].diff
            new == [version |-> base + 1, diff |-> diff, review |-> "none", report |-> "none", package |-> FALSE]
            unique == \A i \in DOMAIN patches : patches[i].version # base + 1 /\ patches[i].diff # diff
<1>1. slot[s].pc = 15 /\ slot[s] \in Local /\ diff \in Diff /\ base \in Nat /\ base <= Len(patches)
  <2>1. slot[s].pc = 15 /\ slot[s] \in Local  BY Standing, Places DEF IInv
  <2>. QED  BY <2>1 DEF IInv, Slots, Placed, Local
<1>2. Surroundings'  BY DEF IInv, Surroundings
<1>3. CASE /\ Leased(s) /\ unique /\ patches' = Append(patches, new)
           /\ row' = [row EXCEPT !.patch = base + 1] /\ BumpVersion /\ Advance(s, slot[s])
  <2>1. base = Len(patches)
    <3>1. SUFFICES ASSUME base # Len(patches)  PROVE FALSE  OBVIOUS
    <3>2. base + 1 \in 1 .. Len(patches)  BY <3>1, <1>1, Lengths DEF IInv
    <3>. DEFINE i == base + 1
    <3>3. patches[i].version = i
      <4>1. \A j \in DOMAIN patches : patches[j].version = j  BY DEF IInv, Records, PatchesAreNumbered
      <4>. QED  BY <3>2, <4>1, Lengths DEF IInv
    <3>. QED  BY <1>3, <3>2, <3>3, Lengths DEF IInv
  <2>2. new \in Patch /\ new.version = base + 1  BY <1>1 DEF Patch
  <2>3. row' \in Row /\ row'.patch = base + 1
    <3>. DEFINE version == base + 1
    <3>1. version \in Nat /\ row' = [row EXCEPT !.patch = version]  BY <1>1, <1>3
    <3>. HIDE DEF version
    <3>2. row' \in Row /\ row'.patch = version  BY <3>1 DEF IInv, Records, Row
    <3>. QED  BY <3>2 DEF version
  <2>. HIDE DEF new
  <2>4. patches \in Seq(Patch) /\ Len(patches) \in Nat  BY Lengths DEF IInv, Records
  <2>5. /\ patches' \in Seq(Patch) /\ Len(patches') = Len(patches) + 1
        /\ \A i \in 1 .. Len(patches) : patches'[i] = patches[i]
        /\ patches'[Len(patches) + 1] = new
    BY <1>3, <2>2, <2>4, AppendProperties
  <2>6. PatchesAreNumbered'
    <3>1. DOMAIN patches' = 1 .. Len(patches) + 1  BY <2>5, LenProperties
    <3>2. \A i \in 1 .. Len(patches) : patches'[i].version = i
      BY <2>5, Lengths DEF IInv, Records, PatchesAreNumbered
    <3>3. patches'[Len(patches) + 1].version = Len(patches) + 1  BY <2>1, <2>2, <2>5
    <3>4. \A i \in 1 .. Len(patches) + 1 : i \in 1 .. Len(patches) \/ i = Len(patches) + 1  BY <2>4
    <3>. QED  BY <2>1, <2>3, <2>5, <3>1, <3>2, <3>3, <3>4 DEF PatchesAreNumbered
  <2>7. view' \in [Actor -> View] /\ Seen'
    <3>1. [fresh |-> FALSE, patch |-> 0] \in View /\ ~[fresh |-> FALSE, patch |-> 0].fresh  BY DEF View
    <3>2. view' \in [Actor -> View] /\ \A a \in Actor : ~view'[a].fresh  BY <1>3, <3>1 DEF BumpVersion
    <3>. QED  BY <3>2 DEF Seen
  <2>8. Records'  BY <2>3, <2>5, <2>6, <2>7 DEF IInv, Records, DecidedAsRead
  <2>9. /\ Slots' /\ slot'[s].pc = 16 /\ slot'[s].base = base
        /\ \A t \in Slot \ {s} : slot'[t] = slot[t]
    <3>1. Len(patches') \in Nat /\ Len(patches') >= Len(patches) /\ base <= Len(patches') /\ base + 1 <= Len(patches')
      BY <1>1, <2>1, <2>4, <2>5
    <3>2. slot[s].pc \in 0 .. 27 /\ slot[s].pc + 1 = 16  BY <1>1
    <3>3. Slots /\ Advance(s, slot[s])  BY <1>3 DEF IInv
    <3>. QED  BY <1>1, <2>4, <3>1, <3>2, <3>3, Advances
  <2>. QED  BY <1>1, <1>2, <1>3, <2>1, <2>8, <2>9 DEF IInv, Moves, new
<1>4. CASE UNCHANGED <<row, patches, view>> /\ (Fail(s, "PATCH_REJECTED") \/ Fail(s, "TOOL_FAILED"))
  <2>1. "PATCH_REJECTED" \in Outcome /\ "TOOL_FAILED" \in Outcome  BY FailuresAreOutcomes DEF Resumable
  <2>2. Records'  BY <1>4, RecordsKept DEF IInv
  <2>. QED  BY <1>1, <1>2, <1>4, <2>1, <2>2, FailsAmong DEF IInv
<1>. QED  BY <1>3, <1>4

\* The patch of the call's own gets a new version of its entry, the rest stays.
FillsIn(s, patch) ==
  /\ Leased(s) /\ UNCHANGED row /\ Len(patches') = Len(patches) /\ slot[s].base + 1 \in 1 .. Len(patches)
  /\ patches'[slot[s].base + 1] = patch
  /\ \A j \in 1 .. Len(patches) \ {slot[s].base + 1} : patches'[j] = patches[j]

\* A result is filed: the patch, and apart from it the call.
Files(s, patch) ==
  /\ slot[s].pc \in 16 .. 26 /\ Leased(s)
  /\ patch \in Patch /\ patch.version = patches[Own(s)].version
  /\ patches' = [patches EXCEPT ![Own(s)] = patch]
  /\ UNCHANGED <<row, approvals, treeRow, tree, view, used>>

LEMMA FilingPatch ==
  ASSUME IInv, NEW s \in Slot, NEW patch, Files(s, patch)
  PROVE  /\ Records' /\ Surroundings' /\ FillsIn(s, patch)
         /\ Len(patches) \in Nat /\ Len(patches') \in Nat /\ Len(patches') >= Len(patches)
         /\ slot[s].base \in Nat /\ slot[s].diff \in Diff
         /\ slot[s].base + 1 <= Len(patches') /\ slot[s].base <= Len(patches')
<1>. USE DEF Files
<1>. DEFINE base == slot[s].base
            diff == slot[s].diff
<1>1. Own(s) = base + 1 /\ Own(s) \in 1 .. Len(patches)  BY OwnPatch DEF IInv
<1>2. /\ Records' /\ Len(patches') = Len(patches) /\ patches'[Own(s)] = patch
      /\ \A j \in 1 .. Len(patches) \ {Own(s)} : patches'[j] = patches[j]
  BY <1>1, Filled DEF IInv
<1>3. Surroundings'  BY DEF IInv, Surroundings
<1>4. FillsIn(s, patch)  BY <1>1, <1>2 DEF FillsIn
<1>5. Slots /\ Len(patches) \in Nat /\ Len(patches') \in Nat /\ Len(patches') >= Len(patches)  BY <1>2, Lengths DEF IInv
<1>6. base \in Nat /\ base + 1 <= Len(patches') /\ base <= Len(patches') /\ diff \in Diff
  BY <1>1, <1>2, <1>5 DEF Slots, Local, Placed
<1>. QED  BY <1>2, <1>3, <1>4, <1>5, <1>6

LEMMA FilesAndGoesOn ==
  ASSUME IInv, NEW s \in Slot, NEW patch, Files(s, patch),
         NEW local \in Local, local.base = slot[s].base, local.diff = slot[s].diff, Advance(s, local)
  PROVE  IInv' /\ Moves(s) /\ FillsIn(s, patch) /\ slot'[s].pc = slot[s].pc + 1
<1>1. slot[s].pc \in 0 .. 27
  <2>. DEFINE pc == slot[s].pc
  <2>1. pc \in 16 .. 26  BY DEF Files
  <2>. HIDE DEF pc
  <2>2. pc \in 0 .. 27  BY <2>1
  <2>. QED  BY <2>2 DEF pc
<1>2. /\ Slots' /\ slot'[s].pc = slot[s].pc + 1 /\ slot'[s].base = local.base
      /\ \A t \in Slot \ {s} : slot'[t] = slot[t]
  BY <1>1, FilingPatch, Advances DEF IInv
<1>. QED  BY <1>2, FilingPatch DEF IInv, Moves

LEMMA FilesAndFails ==
  ASSUME IInv, NEW s \in Slot, NEW patch, Files(s, patch), NEW status \in Outcome, Fail(s, status)
  PROVE  IInv' /\ Moves(s) /\ FillsIn(s, patch) /\ slot'[s].pc = 27
<1>1. slot[s].tree \in BOOLEAN  BY DEF IInv, Slots, Local
<1>. DEFINE new == Failed(status, slot[s].tree, StepOf("cleanup"))
<1>2. slot' = [slot EXCEPT ![s] = new]  BY DEF Fail, Failed
<1>3. new \in Local /\ new.pc = 27 /\ new.base = 0  BY <1>1, Beginnings, FailedLocal
<1>. HIDE DEF new
<1>4. Len(patches) \in Nat /\ Len(patches') \in Nat /\ Len(patches') >= Len(patches)  BY FilingPatch
<1>5. Slots /\ Placed(new, Len(patches'))  BY <1>3, <1>4 DEF IInv, Placed
<1>6. Slots' /\ \A t \in Slot : slot'[t] = IF t = s THEN new ELSE slot[t]
  BY <1>2, <1>3, <1>4, <1>5, Takes
<1>. QED  BY <1>3, <1>6, FilingPatch DEF IInv, Moves

\* The patch of a run and what becomes of it when a result is filed.
LEMMA OwnFields ==
  ASSUME IInv, NEW s \in Slot, slot[s].pc \in 16 .. 26
  PROVE  patches[Own(s)] \in Patch /\ patches[Own(s)] = patches[slot[s].base + 1]
<1>1. Own(s) = slot[s].base + 1 /\ Own(s) \in 1 .. Len(patches)  BY OwnPatch DEF IInv
<1>2. patches \in Seq(Patch)  BY DEF IInv, Records
<1>3. patches[Own(s)] \in Patch  BY <1>1, <1>2, ElementOfSeq
<1>. QED  BY <1>1, <1>3

LEMMA Reviewing ==
  ASSUME IInv, NEW s \in Slot, recordSecurityReview(s)
  PROVE  /\ IInv' /\ Moves(s) /\ slot[s].pc = 18 /\ UNCHANGED row
         /\ \/ slot'[s].pc = 27 /\ UNCHANGED patches
            \/ \E decision \in securityDecision :
                 /\ FillsIn(s, [patches[slot[s].base + 1] EXCEPT !.review = decision])
                 /\ slot'[s].pc = 27 \/ (slot'[s].pc = 19 /\ decision = "ALLOW")
<1>. USE DEF recordSecurityReview
<1>1. slot[s].pc = 18 /\ slot[s] \in Local /\ slot[s].pc \in 16 .. 26 /\ slot[s].pc + 1 = 19
  <2>1. slot[s].pc = 18 /\ slot[s] \in Local  BY Standing, Places DEF IInv
  <2>. QED  BY <2>1
<1>2. "SECURITY_REJECTED" \in Outcome /\ "TOOL_FAILED" \in Outcome
      /\ {"MODEL_FAILED", "TIMED_OUT", "BUDGET_EXCEEDED"} \in SUBSET Outcome
  BY FailuresAreOutcomes DEF Resumable
<1>3. ASSUME recordAgentRun(s), NEW decision \in securityDecision,
             patches' = [patches EXCEPT ![Own(s)].review = decision],
             IF decision = "ALLOW" THEN Advance(s, slot[s]) ELSE Fail(s, "SECURITY_REJECTED")
      PROVE  /\ IInv' /\ Moves(s) /\ FillsIn(s, [patches[slot[s].base + 1] EXCEPT !.review = decision])
             /\ slot'[s].pc = 27 \/ (slot'[s].pc = 19 /\ decision = "ALLOW")
  <2>. DEFINE patch == [patches[Own(s)] EXCEPT !.review = decision]
  <2>1. patch \in Patch /\ patch.version = patches[Own(s)].version
    BY <1>1, OwnFields DEF Patch, securityDecision
  <2>2. patches' = [patches EXCEPT ![Own(s)] = patch]  BY <1>3
  <2>3. patch = [patches[slot[s].base + 1] EXCEPT !.review = decision]  BY <1>1, OwnFields
  <2>. HIDE DEF patch
  <2>4. Files(s, patch)  BY <1>1, <1>3, <2>1, <2>2 DEF Files, recordAgentRun
  <2>5. CASE decision = "ALLOW"
    <3>1. Advance(s, slot[s])  BY <1>3, <2>5
    <3>2. IInv' /\ Moves(s) /\ FillsIn(s, patch) /\ slot'[s].pc = slot[s].pc + 1
      BY <1>1, <2>4, <3>1, FilesAndGoesOn
    <3>. QED  BY <1>1, <2>3, <2>5, <3>2
  <2>6. CASE decision # "ALLOW"
    BY <1>2, <1>3, <2>3, <2>4, <2>6, FilesAndFails
  <2>. QED  BY <2>5, <2>6
<1>4. CASE UNCHANGED patches /\ (Fail(s, "TOOL_FAILED") \/ FailAs(s, {"MODEL_FAILED", "TIMED_OUT", "BUDGET_EXCEEDED"}))
  <2>1. Records' /\ Surroundings'  BY <1>4, RecordsKept DEF IInv, Surroundings
  <2>. QED  BY <1>1, <1>2, <1>4, <2>1, FailsAmong, FailsAsAmong DEF IInv
<1>. QED  BY <1>1, <1>3, <1>4

LEMMA Verifying ==
  ASSUME IInv, NEW s \in Slot, recordVerification(s)
  PROVE  /\ IInv' /\ Moves(s) /\ slot[s].pc = 22 /\ UNCHANGED row
         /\ \/ slot'[s].pc = 27 /\ UNCHANGED patches
            \/ FillsIn(s, [patches[slot[s].base + 1] EXCEPT !.report = "PASSED"]) /\ slot'[s].pc = 23
            \/ FillsIn(s, [patches[slot[s].base + 1] EXCEPT !.report = "FAILED"]) /\ slot'[s].pc = 27
<1>. USE DEF recordVerification
<1>1. slot[s].pc = 22 /\ slot[s] \in Local /\ slot[s].pc \in 16 .. 26 /\ slot[s].pc + 1 = 23
  <2>1. slot[s].pc = 22 /\ slot[s] \in Local  BY Standing, Places DEF IInv
  <2>. QED  BY <2>1
<1>2. "PATCH_REJECTED" \in Outcome /\ "TOOL_FAILED" \in Outcome /\ "VERIFICATION_FAILED" \in Outcome
  BY FailuresAreOutcomes DEF Resumable
<1>3. CASE /\ Leased(s) /\ patches' = [patches EXCEPT ![Own(s)].report = "PASSED"]
           /\ Advance(s, [slot[s] EXCEPT !.good = FALSE])
  <2>. DEFINE patch == [patches[Own(s)] EXCEPT !.report = "PASSED"]
              local == [slot[s] EXCEPT !.good = FALSE]
  <2>1. patch \in Patch /\ patch.version = patches[Own(s)].version  BY <1>1, OwnFields DEF Patch
  <2>2. patches' = [patches EXCEPT ![Own(s)] = patch] /\ Advance(s, local)  BY <1>3
  <2>3. patch = [patches[slot[s].base + 1] EXCEPT !.report = "PASSED"]  BY <1>1, OwnFields
  <2>4. local \in Local /\ local.base = slot[s].base /\ local.diff = slot[s].diff  BY <1>1 DEF Local
  <2>. HIDE DEF patch, local
  <2>6. Files(s, patch)  BY <1>1, <1>3, <2>1, <2>2 DEF Files
  <2>5. IInv' /\ Moves(s) /\ FillsIn(s, patch) /\ slot'[s].pc = slot[s].pc + 1
    BY <2>2, <2>4, <2>6, FilesAndGoesOn
  <2>. QED  BY <1>1, <2>3, <2>5
<1>4. CASE /\ Leased(s) /\ patches' = [patches EXCEPT ![Own(s)].report = "FAILED"]
           /\ Fail(s, "VERIFICATION_FAILED")
  <2>. DEFINE patch == [patches[Own(s)] EXCEPT !.report = "FAILED"]
  <2>1. patch \in Patch /\ patch.version = patches[Own(s)].version  BY <1>1, OwnFields DEF Patch
  <2>2. patches' = [patches EXCEPT ![Own(s)] = patch]  BY <1>4
  <2>3. patch = [patches[slot[s].base + 1] EXCEPT !.report = "FAILED"]  BY <1>1, OwnFields
  <2>. HIDE DEF patch
  <2>5. Files(s, patch)  BY <1>1, <1>4, <2>1, <2>2 DEF Files
  <2>4. IInv' /\ Moves(s) /\ FillsIn(s, patch) /\ slot'[s].pc = 27
    BY <1>2, <1>4, <2>5, FilesAndFails
  <2>. QED  BY <1>1, <2>3, <2>4
<1>5. CASE UNCHANGED patches /\ (Fail(s, "TOOL_FAILED") \/ Fail(s, "PATCH_REJECTED"))
  <2>1. Records' /\ Surroundings'  BY <1>5, RecordsKept DEF IInv, Surroundings
  <2>. QED  BY <1>1, <1>2, <1>5, <2>1, FailsAmong DEF IInv
<1>. QED  BY <1>3, <1>4, <1>5

LEMMA Packaging ==
  ASSUME IInv, NEW s \in Slot, recordPullRequestPackage(s)
  PROVE  /\ IInv' /\ Moves(s) /\ slot[s].pc = 25 /\ UNCHANGED row
         /\ \/ slot'[s].pc = 27 /\ UNCHANGED patches
            \/ FillsIn(s, [patches[slot[s].base + 1] EXCEPT !.package = TRUE]) /\ slot'[s].pc = 26
<1>. USE DEF recordPullRequestPackage
<1>1. slot[s].pc = 25 /\ slot[s] \in Local /\ slot[s].pc \in 16 .. 26 /\ slot[s].pc + 1 = 26
  <2>1. slot[s].pc = 25 /\ slot[s] \in Local  BY Standing, Places DEF IInv
  <2>. QED  BY <2>1
<1>2. "TOOL_FAILED" \in Outcome  BY FailuresAreOutcomes DEF Resumable
<1>3. CASE Leased(s) /\ patches' = [patches EXCEPT ![Own(s)].package = TRUE] /\ Advance(s, slot[s])
  <2>. DEFINE patch == [patches[Own(s)] EXCEPT !.package = TRUE]
  <2>1. patch \in Patch /\ patch.version = patches[Own(s)].version  BY <1>1, OwnFields DEF Patch
  <2>2. patches' = [patches EXCEPT ![Own(s)] = patch]  BY <1>3
  <2>3. patch = [patches[slot[s].base + 1] EXCEPT !.package = TRUE]  BY <1>1, OwnFields
  <2>. HIDE DEF patch
  <2>5. Files(s, patch)  BY <1>1, <1>3, <2>1, <2>2 DEF Files
  <2>4. IInv' /\ Moves(s) /\ FillsIn(s, patch) /\ slot'[s].pc = slot[s].pc + 1
    BY <1>1, <1>3, <2>5, FilesAndGoesOn
  <2>. QED  BY <1>1, <2>3, <2>4
<1>4. CASE UNCHANGED patches /\ Fail(s, "TOOL_FAILED")
  <2>1. Records' /\ Surroundings'  BY <1>4, RecordsKept DEF IInv, Surroundings
  <2>. QED  BY <1>1, <1>2, <1>4, <2>1, FailsAmong DEF IInv
<1>. QED  BY <1>3, <1>4

-----------------------------------------------------------------------------
(* The people and the environment.                                         *)

\* Requests of people and the end of a lease: what they write in the row, its
\* patch apart.
Rewrites(new) == row' = new /\ new \in Row /\ new.patch = row.patch /\ UNCHANGED <<patches, approvals, slot>>

LEMMA Rewriting ==
  ASSUME IInv, NEW new, Rewrites(new), BumpVersion \/ UNCHANGED view, Surroundings'
  PROVE  IInv'
<1>1. Records'  BY RowChanges DEF IInv, Rewrites
<1>2. Slots'  BY DEF IInv, Slots, Rewrites
<1>. QED  BY <1>1, <1>2 DEF IInv

LEMMA Asking ==
  ASSUME IInv, Ask, UNCHANGED <<treeRow, tree>>
  PROVE  Surroundings'
<1>1. used.requests \in 0 .. MaxRequests /\ used.requests < MaxRequests  BY DEF IInv, Surroundings, Used, Ask
<1>. DEFINE n == used.requests + 1
<1>2. n \in 0 .. MaxRequests /\ used' = [used EXCEPT !.requests = n]  BY <1>1, RecoveryAssumption DEF Ask
<1>. HIDE DEF n
<1>3. used' \in Used  BY <1>2 DEF IInv, Surroundings, Used
<1>. QED  BY <1>3 DEF IInv, Surroundings

LEMMA Breaking ==
  ASSUME IInv, Break, UNCHANGED <<treeRow, tree>>
  PROVE  Surroundings'
<1>1. used.faults \in 0 .. MaxFaults /\ used.faults < MaxFaults  BY DEF IInv, Surroundings, Used, Break
<1>. DEFINE n == used.faults + 1
<1>2. n \in 0 .. MaxFaults /\ used' = [used EXCEPT !.faults = n]  BY <1>1, RecoveryAssumption DEF Break
<1>. HIDE DEF n
<1>3. used' \in Used  BY <1>2 DEF IInv, Surroundings, Used
<1>. QED  BY <1>3 DEF IInv, Surroundings

LEMMA Creating ==
  ASSUME IInv, createRecovery
  PROVE  IInv'
<1>1. "REQUESTED" \in Status  BY DEF Status, Active
<1>. DEFINE new == [row EXCEPT !.status = "REQUESTED"]
<1>2. Rewrites(new)  BY <1>1 DEF createRecovery, Rewrites, IInv, Records, Row
<1>3. Surroundings' /\ UNCHANGED view  BY DEF createRecovery, IInv, Surroundings
<1>. QED  BY <1>2, <1>3, Rewriting

LEMMA Cancelling ==
  ASSUME IInv, requestCancellation
  PROVE  IInv'
<1>. DEFINE new == [row EXCEPT !.cancel = TRUE]
<1>1. Rewrites(new)  BY DEF requestCancellation, Rewrites, IInv, Records, Row
<1>. QED  BY <1>1, Asking, Rewriting DEF requestCancellation

LEMMA Resuming ==
  ASSUME IInv, resumeRecovery
  PROVE  IInv'
<1>1. "PATCH_PLANNING" \in Status  BY DEF Status, Active
<1>. DEFINE new == [row EXCEPT !.status = "PATCH_PLANNING", !.cancel = FALSE, !.owner = NoOne, !.live = FALSE]
<1>2. Rewrites(new)  BY <1>1 DEF resumeRecovery, Rewrites, IInv, Records, Row
<1>. QED  BY <1>2, Asking, Rewriting DEF resumeRecovery

LEMMA Revising ==
  ASSUME IInv, NEW a \in Actor, requestRevision(a)
  PROVE  IInv'
<1>1. "REQUESTED" \in Status  BY DEF Status, Active
<1>. DEFINE new == [row EXCEPT !.status = "REQUESTED", !.cancel = FALSE, !.owner = NoOne, !.live = FALSE]
<1>2. Rewrites(new)  BY <1>1 DEF requestRevision, Rewrites, IInv, Records, Row
<1>. QED  BY <1>2, Asking, Rewriting DEF requestRevision

LEMMA Reading ==
  ASSUME IInv, NEW a \in Actor, getRecovery(a)
  PROVE  IInv'
<1>. USE DEF getRecovery
<1>. DEFINE read == [fresh |-> TRUE, patch |-> row.patch]
<1>1. read \in View /\ read.patch = row.patch  BY Lengths DEF IInv, View
<1>2. view' = [view EXCEPT ![a] = read]  OBVIOUS
<1>. HIDE DEF read
<1>3. view' \in [Actor -> View] /\ \A b \in Actor : view'[b] = IF b = a THEN read ELSE view[b]
  BY <1>1, <1>2 DEF IInv, Records
<1>4. Seen'  BY <1>1, <1>3 DEF IInv, Records, Seen
<1>5. Records'  BY <1>3, <1>4 DEF IInv, Records, PatchesAreNumbered, DecidedAsRead
<1>. QED  BY <1>5 DEF IInv, Surroundings, Slots

LEMMA Deciding ==
  ASSUME IInv, NEW a \in Actor, NEW decision \in {"APPROVE", "REJECT"}, decidePublication(a, decision)
  PROVE  /\ IInv' /\ row'.patch = row.patch
         /\ approvals' = approvals \cup {[round |-> row.patch, actor |-> a, decision |-> decision,
                                          saw |-> view[a].patch]}
         /\ row'.owner = row.owner /\ row'.live = row.live
         /\ \/ row'.status = "AWAITING_PUBLICATION_APPROVAL"
            \/ row'.status = "READY_TO_PUBLISH" /\ Cardinality(Approvers(row.patch, approvals')) >= Threshold
<1>. USE DEF decidePublication
<1>. DEFINE cast == [round |-> row.patch, actor |-> a, decision |-> decision, saw |-> view[a].patch]
<1>1. row.patch \in Nat /\ view[a].patch = row.patch  BY Lengths DEF IInv, Records, Seen
<1>2. cast \in Approval /\ cast.saw = cast.round  BY <1>1 DEF Approval
<1>3. approvals' = approvals \cup {cast}  OBVIOUS
<1>. HIDE DEF cast
<1>4. approvals' \subseteq Approval /\ DecidedAsRead'  BY <1>2, <1>3 DEF IInv, Records, DecidedAsRead
<1>5. PICK status \in Gate :
        /\ row' = [row EXCEPT !.status = status]
        /\ \/ status = "AWAITING_PUBLICATION_APPROVAL"
           \/ status = "READY_TO_PUBLISH" /\ Cardinality(Approvers(row.patch, approvals')) >= Threshold
  BY DEF Gate
<1>6. status \in Status  BY <1>5 DEF Status
<1>7. /\ row' \in Row /\ row'.patch = row.patch /\ row'.status = status
      /\ row'.owner = row.owner /\ row'.live = row.live
  BY <1>5, <1>6 DEF IInv, Records, Row
<1>8. view' \in [Actor -> View] /\ Seen'
  <2>1. [fresh |-> FALSE, patch |-> 0] \in View /\ ~[fresh |-> FALSE, patch |-> 0].fresh  BY DEF View
  <2>2. view' \in [Actor -> View] /\ \A b \in Actor : ~view'[b].fresh  BY <2>1 DEF BumpVersion
  <2>. QED  BY <2>2 DEF Seen
<1>9. Records'  BY <1>4, <1>7, <1>8 DEF IInv, Records, PatchesAreNumbered
<1>10. Surroundings' /\ Slots'  BY Asking DEF IInv, Slots
<1>. QED  BY <1>3, <1>5, <1>7, <1>9, <1>10 DEF IInv, cast

LEMMA Lapsing ==
  ASSUME IInv, LeaseLapses \/ LeaseExpires
  PROVE  IInv'
<1>. DEFINE new == [row EXCEPT !.live = FALSE]
<1>1. Rewrites(new)  BY DEF LeaseLapses, LeaseExpires, Rewrites, IInv, Records, Row
<1>2. Surroundings'  BY Breaking DEF LeaseLapses, LeaseExpires, IInv, Surroundings
<1>. QED  BY <1>1, <1>2, Rewriting DEF LeaseLapses, LeaseExpires

LEMMA Crashing ==
  ASSUME IInv, NEW w, Crash(w)
  PROVE  IInv'
<1>. USE DEF Crash
<1>1. PICK owner \in {row.owner, Gone} : row' = [row EXCEPT !.owner = owner]  OBVIOUS
<1>2. row' \in Row /\ row'.patch = row.patch  BY <1>1 DEF IInv, Records, Row
<1>3. Records'  BY <1>2, RowChanges DEF IInv
<1>4. Slots'
  <2>1. \A s \in Slot : slot'[s] = IF WorkerOf[s] = w THEN Idle ELSE slot[s]  OBVIOUS
  <2>2. slot' \in [Slot -> Local]  BY IdleLocal DEF IInv, Slots
  <2>3. \A s \in Slot : Placed(slot'[s], Len(patches))  BY <2>1, IdleLocal, Lengths DEF IInv, Slots
  <2>. QED  BY <2>2, <2>3 DEF Slots
<1>. QED  BY <1>3, <1>4, Breaking DEF IInv

-----------------------------------------------------------------------------
(* The types, the numbering and the decisions.                             *)

LEMMA IInvInit == Init => IInv
<1>. SUFFICES ASSUME Init  PROVE IInv  OBVIOUS
<1>. USE DEF Init
<1>1. row \in Row  BY DEF Row
<1>2. patches \in Seq(Patch) /\ Len(patches) = 0 /\ DOMAIN patches = {}  BY EmptySeq
<1>3. view \in [Actor -> View] /\ Seen
  <2>1. [fresh |-> FALSE, patch |-> 0] \in View /\ ~[fresh |-> FALSE, patch |-> 0].fresh  BY DEF View
  <2>. QED  BY <2>1 DEF Seen
<1>4. Records  BY <1>1, <1>2, <1>3 DEF Records, PatchesAreNumbered, DecidedAsRead
<1>5. Surroundings  BY RecoveryAssumption DEF Surroundings, Tree, Used
<1>6. Slots  BY <1>2, IdleLocal DEF Slots
<1>. QED  BY <1>4, <1>5, <1>6 DEF IInv

LEMMA IInvNext ==
  ASSUME IInv, [Next]_vars
  PROVE  IInv'
<1>1. ASSUME NEW s \in Slot, deliverJob(s) \/ reconcile(s)  PROVE IInv'
  BY <1>1, Acquisition DEF deliverJob, reconcile
<1>2. ASSUME NEW s \in Slot, Work(s)  PROVE IInv'
  BY <1>2, Loading, Restarting, Checkpointing, Controlling, CreatingTree, RecordingTree, Generating, Applying,
     RecordingPatch, Reviewing, Executing, Verifying, Packaging, CleaningUp, Completing, Releasing DEF Work
<1>3. ASSUME NEW a \in Actor, Decide(a)  PROVE IInv'
  BY <1>3, Reading, Revising, Deciding DEF Decide
<1>4. ASSUME createRecovery \/ requestCancellation \/ resumeRecovery \/ LeaseLapses \/ LeaseExpires  PROVE IInv'
  BY <1>4, Creating, Cancelling, Resuming, Lapsing
<1>5. ASSUME NEW w \in {WorkerOf[s] : s \in Slot}, Crash(w)  PROVE IInv'
  BY <1>5, Crashing
<1>6. CASE UNCHANGED vars
  BY <1>6, RecordsKept DEF vars, IInv, Surroundings, Slots
<1>. QED  BY <1>1, <1>2, <1>3, <1>4, <1>5, <1>6 DEF Next

\* The invariant gives the type invariant, the numbering of the patches and the
\* decisions filed as read.
LEMMA IInvGives == IInv => RecoveryInv
<1>. SUFFICES ASSUME IInv  PROVE RecoveryInv  OBVIOUS
<1>1. slot \in [Slot -> [pc : 0 .. Len(Program), retry : BOOLEAN, base : Nat,
                        diff : Diff \cup {NoDiff}, tree : BOOLEAN, good : BOOLEAN,
                        outcome : Status \cup {"none"}]]
  <2>1. Len(Program) = 28 /\ slot \in [Slot -> Local] /\ Outcome \subseteq Status
    BY ProgramSteps, FailuresAreOutcomes DEF IInv, Slots
  <2>2. Local \subseteq [pc : 0 .. Len(Program), retry : BOOLEAN, base : Nat,
                         diff : Diff \cup {NoDiff}, tree : BOOLEAN, good : BOOLEAN,
                         outcome : Status \cup {"none"}]
    BY <2>1 DEF Local
  <2>. QED  BY <2>1, <2>2
<1>2. TypeOK
  BY <1>1 DEF TypeOK, IInv, Records, Surroundings, Row, Patch, Approval, Tree, View, Used
<1>. QED  BY <1>2 DEF RecoveryInv, IInv, Records

\* Patch versions are numbered without gaps although each number was chosen from
\* a version read long before, and decisions are filed under the patch that their
\* author had read: whatever the processes, leases, failures and people do.
THEOREM NumberedAndFiledAsRead == Spec => []RecoveryInv
<1>1. Init => IInv  BY IInvInit
<1>2. IInv /\ [Next]_vars => IInv'  BY IInvNext
<1>3. IInv => RecoveryInv  BY IInvGives
<1>. QED  BY <1>1, <1>2, <1>3, PTL DEF Spec

-----------------------------------------------------------------------------
(* The evidence behind the gate and the approvals behind a publication.    *)

\* A step of one call leaves every other call with the lease in its stage: if
\* the step changed the row or the patches, the lease was its own.
LEMMA OthersInStep ==
  ASSUME OneCallPerProcess, IInv, Lockstep, NEW s \in Slot, Moves(s), Leased(s) \/ UNCHANGED <<row, patches>>,
         row'.owner \in {row.owner, NoOne, WorkerOf[s]}, row'.live => row.live \/ row'.owner = WorkerOf[s],
         NEW t \in Slot \ {s}, Leased(t)'
  PROVE  InStep(t)'
<1>1. WorkerOf[t] # WorkerOf[s] /\ WorkerOf[t] # NoOne  BY RecoveryAssumption DEF OneCallPerProcess
<1>2. Leased(t) /\ ~Leased(s)  BY <1>1 DEF Leased
<1>3. UNCHANGED <<row, patches>> /\ slot'[t] = slot[t]  BY <1>2 DEF Moves
<1>. QED  BY <1>2, <1>3 DEF Lockstep, InStep

\* Steps that go on within a stage, or leave the stretch from the application of
\* the patch to the gate, and change no record but what no stage speaks of.
LEMMA WithinStage ==
  ASSUME OneCallPerProcess, IInv, Lockstep, NEW s \in Slot, Moves(s), UNCHANGED <<row, patches>>,
         slot'[s].pc \notin 14 .. 26 \/ slot[s].pc \in {14, 16, 19, 21, 23}
  PROVE  Lockstep'
<1>1. ASSUME NEW t \in Slot, Leased(t)'  PROVE InStep(t)'
  <2>1. CASE t # s
    BY <1>1, <2>1, OthersInStep
  <2>2. CASE t = s /\ slot'[s].pc \notin 14 .. 26
    <3>1. slot'[s].pc \notin 16 .. 18 /\ slot'[s].pc \notin 16 .. 22 /\ slot'[s].pc \notin 16 .. 26
          /\ slot'[s].pc \notin 19 .. 26 /\ slot'[s].pc \notin 23 .. 26 /\ slot'[s].pc # 26
      <4>. DEFINE pc == slot'[s].pc
      <4>1. pc \notin 14 .. 26  BY <2>2
      <4>. HIDE DEF pc
      <4>2. pc \notin 16 .. 18 /\ pc \notin 16 .. 22 /\ pc \notin 16 .. 26 /\ pc \notin 19 .. 26
            /\ pc \notin 23 .. 26 /\ pc # 26
        BY <4>1
      <4>. QED  BY <4>2 DEF pc
    <3>. QED  BY <2>2, <3>1 DEF InStep
  <2>3. CASE t = s /\ slot'[s].pc \in 14 .. 26 /\ slot[s].pc \in {14, 16, 19, 21, 23}
    <3>1. slot'[s].pc = slot[s].pc + 1 /\ slot'[s].base = slot[s].base  BY <2>3 DEF Moves
    <3>2. InStep(s)  BY <1>1, <2>3 DEF Lockstep, Leased
    <3>3. \/ slot[s].pc = 14 /\ slot'[s].pc = 15
          \/ slot[s].pc = 16 /\ slot'[s].pc = 17
          \/ slot[s].pc = 19 /\ slot'[s].pc = 20
          \/ slot[s].pc = 21 /\ slot'[s].pc = 22
          \/ slot[s].pc = 23 /\ slot'[s].pc = 24
      BY <2>3, <3>1
    <3>. QED  BY <2>3, <3>1, <3>2, <3>3 DEF InStep, Stage
  <2>. QED  BY <2>1, <2>2, <2>3
<1>. QED  BY <1>1 DEF Lockstep

LEMMA QuietStep ==
  ASSUME OneCallPerProcess, IInv, Evidence, NEW s \in Slot, Moves(s), UNCHANGED <<row, patches, approvals>>,
         slot'[s].pc \notin 14 .. 26 \/ slot[s].pc \in {14, 16, 19, 21, 23}
  PROVE  Evidence'
<1>1. Lockstep'  BY WithinStage DEF Evidence
<1>. QED  BY <1>1 DEF Evidence, GateIsEvidenced, ReadyIsApproved, ApprovalsSeparated, Approvers


\* The call has the lease, the steps of the others are over: only its own stage
\* and the gate are left to look at.
LEMMA OwnStep ==
  ASSUME OneCallPerProcess, IInv, Evidence, NEW s \in Slot, Moves(s), Leased(s), UNCHANGED approvals,
         row'.owner = row.owner, row'.live = row.live, InStep(s)', GateIsEvidenced', row'.status # "READY_TO_PUBLISH"
  PROVE  Evidence'
<1>1. ASSUME NEW t \in Slot, Leased(t)'  PROVE InStep(t)'
  BY <1>1, OthersInStep DEF Evidence
<1>. QED  BY <1>1 DEF Evidence, Lockstep, ReadyIsApproved, ApprovalsSeparated

LEMMA CheckpointKeepsEvidence ==
  ASSUME OneCallPerProcess, IInv, Evidence, NEW s \in Slot, checkpoint(s)
  PROVE  Evidence'
<1>1. /\ Moves(s) /\ slot[s].pc \in {3, 5, 9, 10, 13, 17, 20, 24, 26} /\ UNCHANGED <<patches, approvals>>
      /\ \/ slot'[s].pc = 27 /\ UNCHANGED row
         \/ /\ slot'[s].pc = slot[s].pc + 1 /\ Leased(s)
            /\ row' = [row EXCEPT !.status = Program[slot[s].pc]]
  BY Checkpointing DEF checkpoint
<1>2. CASE slot'[s].pc = 27 /\ UNCHANGED row
  BY <1>1, <1>2, QuietStep
<1>3. CASE slot'[s].pc = slot[s].pc + 1 /\ Leased(s) /\ row' = [row EXCEPT !.status = Program[slot[s].pc]]
  <2>. DEFINE stage == Program[slot[s].pc]
  <2>1. row' = [row EXCEPT !.status = stage]  BY <1>3
  <2>2. /\ stage # "READY_TO_PUBLISH"
        /\ slot[s].pc = 26 <=> stage \in Gate
        /\ slot[s].pc = 13 => stage = "PATCH_VALIDATING"
        /\ slot[s].pc = 17 => stage = "SECURITY_REVIEW"
        /\ slot[s].pc = 20 => stage = "VERIFYING"
        /\ slot[s].pc = 24 => stage = "PACKAGE_BUILDING"
    <3>1. \/ slot[s].pc = 3 \/ slot[s].pc = 5 \/ slot[s].pc = 9 \/ slot[s].pc = 10 \/ slot[s].pc = 13
          \/ slot[s].pc = 17 \/ slot[s].pc = 20 \/ slot[s].pc = 24 \/ slot[s].pc = 26
      BY <1>1
    <3>. QED  BY <3>1, ProgramSteps DEF Gate
  <2>. HIDE DEF stage
  <2>3. /\ row'.status = stage /\ row'.patch = row.patch /\ row'.owner = row.owner /\ row'.live = row.live
    BY <2>1 DEF IInv, Records, Row
  <2>4. InStep(s)  BY <1>3 DEF Evidence, Lockstep
  <2>5. InStep(s)'
    <3>1. CASE slot[s].pc \in {3, 5, 9, 10, 26}
      <4>1. slot'[s].pc \in {4, 6, 10, 11, 27}  BY <1>3, <3>1
      <4>. QED  BY <4>1 DEF InStep
    <3>2. CASE slot[s].pc \in {13, 17, 20, 24}
      <4>1. \/ slot[s].pc = 13 /\ slot'[s].pc = 14
            \/ slot[s].pc = 17 /\ slot'[s].pc = 18
            \/ slot[s].pc = 20 /\ slot'[s].pc = 21
            \/ slot[s].pc = 24 /\ slot'[s].pc = 25
        BY <1>3, <3>2
      <4>2. slot'[s].base = slot[s].base  BY <1>1, <4>1 DEF Moves
      <4>. QED  BY <1>1, <2>2, <2>3, <2>4, <4>1, <4>2 DEF InStep, Stage
    <3>. QED  BY <1>1, <3>1, <3>2
  <2>6. GateIsEvidenced'
    <3>1. SUFFICES ASSUME slot[s].pc = 26  PROVE GateIsEvidenced'  BY <2>2, <2>3 DEF GateIsEvidenced
    <3>2. row.patch = slot[s].base + 1 /\ row.patch \in DOMAIN patches
      <4>1. Own(s) = slot[s].base + 1 /\ Own(s) \in 1 .. Len(patches)  BY <3>1, OwnPatch DEF IInv
      <4>2. row.patch = slot[s].base + 1  BY <2>4, <3>1 DEF InStep
      <4>. QED  BY <4>1, <4>2, Lengths DEF IInv
    <3>3. /\ patches[row.patch].version = row.patch
          /\ patches[row.patch].review = "ALLOW" /\ patches[row.patch].report = "PASSED" /\ patches[row.patch].package
      BY <2>4, <3>1, <3>2 DEF InStep, IInv, Records, PatchesAreNumbered
    <3>. QED  BY <1>1, <2>3, <3>2, <3>3 DEF GateIsEvidenced
  <2>. QED  BY <1>1, <1>3, <2>2, <2>3, <2>5, <2>6, OwnStep
<1>. QED  BY <1>1, <1>2, <1>3

LEMMA RecordingKeepsEvidence ==
  ASSUME OneCallPerProcess, IInv, Evidence, NEW s \in Slot, recordPatch(s)
  PROVE  Evidence'
<1>1. /\ Moves(s) /\ slot[s].pc = 15 /\ UNCHANGED approvals
      /\ \/ slot'[s].pc = 27 /\ UNCHANGED <<row, patches>>
         \/ /\ slot'[s].pc = 16 /\ Leased(s) /\ slot[s].base = Len(patches)
            /\ row' = [row EXCEPT !.patch = Len(patches) + 1]
            /\ patches' = Append(patches, [version |-> Len(patches) + 1, diff |-> slot[s].diff,
                                           review |-> "none", report |-> "none", package |-> FALSE])
  BY RecordingPatch DEF recordPatch
<1>2. CASE slot'[s].pc = 27 /\ UNCHANGED <<row, patches>>
  BY <1>1, <1>2, QuietStep
<1>3. CASE /\ slot'[s].pc = 16 /\ Leased(s) /\ slot[s].base = Len(patches)
           /\ row' = [row EXCEPT !.patch = Len(patches) + 1]
           /\ patches' = Append(patches, [version |-> Len(patches) + 1, diff |-> slot[s].diff,
                                          review |-> "none", report |-> "none", package |-> FALSE])
  <2>. DEFINE version == Len(patches) + 1
              new == [version |-> version, diff |-> slot[s].diff, review |-> "none", report |-> "none", package |-> FALSE]
  <2>1. new.review = "none" /\ new.report = "none"  OBVIOUS
  <2>2. patches' = Append(patches, new) /\ row' = [row EXCEPT !.patch = version]  BY <1>3
  <2>. HIDE DEF new
  <2>3. patches \in Seq(Patch) /\ slot'[s].base = slot[s].base /\ version = slot[s].base + 1
    BY <1>1, <1>3 DEF IInv, Records, Moves
  <2>4. patches'[version] = new  BY <2>2, <2>3, Lengths DEF IInv
  <2>. HIDE DEF version
  <2>5. row'.patch = version /\ row'.status = row.status /\ row'.owner = row.owner /\ row'.live = row.live
    BY <2>2 DEF IInv, Records, Row
  <2>6. row.status = "PATCH_VALIDATING"  BY <1>1, <1>3 DEF Evidence, Lockstep, InStep, Stage
  <2>7. InStep(s)'  BY <1>3, <2>1, <2>3, <2>4, <2>5, <2>6 DEF InStep, Stage
  <2>8. GateIsEvidenced' /\ row'.status # "READY_TO_PUBLISH"  BY <2>5, <2>6 DEF GateIsEvidenced, Gate
  <2>. QED  BY <1>1, <1>3, <2>5, <2>7, <2>8, OwnStep
<1>. QED  BY <1>1, <1>2, <1>3

\* A result filed by the call with the lease is a result of the last patch.
LEMMA FilingKeepsEvidence ==
  ASSUME OneCallPerProcess, IInv, Evidence, NEW s \in Slot, NEW patch, FillsIn(s, patch), Moves(s), UNCHANGED approvals,
         slot[s].pc \in {18, 22, 25},
         \/ slot'[s].pc = 27
         \/ slot'[s].pc = 19 /\ patch.review = "ALLOW" /\ patch.report = patches[slot[s].base + 1].report
         \/ slot'[s].pc = 23 /\ patch.report = "PASSED" /\ patch.review = patches[slot[s].base + 1].review
         \/ slot'[s].pc = 26 /\ patch.package /\ patch.review = patches[slot[s].base + 1].review
            /\ patch.report = patches[slot[s].base + 1].report
  PROVE  Evidence'
<1>1. Leased(s) /\ UNCHANGED row /\ patches'[slot[s].base + 1] = patch  BY DEF FillsIn
<1>2. InStep(s)  BY <1>1 DEF Evidence, Lockstep
<1>3. row.patch = slot[s].base + 1 /\ row.status \in {"SECURITY_REVIEW", "VERIFYING", "PACKAGE_BUILDING"}
  BY <1>2 DEF InStep, Stage
<1>4. GateIsEvidenced' /\ row'.status # "READY_TO_PUBLISH"  BY <1>1, <1>3 DEF GateIsEvidenced, Gate
<1>5. InStep(s)'
  <2>1. CASE slot'[s].pc = 27  BY <2>1 DEF InStep
  <2>2. CASE slot'[s].pc \in {19, 23, 26}
    <3>1. slot'[s].pc = slot[s].pc + 1 /\ slot'[s].base = slot[s].base  BY <2>2 DEF Moves
    <3>2. \/ slot[s].pc = 18 /\ slot'[s].pc = 19
          \/ slot[s].pc = 22 /\ slot'[s].pc = 23
          \/ slot[s].pc = 25 /\ slot'[s].pc = 26
      BY <2>2, <3>1
    <3>3. CASE slot[s].pc = 18 /\ slot'[s].pc = 19
      BY <1>1, <1>2, <1>3, <3>1, <3>3 DEF InStep, Stage
    <3>4. CASE slot[s].pc = 22 /\ slot'[s].pc = 23
      BY <1>1, <1>2, <1>3, <3>1, <3>4 DEF InStep, Stage
    <3>5. CASE slot[s].pc = 25 /\ slot'[s].pc = 26
      BY <1>1, <1>2, <1>3, <3>1, <3>5 DEF InStep, Stage
    <3>. QED  BY <3>2, <3>3, <3>4, <3>5
  <2>. QED  BY <2>1, <2>2
<1>. QED  BY <1>1, <1>4, <1>5, OwnStep


LEMMA CallKeepsEvidence ==
  ASSUME OneCallPerProcess, IInv, Evidence, NEW s \in Slot, Work(s)
  PROVE  Evidence'
<1>1. CASE loadRecoveryContext(s)
  BY <1>1, Loading, QuietStep DEF loadRecoveryContext, Keep
<1>2. CASE restartForRetry(s)
  <2>1. /\ Moves(s) /\ slot'[s].pc \in {3, 27} /\ UNCHANGED <<patches, approvals>>
        /\ UNCHANGED row \/ (Leased(s) /\ row' = [row EXCEPT !.status = "REQUESTED"])
    BY <1>2, Restarting DEF restartForRetry
  <2>2. CASE UNCHANGED row  BY <2>1, <2>2, QuietStep
  <2>3. CASE Leased(s) /\ row' = [row EXCEPT !.status = "REQUESTED"]
    <3>1. row'.status = "REQUESTED" /\ row'.owner = row.owner /\ row'.live = row.live
      BY <2>3 DEF IInv, Records, Row
    <3>2. InStep(s)'  BY <2>1 DEF InStep
    <3>3. GateIsEvidenced'  BY <3>1 DEF GateIsEvidenced, Gate
    <3>. QED  BY <2>1, <2>3, <3>1, <3>2, <3>3, OwnStep
  <2>. QED  BY <2>1, <2>2, <2>3
<1>3. CASE checkpoint(s)
  BY <1>3, CheckpointKeepsEvidence
<1>4. CASE checkControl(s)
  <2>1. Moves(s) /\ slot'[s].pc \in {slot[s].pc + 1, 27} /\ slot[s].pc \in {4, 8, 12, 16, 19, 23}
    BY <1>4, Controlling
  <2>2. slot'[s].pc \notin 14 .. 26 \/ slot[s].pc \in {14, 16, 19, 21, 23}  BY <2>1
  <2>. QED  BY <1>4, <2>1, <2>2, QuietStep DEF checkControl, Keep
<1>5. CASE createWorktree(s)
  BY <1>5, CreatingTree, QuietStep DEF createWorktree
<1>6. CASE recordWorktree(s)
  BY <1>6, RecordingTree, QuietStep DEF recordWorktree
<1>7. CASE generate(s)
  <2>1. Moves(s) /\ slot'[s].pc \notin 14 .. 26 /\ UNCHANGED <<row, patches, approvals>>
    <3>1. Moves(s) /\ slot'[s].pc \in {12, 27}  BY <1>7, Generating
    <3>2. slot'[s].pc \notin 14 .. 26  BY <3>1
    <3>. QED  BY <1>7, <3>1, <3>2 DEF generate, Keep
  <2>. QED  BY <2>1, QuietStep
<1>8. CASE applyPatch(s)
  BY <1>8, Applying, QuietStep DEF applyPatch
<1>9. CASE recordPatch(s)
  BY <1>9, RecordingKeepsEvidence
<1>10. CASE recordSecurityReview(s)
  <2>1. /\ Moves(s) /\ slot[s].pc = 18 /\ UNCHANGED <<row, approvals>>
        /\ \/ slot'[s].pc = 27 /\ UNCHANGED patches
           \/ \E decision \in securityDecision :
                /\ FillsIn(s, [patches[slot[s].base + 1] EXCEPT !.review = decision])
                /\ slot'[s].pc = 27 \/ (slot'[s].pc = 19 /\ decision = "ALLOW")
    BY <1>10, Reviewing DEF recordSecurityReview
  <2>2. slot[s].pc \in 16 .. 26  BY <2>1
  <2>3. ASSUME NEW decision \in securityDecision,
               FillsIn(s, [patches[slot[s].base + 1] EXCEPT !.review = decision]),
               slot'[s].pc = 27 \/ (slot'[s].pc = 19 /\ decision = "ALLOW")
        PROVE  Evidence'
    <3>. DEFINE patch == [patches[slot[s].base + 1] EXCEPT !.review = decision]
    <3>1. patch.review = decision /\ patch.report = patches[slot[s].base + 1].report
      BY <2>2, OwnFields DEF Patch
    <3>2. FillsIn(s, patch)  BY <2>3
    <3>. HIDE DEF patch
    <3>. QED  BY <2>1, <2>3, <3>1, <3>2, FilingKeepsEvidence
  <2>4. CASE slot'[s].pc = 27 /\ UNCHANGED patches
    BY <2>1, <2>4, QuietStep
  <2>. QED  BY <2>1, <2>3, <2>4
<1>11. CASE execute(s)
  <2>1. Moves(s) /\ slot[s].pc = 21 /\ UNCHANGED <<row, patches, approvals>>
    BY <1>11, Executing DEF execute, Keep
  <2>. QED  BY <2>1, QuietStep
<1>12. CASE recordVerification(s)
  <2>1. /\ Moves(s) /\ slot[s].pc = 22 /\ UNCHANGED <<row, approvals>>
        /\ \/ slot'[s].pc = 27 /\ UNCHANGED patches
           \/ FillsIn(s, [patches[slot[s].base + 1] EXCEPT !.report = "PASSED"]) /\ slot'[s].pc = 23
           \/ FillsIn(s, [patches[slot[s].base + 1] EXCEPT !.report = "FAILED"]) /\ slot'[s].pc = 27
    BY <1>12, Verifying DEF recordVerification
  <2>2. slot[s].pc \in 16 .. 26  BY <2>1
  <2>3. CASE FillsIn(s, [patches[slot[s].base + 1] EXCEPT !.report = "PASSED"]) /\ slot'[s].pc = 23
    <3>. DEFINE patch == [patches[slot[s].base + 1] EXCEPT !.report = "PASSED"]
    <3>1. patch.report = "PASSED" /\ patch.review = patches[slot[s].base + 1].review
      BY <2>2, OwnFields DEF Patch
    <3>2. FillsIn(s, patch)  BY <2>3
    <3>. HIDE DEF patch
    <3>. QED  BY <2>1, <2>3, <3>1, <3>2, FilingKeepsEvidence
  <2>4. CASE FillsIn(s, [patches[slot[s].base + 1] EXCEPT !.report = "FAILED"]) /\ slot'[s].pc = 27
    <3>. DEFINE patch == [patches[slot[s].base + 1] EXCEPT !.report = "FAILED"]
    <3>1. FillsIn(s, patch)  BY <2>4
    <3>. HIDE DEF patch
    <3>. QED  BY <2>1, <2>4, <3>1, FilingKeepsEvidence
  <2>. QED  BY <2>1, <2>3, <2>4, QuietStep
<1>13. CASE recordPullRequestPackage(s)
  <2>1. /\ Moves(s) /\ slot[s].pc = 25 /\ UNCHANGED <<row, approvals>>
        /\ \/ slot'[s].pc = 27 /\ UNCHANGED patches
           \/ FillsIn(s, [patches[slot[s].base + 1] EXCEPT !.package = TRUE]) /\ slot'[s].pc = 26
    BY <1>13, Packaging DEF recordPullRequestPackage
  <2>2. slot[s].pc \in 16 .. 26  BY <2>1
  <2>3. CASE FillsIn(s, [patches[slot[s].base + 1] EXCEPT !.package = TRUE]) /\ slot'[s].pc = 26
    <3>. DEFINE patch == [patches[slot[s].base + 1] EXCEPT !.package = TRUE]
    <3>1. patch.package /\ patch.review = patches[slot[s].base + 1].review
          /\ patch.report = patches[slot[s].base + 1].report
      BY <2>2, OwnFields DEF Patch
    <3>2. FillsIn(s, patch)  BY <2>3
    <3>. HIDE DEF patch
    <3>. QED  BY <2>1, <2>3, <3>1, <3>2, FilingKeepsEvidence
  <2>. QED  BY <2>1, <2>3, QuietStep
<1>14. CASE cleanUp(s)
  BY <1>14, CleaningUp, QuietStep DEF cleanUp
<1>15. CASE complete(s)
  <2>1. /\ Moves(s) /\ slot'[s].pc = 0 /\ UNCHANGED <<patches, approvals>>
        /\ UNCHANGED row \/ (row'.owner = NoOne /\ ~row'.live /\ row'.status \in Outcome /\ row'.patch = row.patch)
    BY <1>15, Completing DEF complete
  <2>2. CASE UNCHANGED row  BY <2>1, <2>2, QuietStep
  <2>3. CASE row'.owner = NoOne /\ ~row'.live /\ row'.status \in Outcome /\ row'.patch = row.patch
    <3>1. Lockstep'  BY <2>3 DEF Lockstep, Leased
    <3>. QED  BY <2>1, <2>3, <3>1 DEF Evidence, GateIsEvidenced, ReadyIsApproved, ApprovalsSeparated, Outcome, Gate
  <2>. QED  BY <2>1, <2>2, <2>3
<1>16. CASE releaseLease(s)
  <2>1. /\ Moves(s) /\ slot'[s].pc = 0 /\ UNCHANGED <<patches, approvals>>
        /\ UNCHANGED row \/ (row'.owner = NoOne /\ ~row'.live /\ row'.status = row.status /\ row'.patch = row.patch)
    BY <1>16, Releasing DEF releaseLease
  <2>2. CASE UNCHANGED row  BY <2>1, <2>2, QuietStep
  <2>3. CASE row'.owner = NoOne /\ ~row'.live /\ row'.status = row.status /\ row'.patch = row.patch
    <3>1. Lockstep'  BY <2>3 DEF Lockstep, Leased
    <3>. QED  BY <2>1, <2>3, <3>1 DEF Evidence, GateIsEvidenced, ReadyIsApproved, ApprovalsSeparated, Approvers
  <2>. QED  BY <2>1, <2>2, <2>3
<1>. QED  BY <1>1, <1>2, <1>3, <1>4, <1>5, <1>6, <1>7, <1>8, <1>9, <1>10, <1>11, <1>12, <1>13, <1>14, <1>15, <1>16
         DEF Work

LEMMA AcquisitionKeepsEvidence ==
  ASSUME OneCallPerProcess, IInv, Evidence, NEW s \in Slot, deliverJob(s) \/ reconcile(s)
  PROVE  Evidence'
<1>1. /\ Moves(s) /\ slot'[s].pc \in {0, 1} /\ UNCHANGED <<patches, approvals>>
      /\ row'.status = row.status /\ row'.patch = row.patch
      /\ row'.owner # row.owner => row'.owner = WorkerOf[s] /\ (row.owner = NoOne \/ ~row.live)
      /\ row'.live # row.live => row'.owner = WorkerOf[s]
  BY Acquisition DEF deliverJob, reconcile
<1>2. ASSUME NEW t \in Slot, Leased(t)'  PROVE InStep(t)'
  <2>1. CASE t = s  BY <1>1, <2>1 DEF InStep
  <2>2. CASE t # s
    <3>1. row'.owner # WorkerOf[s]  BY <1>2, <2>2 DEF OneCallPerProcess, Leased
    <3>2. Leased(t) /\ slot'[t] = slot[t]  BY <1>1, <1>2, <2>2, <3>1 DEF Leased, Moves
    <3>. QED  BY <1>1, <3>2 DEF Evidence, Lockstep, InStep
  <2>. QED  BY <2>1, <2>2
<1>. QED  BY <1>1, <1>2 DEF Evidence, Lockstep, GateIsEvidenced, ReadyIsApproved, ApprovalsSeparated, Approvers


\* A change of the row that moves no patch and gives nobody the lease.
LEMMA RowKeepsLockstep ==
  ASSUME Lockstep, UNCHANGED <<slot, patches>>, row'.patch = row.patch,
         \A t \in Slot : Leased(t)' => Leased(t) /\ (row'.status = row.status \/ slot[t].pc \notin 14 .. 26)
  PROVE  Lockstep'
<1>1. ASSUME NEW t \in Slot, Leased(t)'  PROVE InStep(t)'
  <2>1. Leased(t) /\ InStep(t) /\ (row'.status = row.status \/ slot[t].pc \notin 14 .. 26)
    BY <1>1 DEF Lockstep
  <2>. QED  BY <2>1 DEF InStep
<1>. QED  BY <1>1 DEF Lockstep

LEMMA PeopleKeepEvidence ==
  ASSUME IInv, Evidence,
         \/ createRecovery \/ requestCancellation \/ resumeRecovery \/ LeaseLapses \/ LeaseExpires
         \/ \E a \in Actor : Decide(a)
  PROVE  Evidence'
<1>1. ASSUME NEW status, row.status \notin Gate, row' = [row EXCEPT !.status = status], status \notin Gate,
             row.status = NotCreated, UNCHANGED <<slot, patches, approvals>>
      PROVE  Evidence'
  <2>1. row'.status = status /\ row'.patch = row.patch /\ row'.owner = row.owner /\ row'.live = row.live
    BY <1>1 DEF IInv, Records, Row
  <2>2. \A t \in Slot : Leased(t)' => Leased(t) /\ slot[t].pc \notin 14 .. 26
    BY <1>1, <2>1 DEF Evidence, Lockstep, InStep, Stage, Leased, NotCreated
  <2>3. Lockstep'  BY <1>1, <2>1, <2>2, RowKeepsLockstep DEF Evidence
  <2>. QED  BY <1>1, <2>1, <2>3 DEF Evidence, GateIsEvidenced, ReadyIsApproved, ApprovalsSeparated, Gate
<1>2. CASE createRecovery
  <2>1. NotCreated \notin Gate /\ "REQUESTED" \notin Gate  BY DEF NotCreated, Gate
  <2>. QED  BY <1>1, <1>2, <2>1 DEF createRecovery
<1>3. CASE requestCancellation
  <2>1. /\ row'.status = row.status /\ row'.patch = row.patch /\ row'.owner = row.owner /\ row'.live = row.live
        /\ UNCHANGED <<slot, patches, approvals>>
    BY <1>3 DEF requestCancellation, IInv, Records, Row
  <2>2. Lockstep'  BY <2>1, RowKeepsLockstep DEF Evidence, Leased
  <2>. QED  BY <2>1, <2>2 DEF Evidence, GateIsEvidenced, ReadyIsApproved, ApprovalsSeparated, Approvers
<1>4. ASSUME UNCHANGED <<slot, patches, approvals>>, ~row'.live, row'.patch = row.patch,
             row'.status = row.status \/ row'.status \notin Gate
      PROVE  Evidence'
  <2>1. Lockstep'  BY <1>4 DEF Lockstep, Leased
  <2>2. GateIsEvidenced'  BY <1>4 DEF Evidence, GateIsEvidenced
  <2>3. ReadyIsApproved'  BY <1>4 DEF Evidence, ReadyIsApproved, Approvers, Gate
  <2>. QED  BY <1>4, <2>1, <2>2, <2>3 DEF Evidence, ApprovalsSeparated
<1>5. CASE resumeRecovery
  <2>1. ~row'.live /\ row'.patch = row.patch /\ row'.status = "PATCH_PLANNING"
    BY <1>5 DEF resumeRecovery, IInv, Records, Row
  <2>. QED  BY <1>4, <1>5, <2>1 DEF resumeRecovery, Gate
<1>6. CASE LeaseLapses \/ LeaseExpires
  <2>1. ~row'.live /\ row'.patch = row.patch /\ row'.status = row.status
    BY <1>6 DEF LeaseLapses, LeaseExpires, IInv, Records, Row
  <2>. QED  BY <1>4, <1>6, <2>1 DEF LeaseLapses, LeaseExpires
<1>7. ASSUME NEW a \in Actor, getRecovery(a)  PROVE Evidence'
  <2>1. UNCHANGED <<row, slot, patches, approvals>>  BY <1>7 DEF getRecovery
  <2>2. Lockstep'  BY <2>1, RowKeepsLockstep DEF Evidence, Leased
  <2>. QED  BY <2>1, <2>2 DEF Evidence, GateIsEvidenced, ReadyIsApproved, ApprovalsSeparated, Approvers
<1>8. ASSUME NEW a \in Actor, requestRevision(a)  PROVE Evidence'
  <2>1. ~row'.live /\ row'.patch = row.patch /\ row'.status = "REQUESTED"
    BY <1>8 DEF requestRevision, IInv, Records, Row
  <2>. QED  BY <1>4, <1>8, <2>1 DEF requestRevision, Gate
<1>9. ASSUME NEW a \in Actor, NEW d \in {"APPROVE", "REJECT"}, decidePublication(a, d)  PROVE Evidence'
  <2>. DEFINE cast == [round |-> row.patch, actor |-> a, decision |-> d, saw |-> view[a].patch]
  <2>1. /\ row'.patch = row.patch /\ row'.owner = row.owner /\ row'.live = row.live
        /\ approvals' = approvals \cup {cast} /\ UNCHANGED <<slot, patches>>
        /\ \/ row'.status = "AWAITING_PUBLICATION_APPROVAL"
           \/ row'.status = "READY_TO_PUBLISH" /\ Cardinality(Approvers(row.patch, approvals')) >= Threshold
    BY <1>9, Deciding DEF decidePublication
  <2>2. row.status \in Gate /\ (d = "APPROVE" => SeparateDuties(a))  BY <1>9 DEF decidePublication
  <2>3. cast.actor = a /\ cast.decision = d  OBVIOUS
  <2>. HIDE DEF cast
  <2>4. ApprovalsSeparated'  BY <2>1, <2>2, <2>3 DEF Evidence, ApprovalsSeparated
  <2>5. \A t \in Slot : Leased(t) => slot[t].pc \notin 14 .. 26
    BY <2>2 DEF Evidence, Lockstep, InStep, Stage, Gate
  <2>6. \A t \in Slot : Leased(t)' => Leased(t)  BY <2>1 DEF Leased
  <2>7. Lockstep'  BY <2>1, <2>5, <2>6, RowKeepsLockstep DEF Evidence
  <2>8. GateIsEvidenced'  BY <2>1, <2>2 DEF Evidence, GateIsEvidenced
  <2>9. ReadyIsApproved'
    <3>1. SUFFICES ASSUME row'.status = "READY_TO_PUBLISH"  PROVE ReadyIsApproved'  BY DEF ReadyIsApproved
    <3>2. Cardinality(Approvers(row.patch, approvals')) >= Threshold  BY <2>1, <3>1
    <3>3. \A b \in Approvers(row.patch, approvals') : SeparateDuties(b)  BY <2>4 DEF Approvers, ApprovalsSeparated
    <3>4. Approvers(row.patch, approvals)' = Approvers(row.patch, approvals')  BY <2>1 DEF Approvers
    <3>. QED  BY <3>2, <3>3, <3>4 DEF ReadyIsApproved, SeparateDuties
  <2>. QED  BY <2>4, <2>7, <2>8, <2>9 DEF Evidence
<1>. QED  BY <1>2, <1>3, <1>5, <1>6, <1>7, <1>8, <1>9 DEF Decide

LEMMA CrashKeepsEvidence ==
  ASSUME IInv, Evidence, NEW w, Crash(w)
  PROVE  Evidence'
<1>1. /\ row'.status = row.status /\ row'.patch = row.patch /\ row'.live = row.live
      /\ row'.owner = IF row.owner = w THEN Gone ELSE row.owner
      /\ UNCHANGED <<patches, approvals>>
  BY DEF Crash, IInv, Records, Row
<1>2. ASSUME NEW t \in Slot, Leased(t)'  PROVE InStep(t)'
  <2>1. Leased(t) /\ WorkerOf[t] # w  BY <1>1, <1>2, RecoveryAssumption DEF Leased
  <2>2. slot'[t] = slot[t]  BY <2>1 DEF Crash
  <2>. QED  BY <1>1, <2>1, <2>2 DEF Evidence, Lockstep, InStep
<1>. QED  BY <1>1, <1>2 DEF Evidence, Lockstep, GateIsEvidenced, ReadyIsApproved, ApprovalsSeparated, Approvers

LEMMA EvidenceInit == Init => Evidence
<1>. SUFFICES ASSUME Init  PROVE Evidence  OBVIOUS
<1>1. row.status = NotCreated /\ ~row.live /\ approvals = {}  BY DEF Init
<1>2. NotCreated \notin Gate /\ NotCreated # "READY_TO_PUBLISH"  BY DEF Gate, NotCreated
<1>3. Lockstep  BY <1>1 DEF Lockstep, Leased
<1>. QED  BY <1>1, <1>2, <1>3 DEF Evidence, GateIsEvidenced, ReadyIsApproved, ApprovalsSeparated

LEMMA EvidenceNext ==
  ASSUME OneCallPerProcess, IInv, Evidence, [Next]_vars
  PROVE  Evidence'
<1>1. CASE UNCHANGED vars
  BY <1>1 DEF vars, Evidence, Lockstep, Leased, InStep, GateIsEvidenced, ReadyIsApproved, ApprovalsSeparated, Approvers
<1>. QED  BY <1>1, AcquisitionKeepsEvidence, CallKeepsEvidence, PeopleKeepEvidence, CrashKeepsEvidence DEF Next


\* What one step does to the patches.
OnlyTheLast ==
  \A i \in DOMAIN patches :
    /\ i \in DOMAIN patches'
    /\ patches'[i].diff = patches[i].diff
    /\ patches[i].review # "none" => patches'[i].review = patches[i].review
    /\ patches[i].report # "none" => patches'[i].report = patches[i].report
    /\ patches'[i] # patches[i] => i = Len(patches)

LEMMA FillingOnlyTheLast ==
  ASSUME IInv, Evidence, IInv', NEW s \in Slot, NEW patch, FillsIn(s, patch), slot[s].pc \in {18, 22, 25},
         patch.diff = patches[slot[s].base + 1].diff,
         patch.review = patches[slot[s].base + 1].review \/ slot[s].pc = 18,
         patch.report = patches[slot[s].base + 1].report \/ slot[s].pc = 22
  PROVE  OnlyTheLast
<1>1. InStep(s) /\ row.patch = Len(patches)  BY Lengths DEF Evidence, Lockstep, FillsIn, IInv
<1>2. /\ slot[s].base + 1 = Len(patches)
      /\ slot[s].pc = 18 => patches[Len(patches)].review = "none"
      /\ slot[s].pc = 22 => patches[Len(patches)].report = "none"
  BY <1>1 DEF InStep
<1>3. DOMAIN patches = 1 .. Len(patches) /\ DOMAIN patches' = 1 .. Len(patches)
  BY LenProperties DEF FillsIn, IInv, Records
<1>4. patches'[Len(patches)] = patch /\ \A j \in 1 .. Len(patches) \ {Len(patches)} : patches'[j] = patches[j]
  BY <1>2 DEF FillsIn
<1>. QED  BY <1>2, <1>3, <1>4 DEF OnlyTheLast

LEMMA StepsFillOnlyTheLast ==
  ASSUME IInv, Evidence, IInv', [Next]_vars
  PROVE  OnlyTheLast
<1>1. CASE UNCHANGED patches
  BY <1>1 DEF OnlyTheLast
<1>2. ASSUME NEW s \in Slot, recordPatch(s)  PROVE OnlyTheLast
  <2>1. CASE UNCHANGED patches  BY <2>1, <1>1
  <2>2. CASE \E new : patches' = Append(patches, new)
    <3>1. PICK new : patches' = Append(patches, new)  BY <2>2
    <3>2. DOMAIN patches' = 1 .. Len(patches) + 1 /\ \A i \in 1 .. Len(patches) : patches'[i] = patches[i]
      BY <3>1 DEF IInv, Records
    <3>. QED  BY <3>2, Lengths DEF OnlyTheLast, IInv
  <2>. QED  BY <1>2, <2>1, <2>2, RecordingPatch
<1>3. ASSUME NEW s \in Slot, recordSecurityReview(s)  PROVE OnlyTheLast
  <2>1. slot[s].pc = 18 /\ slot[s].pc \in 16 .. 26
    <3>1. slot[s].pc = 18  BY <1>3, Reviewing
    <3>. QED  BY <3>1
  <2>2. ASSUME NEW decision \in securityDecision, FillsIn(s, [patches[slot[s].base + 1] EXCEPT !.review = decision])
        PROVE  OnlyTheLast
    <3>. DEFINE patch == [patches[slot[s].base + 1] EXCEPT !.review = decision]
    <3>1. patch.diff = patches[slot[s].base + 1].diff /\ patch.report = patches[slot[s].base + 1].report
      BY <2>1, OwnFields DEF Patch
    <3>2. FillsIn(s, patch)  BY <2>2
    <3>. HIDE DEF patch
    <3>. QED  BY <2>1, <3>1, <3>2, FillingOnlyTheLast
  <2>. QED  BY <1>1, <1>3, <2>2, Reviewing
<1>4. ASSUME NEW s \in Slot, recordVerification(s)  PROVE OnlyTheLast
  <2>1. slot[s].pc = 22 /\ slot[s].pc \in 16 .. 26
    <3>1. slot[s].pc = 22  BY <1>4, Verifying
    <3>. QED  BY <3>1
  <2>2. ASSUME NEW report, FillsIn(s, [patches[slot[s].base + 1] EXCEPT !.report = report])
        PROVE  OnlyTheLast
    <3>. DEFINE patch == [patches[slot[s].base + 1] EXCEPT !.report = report]
    <3>1. patch.diff = patches[slot[s].base + 1].diff /\ patch.review = patches[slot[s].base + 1].review
      BY <2>1, OwnFields DEF Patch
    <3>2. FillsIn(s, patch)  BY <2>2
    <3>. HIDE DEF patch
    <3>. QED  BY <2>1, <3>1, <3>2, FillingOnlyTheLast
  <2>. QED  BY <1>1, <1>4, <2>2, Verifying
<1>5. ASSUME NEW s \in Slot, recordPullRequestPackage(s)  PROVE OnlyTheLast
  <2>1. slot[s].pc = 25 /\ slot[s].pc \in 16 .. 26
    <3>1. slot[s].pc = 25  BY <1>5, Packaging
    <3>. QED  BY <3>1
  <2>2. ASSUME FillsIn(s, [patches[slot[s].base + 1] EXCEPT !.package = TRUE])
        PROVE  OnlyTheLast
    <3>. DEFINE patch == [patches[slot[s].base + 1] EXCEPT !.package = TRUE]
    <3>1. patch.diff = patches[slot[s].base + 1].diff /\ patch.review = patches[slot[s].base + 1].review
          /\ patch.report = patches[slot[s].base + 1].report
      BY <2>1, OwnFields DEF Patch
    <3>2. FillsIn(s, patch)  BY <2>2
    <3>. HIDE DEF patch
    <3>. QED  BY <2>1, <3>1, <3>2, FillingOnlyTheLast
  <2>. QED  BY <1>1, <1>5, <2>2, Packaging
<1>6. ASSUME NEW s \in Slot,
             \/ loadRecoveryContext(s) \/ restartForRetry(s) \/ checkpoint(s) \/ checkControl(s) \/ createWorktree(s)
             \/ recordWorktree(s) \/ generate(s) \/ applyPatch(s) \/ execute(s) \/ cleanUp(s) \/ complete(s)
             \/ releaseLease(s) \/ deliverJob(s) \/ reconcile(s)
      PROVE  UNCHANGED patches
  BY <1>6 DEF loadRecoveryContext, restartForRetry, checkpoint, checkControl, createWorktree, recordWorktree,
     generate, applyPatch, execute, cleanUp, complete, releaseLease, deliverJob, reconcile, Keep
<1>7. ASSUME \/ createRecovery \/ requestCancellation \/ resumeRecovery \/ LeaseLapses \/ LeaseExpires
             \/ (\E a \in Actor : Decide(a)) \/ (\E w \in {WorkerOf[s] : s \in Slot} : Crash(w))
      PROVE  UNCHANGED patches
  BY <1>7 DEF createRecovery, requestCancellation, resumeRecovery, LeaseLapses, LeaseExpires, Crash,
     Decide, getRecovery, requestRevision, decidePublication
<1>8. CASE UNCHANGED vars
  BY <1>1, <1>8 DEF vars
<1>. QED  BY <1>1, <1>2, <1>3, <1>4, <1>5, <1>6, <1>7, <1>8 DEF Next, Work

-----------------------------------------------------------------------------
(* What follows when no two calls share a process.                         *)

LEMMA Inductive ==
  ASSUME OneCallPerProcess
  PROVE  Spec => [](IInv /\ Evidence)
<1>1. Init => IInv /\ Evidence  BY IInvInit, EvidenceInit
<1>2. (IInv /\ Evidence) /\ [Next]_vars => (IInv /\ Evidence)'  BY IInvNext, EvidenceNext
<1>. QED  BY <1>1, <1>2, PTL DEF Spec

\* A recovery at the publication gate offers its last patch, with the review that
\* allowed it, the verification that passed and the package: whatever calls with
\* a lost lease, crashes, resumptions and revisions came in between.
THEOREM GateOffersEvidence ==
  ASSUME OneCallPerProcess
  PROVE  Spec => []GateIsEvidenced
<1>1. IInv /\ Evidence => GateIsEvidenced  BY DEF Evidence
<1>. QED  BY <1>1, Inductive, PTL

\* A recovery that is ready to publish has the approvals of its present patch
\* that the policy asks for, from people who were allowed to give them.
THEOREM ReadinessIsApproved ==
  ASSUME OneCallPerProcess
  PROVE  Spec => []ReadyIsApproved
<1>1. IInv /\ Evidence => ReadyIsApproved  BY DEF Evidence
<1>. QED  BY <1>1, Inductive, PTL

\* What was reviewed and verified does not change afterwards.
THEOREM EvidenceDoesNotChange ==
  ASSUME OneCallPerProcess
  PROVE  Spec => EvidenceIsKept
<1>1. IInv /\ Evidence /\ IInv' /\ [Next]_vars => OnlyTheLast  BY StepsFillOnlyTheLast
<1>2. OnlyTheLast
        <=> \A i \in DOMAIN patches :
              /\ i \in DOMAIN patches'
              /\ patches'[i].diff = patches[i].diff
              /\ patches[i].review # "none" => patches'[i].review = patches[i].review
              /\ patches[i].report # "none" => patches'[i].report = patches[i].report
              /\ patches'[i] # patches[i] => i = Len(patches)
  BY DEF OnlyTheLast
<1>. QED  BY <1>1, <1>2, Inductive, PTL DEF Spec, EvidenceIsKept
=============================================================================
