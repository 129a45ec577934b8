------------------------- MODULE Publication_proofs -------------------------
(***************************************************************************)
(* What holds of the publications of a recovery for any number of workers, *)
(* calls, branches, patches, approvals, faults and requests, and whatever  *)
(* people do on GitHub.  Nothing is assumed of how calls are spread over   *)
(* processes.                                                              *)
(***************************************************************************)
EXTENDS Publication, SequenceTheorems, TLAPS

\* How a run may fail.
Failure == {"PUBLICATION_BLOCKED", "SECURITY_BLOCKED", "BASE_BRANCH_STALE", "PUSH_FAILED",
            "PR_CREATION_FAILED", "CANCELLED"}

Recovery == [ready : BOOLEAN, patch : Patch, stamp : 1 .. MaxStamp]
PRow == [status : Status \cup {NotCreated}, owner : {WorkerOf[s] : s \in Slot} \cup {NoOne, Gone},
         live : BOOLEAN, attempts : Nat, branch : Branch, genuine : BOOLEAN, permitted : BOOLEAN,
         commit : Commit \cup {NoCommit}, pr : Nat]
PullRequest == [branch : Branch, head : Commit \cup {Pushed}, open : BOOLEAN]
Hub == [moved : BOOLEAN, ref : [Branch -> Commit \cup {NoCommit, Pushed}], prs : Seq(PullRequest)]
Local == [pc : 0 .. 18, patch : 0 .. MaxPatch, claimed : Status \cup {NotCreated}, stamp : 0 .. MaxStamp,
          commit : Commit \cup {NoCommit}, pr : Nat, outcome : Failure \cup {"none"}]
Used == [faults : 0 .. MaxFaults, requests : 0 .. MaxRequests]

\* A run claimed in such a status makes the commit itself.
Early(claimed) == publicationExecutionStage(claimed) < 3

\* A row that has a commit was found to be as approved, and the commit is its own.
\* A monitored row has a pull request.
RowOK(p, row) ==
  /\ row \in PRow
  /\ row.commit # NoCommit => /\ row.commit.patch = p /\ row.status # NotCreated
                              /\ row.genuine /\ row.permitted
  /\ row.status = "CI_MONITORING" => row.pr # 0

\* A pull request of the row's branch with its commit, or what a person pushed.
Draft(n, row, hub) ==
  /\ n \in DOMAIN hub.prs
  /\ hub.prs[n].branch = row.branch /\ hub.prs[n].head \in {row.commit, Pushed}

\* A branch carries a recorded commit or what a person pushed, and an open pull
\* request shows its branch.
HubOK(hub, rows) ==
  /\ hub \in Hub
  /\ \A b \in Branch : hub.ref[b] \in Commit =>
       rows[hub.ref[b].patch].commit = hub.ref[b] /\ rows[hub.ref[b].patch].branch = b
  /\ \A n \in DOMAIN hub.prs : hub.prs[n].open => hub.prs[n].head = hub.ref[hub.prs[n].branch]

\* What a call knows, by the step it has reached.
Fits(local, rows, hub) ==
  LET row == rows[local.patch] IN
  /\ local \in Local
  /\ local.pc # 0 =>
       /\ local.patch \in Patch /\ row.status # NotCreated
       /\ local.pc \in 3 .. 17 => row.genuine /\ row.permitted
       /\ local.pc \in 3 .. 6 => local.stamp # 0
       /\ local.pc \in {6, 7} => Early(local.claimed)
       /\ local.pc \in {3, 4, 5, 6, 8} => local.commit \in {NoCommit, row.commit}
       /\ local.pc = 7 => local.commit # NoCommit /\ local.commit.patch = local.patch
       /\ local.pc \in 9 .. 17 => local.commit = row.commit /\ row.commit # NoCommit
       /\ local.pc = 17 => local.pr # 0 /\ Draft(local.pr, row, hub)
       /\ local.pc = 18 => local.outcome \in Failure

\* The publication found or made its branch at its commit: a run of it is past
\* that step, or it has a pull request.
Passed(p, rows, slots) ==
  rows[p].pr # 0 \/ \E s \in Slot : slots[s].patch = p /\ slots[s].pc \in 12 .. 17

\* Such a branch is the publication's alone: it carries its commit or, on top, what
\* a person pushed.
Own(p, rows, hub) == rows[p].commit # NoCommit /\ hub.ref[rows[p].branch] \in {rows[p].commit, Pushed}

Passing(rows, hub, slots) ==
  /\ \A p \in Patch : Passed(p, rows, slots) => Own(p, rows, hub)
  /\ \A p, q \in Patch : Passed(p, rows, slots) /\ Passed(q, rows, slots) /\ p # q => rows[p].branch # rows[q].branch

Rows == run \in [Patch -> PRow] /\ \A p \in Patch : RowOK(p, run[p])
Drafts == \A p \in Patch : run[p].pr # 0 => Draft(run[p].pr, run[p], github)
Calls == slot \in [Slot -> Local] /\ \A s \in Slot : Fits(slot[s], run, github)

\* The inductive invariant.
IInv ==
  /\ recovery \in Recovery /\ used \in Used
  /\ Rows /\ Drafts /\ Calls /\ HubOK(github, run) /\ Passing(run, github, slot)

\* What may become of a row: once created it keeps what it was created with, and
\* its commit and its pull request are recorded once.
RowGrows(p, old, new) ==
  /\ RowOK(p, new)
  /\ old.status # NotCreated => /\ new.status # NotCreated /\ new.branch = old.branch
                                /\ new.genuine = old.genuine /\ new.permitted = old.permitted
  /\ old.commit # NoCommit => new.commit = old.commit
  /\ old.pr # 0 => new.pr = old.pr

\* What may become of the branches and pull requests.
HubGrows(old, new) ==
  /\ new \in Hub
  /\ \A b \in Branch : old.ref[b] # NoCommit => new.ref[b] \in {old.ref[b], Pushed}
  /\ \A n \in DOMAIN old.prs :
       /\ n \in DOMAIN new.prs /\ new.prs[n].branch = old.prs[n].branch
       /\ new.prs[n].head \in {old.prs[n].head, Pushed}

-----------------------------------------------------------------------------
(* The program of a run.                                                   *)

LEMMA ProgramSteps ==
  /\ Len(Program) = 18
  /\ Program[1] = "POLICY_CHECK" /\ Program[2] = "load" /\ Program[3] = "control"
  /\ Program[4] = "COMMIT_MATERIALIZING" /\ Program[5] = "token" /\ Program[6] = "materialize"
  /\ Program[7] = "recordMaterialization" /\ Program[8] = "verifyExisting" /\ Program[9] = "control"
  /\ Program[10] = "retryPush" /\ Program[11] = "branch" /\ Program[12] = "DRAFT_PR_CREATING"
  /\ Program[13] = "control" /\ Program[14] = "retryPr" /\ Program[15] = "base"
  /\ Program[16] = "pullRequest" /\ Program[17] = "recordPullRequest" /\ Program[18] = "failed"
BY DEF Program

\* Where a step stands in the program.
LEMMA Places ==
  ASSUME NEW i \in 1 .. 18
  PROVE  /\ Program[i] = "load" => i = 2
         /\ Program[i] = "token" => i = 5
         /\ Program[i] = "control" => i \in {3, 9, 13}
         /\ Program[i] = "materialize" => i = 6
         /\ Program[i] = "recordMaterialization" => i = 7
         /\ Program[i] = "verifyExisting" => i = 8
         /\ Program[i] = "branch" => i = 11
         /\ Program[i] = "base" => i = 15
         /\ Program[i] = "pullRequest" => i = 16
         /\ Program[i] = "recordPullRequest" => i = 17
         /\ Program[i] = "failed" => i = 18
         /\ Program[i] \in {"POLICY_CHECK", "COMMIT_MATERIALIZING", "DRAFT_PR_CREATING", "retryPush", "retryPr"}
              => i \in {1, 4, 10, 12, 14}
<1>1. \/ i = 1 \/ i = 2 \/ i = 3 \/ i = 4 \/ i = 5 \/ i = 6 \/ i = 7 \/ i = 8 \/ i = 9 \/ i = 10
      \/ i = 11 \/ i = 12 \/ i = 13 \/ i = 14 \/ i = 15 \/ i = 16 \/ i = 17 \/ i = 18
  OBVIOUS
<1>. QED  BY <1>1, ProgramSteps

\* The next needed step is the first one.
LEMMA FirstNeeded ==
  ASSUME NEW i \in 0 .. 17, NEW claimed, NEW j \in i + 1 .. 18, Needed(Program[j], claimed),
         \A k \in i + 1 .. j - 1 : ~Needed(Program[k], claimed)
  PROVE  NextNeeded(i, claimed) = j
<1>. DEFINE First(x) == Needed(Program[x], claimed) /\ \A k \in i + 1 .. x - 1 : ~Needed(Program[k], claimed)
<1>1. First(j)  OBVIOUS
<1>2. ASSUME NEW x \in i + 1 .. 18, First(x)  PROVE x = j
  <2>1. ~(x < j)
    <3>1. SUFFICES ASSUME x < j  PROVE FALSE  OBVIOUS
    <3>2. x \in i + 1 .. j - 1  BY <3>1
    <3>. QED  BY <1>2, <3>2
  <2>2. ~(j < x)
    <3>1. SUFFICES ASSUME j < x  PROVE FALSE  OBVIOUS
    <3>2. j \in i + 1 .. x - 1  BY <3>1
    <3>. QED  BY <1>2, <3>2
  <2>. QED  BY <2>1, <2>2
<1>. HIDE DEF First
<1>3. j = CHOOSE x \in i + 1 .. 18 : First(x)  BY <1>1, <1>2
<1>4. NextNeeded(i, claimed) = CHOOSE x \in i + 1 .. 18 : First(x)  BY ProgramSteps DEF NextNeeded, First
<1>. QED  BY <1>3, <1>4


LEMMA Needs ==
  ASSUME NEW claimed
  PROVE  /\ Needed("load", claimed) /\ Needed("control", claimed) /\ Needed("token", claimed)
         /\ Needed("branch", claimed) /\ Needed("base", claimed) /\ Needed("pullRequest", claimed)
         /\ Needed("recordPullRequest", claimed)
         /\ Needed("materialize", claimed) <=> Early(claimed)
         /\ Needed("recordMaterialization", claimed) <=> Early(claimed)
         /\ Needed("verifyExisting", claimed) <=> ~Early(claimed)
<1>1. publicationExecutionStage(claimed) \in 0 .. 5  BY DEF publicationExecutionStage
<1>2. publicationExecutionStage(claimed) >= 3 <=> ~(publicationExecutionStage(claimed) < 3)
  <2>. DEFINE stage == publicationExecutionStage(claimed)
  <2>1. stage \in 0 .. 5  BY <1>1
  <2>. HIDE DEF stage
  <2>2. stage >= 3 <=> ~(stage < 3)  BY <2>1
  <2>. QED  BY <2>2 DEF stage
<1>. QED  BY <1>2 DEF Needed, Early

\* From which step a run goes on to which.
LEMMA Onward ==
  ASSUME NEW claimed
  PROVE  /\ NextNeeded(0, claimed) \in {1, 2} /\ NextNeeded(1, claimed) = 2 /\ NextNeeded(2, claimed) = 3
         /\ NextNeeded(3, claimed) \in {4, 5} /\ NextNeeded(4, claimed) = 5
         /\ NextNeeded(5, claimed) = IF Early(claimed) THEN 6 ELSE 8
         /\ Early(claimed) => NextNeeded(6, claimed) = 7 /\ NextNeeded(7, claimed) = 9
         /\ NextNeeded(8, claimed) = 9 /\ NextNeeded(9, claimed) \in {10, 11} /\ NextNeeded(10, claimed) = 11
         /\ NextNeeded(11, claimed) \in {12, 13} /\ NextNeeded(12, claimed) = 13
         /\ NextNeeded(13, claimed) \in {14, 15} /\ NextNeeded(14, claimed) = 15
         /\ NextNeeded(15, claimed) = 16 /\ NextNeeded(16, claimed) = 17
<1>. DEFINE N(i) == Needed(Program[i], claimed)
<1>1. /\ N(2) /\ N(3) /\ N(5) /\ N(9) /\ N(11) /\ N(13) /\ N(15) /\ N(16) /\ N(17)
      /\ N(6) <=> Early(claimed)
      /\ N(7) <=> Early(claimed)
      /\ N(8) <=> ~Early(claimed)
  BY ProgramSteps, Needs
<1>. HIDE DEF N
\* The step after a place, when it is needed, and the one after that, when it is not.
<1>2. ASSUME NEW i \in 0 .. 17, N(i + 1)  PROVE NextNeeded(i, claimed) = i + 1
  <2>1. i + 1 \in i + 1 .. 18 /\ \A k \in i + 1 .. (i + 1) - 1 : FALSE  OBVIOUS
  <2>. QED  BY <1>2, <2>1, FirstNeeded DEF N
<1>3. ASSUME NEW i \in 0 .. 16, ~N(i + 1), N(i + 2)  PROVE NextNeeded(i, claimed) = i + 2
  <2>1. i \in 0 .. 17 /\ i + 2 \in i + 1 .. 18 /\ \A k \in i + 1 .. (i + 2) - 1 : k = i + 1  OBVIOUS
  <2>2. \A k \in i + 1 .. (i + 2) - 1 : ~N(k)  BY <1>3, <2>1
  <2>. QED  BY <1>3, <2>1, <2>2, FirstNeeded DEF N
<1>4. ~Early(claimed) => NextNeeded(5, claimed) = 8
  <2>1. SUFFICES ASSUME ~Early(claimed)  PROVE NextNeeded(5, claimed) = 8  OBVIOUS
  <2>2. ~N(6) /\ ~N(7) /\ N(8)  BY <1>1, <2>1
  <2>3. 8 \in 5 + 1 .. 18 /\ \A k \in 5 + 1 .. 8 - 1 : k = 6 \/ k = 7  OBVIOUS
  <2>. QED  BY <2>2, <2>3, FirstNeeded DEF N
<1>5. Early(claimed) => NextNeeded(7, claimed) = 9
  <2>1. SUFFICES ASSUME Early(claimed)  PROVE NextNeeded(7, claimed) = 9  OBVIOUS
  <2>2. 7 \in 0 .. 16 /\ ~N(7 + 1) /\ N(7 + 2)  BY <1>1, <2>1
  <2>. QED  BY <1>3, <2>2
<1>6. \A i \in {1, 2, 4, 8, 10, 12, 14, 15, 16} : NextNeeded(i, claimed) = i + 1
  <2>1. \A i \in {1, 2, 4, 8, 10, 12, 14, 15, 16} : i \in 0 .. 17 /\ N(i + 1)  BY <1>1
  <2>. QED  BY <1>2, <2>1
<1>7. \A i \in {0, 3, 9, 11, 13} : NextNeeded(i, claimed) \in {i + 1, i + 2}
  <2>1. \A i \in {0, 3, 9, 11, 13} : i \in 0 .. 16 /\ i \in 0 .. 17 /\ N(i + 2)  BY <1>1
  <2>. QED  BY <1>2, <1>3, <2>1
<1>8. Early(claimed) => NextNeeded(5, claimed) = 6 /\ NextNeeded(6, claimed) = 7
  <2>1. SUFFICES ASSUME Early(claimed)  PROVE NextNeeded(5, claimed) = 6 /\ NextNeeded(6, claimed) = 7  OBVIOUS
  <2>2. 5 \in 0 .. 17 /\ 6 \in 0 .. 17 /\ N(5 + 1) /\ N(6 + 1)  BY <1>1, <2>1
  <2>. QED  BY <1>2, <2>2
<1>. QED  BY <1>4, <1>5, <1>6, <1>7, <1>8


-----------------------------------------------------------------------------
(* What growth leaves true.                                                *)

LEMMA Commits ==
  /\ NoCommit \notin Commit /\ Pushed \notin Commit /\ NoCommit # Pushed
  /\ \A c \in Commit : c.patch \in Patch
BY PublicationAssumption DEF NoCommit, Pushed, Commit, Patch

LEMMA DraftKept ==
  ASSUME NEW p, NEW n, NEW row, NEW new, NEW hub, NEW hub2, Draft(n, row, hub), RowGrows(p, row, new), HubGrows(hub, hub2),
         row.status # NotCreated, row.commit # NoCommit
  PROVE  Draft(n, new, hub2)
BY DEF Draft, RowGrows, HubGrows

LEMMA FitsKept ==
  ASSUME NEW local, NEW rows, NEW rows2, NEW hub, NEW hub2, Fits(local, rows, hub), HubGrows(hub, hub2),
         \A p \in Patch : RowGrows(p, rows[p], rows2[p])
  PROVE  Fits(local, rows2, hub2)
<1>1. local \in Local  BY DEF Fits
<1>2. SUFFICES ASSUME local.pc # 0  PROVE Fits(local, rows2, hub2)  BY <1>1 DEF Fits
<1>. DEFINE p == local.patch
            row == rows[p]
            new == rows2[p]
<1>3. p \in Patch /\ row.status # NotCreated /\ RowGrows(p, row, new)  BY <1>2 DEF Fits
<1>4. /\ new.status # NotCreated /\ new.genuine = row.genuine /\ new.permitted = row.permitted
      /\ row.commit # NoCommit => new.commit = row.commit
  BY <1>3 DEF RowGrows
<1>5. CASE local.pc = 17
  <2>1. Draft(local.pr, row, hub) /\ row.commit # NoCommit /\ local.pr # 0 /\ local.commit = row.commit
        /\ row.genuine /\ row.permitted
    BY <1>5 DEF Fits
  <2>2. Draft(local.pr, new, hub2)  BY <1>3, <2>1, DraftKept
  <2>. QED  BY <1>1, <1>3, <1>4, <1>5, <2>1, <2>2 DEF Fits
<1>6. CASE local.pc # 17
  BY <1>1, <1>2, <1>3, <1>4, <1>6 DEF Fits
<1>. QED  BY <1>5, <1>6

LEMMA OwnKept ==
  ASSUME NEW p, NEW rows, NEW rows2, NEW hub, NEW hub2, HubGrows(hub, hub2), rows[p].branch \in Branch,
         RowOK(p, rows[p]), RowGrows(p, rows[p], rows2[p]), Own(p, rows, hub)
  PROVE  Own(p, rows2, hub2) /\ rows2[p].branch = rows[p].branch
<1>1. rows[p].status # NotCreated /\ rows2[p].branch = rows[p].branch /\ rows2[p].commit = rows[p].commit
  BY DEF RowOK, RowGrows, Own
<1>2. hub2.ref[rows[p].branch] \in {hub.ref[rows[p].branch], Pushed}
  BY Commits DEF HubGrows, Own
<1>. QED  BY <1>1, <1>2 DEF Own

LEMMA PassingKept ==
  ASSUME NEW rows, NEW rows2, NEW hub, NEW hub2, NEW slots, NEW slots2, Passing(rows, hub, slots), HubGrows(hub, hub2),
         \A p \in Patch : RowOK(p, rows[p]) /\ RowGrows(p, rows[p], rows2[p]),
         \A p \in Patch : Passed(p, rows2, slots2) => Passed(p, rows, slots)
  PROVE  Passing(rows2, hub2, slots2)
<1>1. ASSUME NEW p \in Patch, Passed(p, rows2, slots2)
      PROVE  Own(p, rows2, hub2) /\ rows2[p].branch = rows[p].branch
  <2>1. Own(p, rows, hub)  BY <1>1 DEF Passing
  <2>2. rows[p].branch \in Branch  BY DEF RowOK, PRow
  <2>. QED  BY <2>1, <2>2, OwnKept
<1>. QED  BY <1>1 DEF Passing

LEMMA BranchesKept ==
  ASSUME NEW rows, NEW rows2, NEW hub, HubOK(hub, rows),
         \A p \in Patch : RowOK(p, rows[p]) /\ RowGrows(p, rows[p], rows2[p])
  PROVE  HubOK(hub, rows2)
<1>1. ASSUME NEW b \in Branch, hub.ref[b] \in Commit
      PROVE  rows2[hub.ref[b].patch].commit = hub.ref[b] /\ rows2[hub.ref[b].patch].branch = b
  <2>. DEFINE q == hub.ref[b].patch
  <2>1. q \in Patch /\ rows[q].commit = hub.ref[b] /\ rows[q].branch = b /\ rows[q].commit # NoCommit
    BY <1>1, Commits DEF HubOK
  <2>2. RowOK(q, rows[q]) /\ RowGrows(q, rows[q], rows2[q])  BY <2>1
  <2>. QED  BY <2>1, <2>2 DEF RowOK, RowGrows
<1>. QED  BY <1>1 DEF HubOK

LEMMA SameHub ==
  ASSUME NEW hub \in Hub
  PROVE  HubGrows(hub, hub)
BY DEF HubGrows

LEMMA SameRow ==
  ASSUME NEW p, NEW row, RowOK(p, row)
  PROVE  RowGrows(p, row, row)
BY DEF RowGrows


\* A step that grows the rows and the branches, moves one call or none, and takes
\* nobody past the branch.
LEMMA Growing ==
  ASSUME IInv, recovery' \in Recovery, used' \in Used, run' \in [Patch -> PRow],
         \A p \in Patch : RowGrows(p, run[p], run'[p]),
         HubGrows(github, github'), HubOK(github', run'),
         \A p \in Patch : run'[p].pr = run[p].pr \/ Draft(run'[p].pr, run'[p], github'),
         slot' \in [Slot -> Local], \A s \in Slot : slot'[s] = slot[s] \/ Fits(slot'[s], run', github'),
         Passing(run', github', slot')
  PROVE  IInv'
<1>1. Rows'  BY DEF Rows, RowGrows
<1>2. ASSUME NEW p \in Patch, run'[p].pr # 0  PROVE Draft(run'[p].pr, run'[p], github')
  <2>1. CASE run'[p].pr = run[p].pr
    <3>1. Draft(run[p].pr, run[p], github)  BY <1>2, <2>1 DEF IInv, Drafts
    <3>2. Passed(p, run, slot)  BY <1>2, <2>1 DEF Passed
    <3>3. run[p].commit # NoCommit  BY <3>2 DEF IInv, Passing, Own
    <3>4. run[p].status # NotCreated  BY <3>3 DEF IInv, Rows, RowOK
    <3>5. Draft(run[p].pr, run'[p], github')  BY <3>1, <3>3, <3>4, DraftKept
    <3>. QED  BY <2>1, <3>5
  <2>. QED  BY <1>2, <2>1
<1>3. Drafts'  BY <1>2 DEF Drafts
<1>4. ASSUME NEW s \in Slot  PROVE Fits(slot'[s], run', github')
  <2>1. CASE slot'[s] = slot[s]
    <3>1. Fits(slot[s], run, github)  BY DEF IInv, Calls
    <3>2. Fits(slot[s], run', github')  BY <3>1, FitsKept
    <3>. QED  BY <2>1, <3>2
  <2>. QED  BY <2>1
<1>5. Calls'  BY <1>4 DEF Calls
<1>. QED  BY <1>1, <1>3, <1>5 DEF IInv

\* Nobody is past the branch who was not.
LEMMA NobodyPasses ==
  ASSUME IInv, \A p \in Patch : RowGrows(p, run[p], run'[p]), HubGrows(github, github'),
         \A p \in Patch : Passed(p, run', slot') => Passed(p, run, slot)
  PROVE  Passing(run', github', slot')
<1>1. \A p \in Patch : RowOK(p, run[p])  BY DEF IInv, Rows
<1>. QED  BY <1>1, PassingKept DEF IInv

LEMMA GithubKept ==
  ASSUME IInv, UNCHANGED github, \A p \in Patch : RowGrows(p, run[p], run'[p])
  PROVE  HubGrows(github, github') /\ HubOK(github', run')
<1>1. HubGrows(github, github)  BY SameHub DEF IInv, HubOK
<1>2. HubOK(github, run')  BY BranchesKept DEF IInv, Rows
<1>. QED  BY <1>1, <1>2

LEMMA RowsKept ==
  ASSUME IInv, UNCHANGED run
  PROVE  run' \in [Patch -> PRow] /\ \A p \in Patch : RowGrows(p, run[p], run'[p]) /\ run'[p].pr = run[p].pr
BY SameRow DEF IInv, Rows

\* A step of a call that touches nothing else.
LEMMA CallMoves ==
  ASSUME IInv, NEW s \in Slot, NEW local, UNCHANGED <<recovery, run, github, used>>,
         slot' = [slot EXCEPT ![s] = local], Fits(local, run, github),
         local.pc \in 12 .. 17 => slot[s].pc \in 12 .. 17 /\ local.patch = slot[s].patch
  PROVE  IInv'
<1>1. recovery' \in Recovery /\ used' \in Used  BY DEF IInv
<1>2. HubGrows(github, github') /\ HubOK(github', run')  BY RowsKept, GithubKept
<1>3. local \in Local  BY DEF Fits
<1>4. slot' \in [Slot -> Local] /\ \A t \in Slot : slot'[t] = IF t = s THEN local ELSE slot[t]
  BY <1>3 DEF IInv, Calls
<1>5. \A t \in Slot : slot'[t] = slot[t] \/ Fits(slot'[t], run', github')  BY <1>4
<1>6. \A p \in Patch : Passed(p, run', slot') => Passed(p, run, slot)  BY <1>4 DEF Passed
<1>. QED  BY <1>1, <1>2, <1>4, <1>5, <1>6, RowsKept, NobodyPasses, Growing

\* A change of one row, with a call or without.
LEMMA RowMoves ==
  ASSUME IInv, NEW p \in Patch, NEW new, run' = [run EXCEPT ![p] = new], RowGrows(p, run[p], new),
         new.pr = run[p].pr \/ (Draft(new.pr, new, github) /\ Passed(p, run, slot)),
         UNCHANGED <<recovery, github>>, used' \in Used,
         slot' \in [Slot -> Local], \A t \in Slot : slot'[t] = slot[t] \/ Fits(slot'[t], run', github'),
         \A t \in Slot : slot'[t].pc \in 12 .. 17 => slot[t].pc \in 12 .. 17 /\ slot'[t].patch = slot[t].patch
  PROVE  IInv'
<1>1. new \in PRow  BY DEF RowGrows, RowOK
<1>2. run' \in [Patch -> PRow] /\ \A q \in Patch : run'[q] = IF q = p THEN new ELSE run[q]  BY <1>1 DEF IInv, Rows
<1>3. \A q \in Patch : RowGrows(q, run[q], run'[q])  BY <1>2, SameRow DEF IInv, Rows
<1>4. HubGrows(github, github') /\ HubOK(github', run')  BY <1>3, GithubKept
<1>5. \A q \in Patch : run'[q].pr = run[q].pr \/ Draft(run'[q].pr, run'[q], github')  BY <1>2
<1>6. \A q \in Patch : Passed(q, run', slot') => Passed(q, run, slot)  BY <1>2 DEF Passed
<1>7. recovery' \in Recovery  BY DEF IInv
<1>. QED  BY <1>2, <1>3, <1>4, <1>5, <1>6, <1>7, NobodyPasses, Growing


-----------------------------------------------------------------------------
(* The steps of a call.                                                    *)

\* The place of a call that goes on, and of one whose exception handler runs.
Further(local) == [local EXCEPT !.pc = NextNeeded(@, local.claimed)]
Failed(place, p, status) == [Idle EXCEPT !.pc = place, !.patch = p, !.outcome = status]

LEMMA FurtherLocal ==
  ASSUME NEW local \in Local, NEW next \in 1 .. 18, NextNeeded(local.pc, local.claimed) = next
  PROVE  /\ Further(local) \in Local /\ Further(local).pc = next
         /\ Further(local).patch = local.patch /\ Further(local).claimed = local.claimed
         /\ Further(local).stamp = local.stamp /\ Further(local).commit = local.commit
         /\ Further(local).pr = local.pr
<1>1. Further(local) = [local EXCEPT !.pc = next]  BY DEF Further
<1>. DEFINE new == [local EXCEPT !.pc = next]
<1>2. /\ new \in Local /\ new.pc = next /\ new.patch = local.patch /\ new.claimed = local.claimed
      /\ new.stamp = local.stamp /\ new.commit = local.commit /\ new.pr = local.pr
  BY DEF Local
<1>. QED  BY <1>1, <1>2

LEMMA IdleLocal == Idle \in Local /\ Idle.pc = 0 /\ Idle.pr = 0 /\ Idle.commit = NoCommit
BY PublicationAssumption DEF Idle, Local

LEMMA FailedLocal ==
  ASSUME NEW place \in 0 .. 18, NEW p \in Patch, NEW status \in Failure
  PROVE  /\ Failed(place, p, status) \in Local /\ Failed(place, p, status).pc = place
         /\ Failed(place, p, status).patch = p /\ Failed(place, p, status).outcome = status
<1>1. p \in 0 .. MaxPatch  BY PublicationAssumption DEF Patch
<1>. QED  BY <1>1, IdleLocal DEF Failed, Local

LEMMA Failures ==
  ASSUME NEW s \in Slot
  PROVE  /\ stageFailureStatus(s) \in Failure
         /\ \A from : transitionFailure(s, from) \in Failure
         /\ createInstallationToken \subseteq Failure /\ gitObjects \subseteq Failure
         /\ parseUnifiedDiffFiles \subseteq Failure /\ applyFileHunks \subseteq Failure
         /\ \A p : verifyPublicationBundle(p) \in Failure \cup {"ok"}
BY DEF stageFailureStatus, transitionFailure, createInstallationToken, gitObjects, parseUnifiedDiffFiles,
       applyFileHunks, verifyPublicationBundle, Failure

\* A call that fails is at its exception handler.
LEMMA FailsTo ==
  ASSUME IInv, NEW s \in Slot, Running(s), NEW status \in Failure, Fail(s, status)
  PROVE  \E local : /\ slot' = [slot EXCEPT ![s] = local]
                    /\ Fits(local, run, github) /\ local.pc = 18
<1>. DEFINE local == Failed(Len(Program), slot[s].patch, status)
<1>1. slot[s].patch \in Patch /\ run[slot[s].patch].status # NotCreated
  BY DEF IInv, Calls, Fits, Running
<1>2. slot' = [slot EXCEPT ![s] = local]  BY DEF Fail, Failed
<1>3. local \in Local /\ local.pc = 18 /\ local.patch = slot[s].patch /\ local.outcome = status
  BY <1>1, ProgramSteps, FailedLocal
<1>. HIDE DEF local
<1>4. Fits(local, run, github)  BY <1>1, <1>3 DEF Fits
<1>. QED  BY <1>2, <1>3, <1>4

LEMMA Failing ==
  ASSUME IInv, NEW s \in Slot, Running(s), NEW status \in Failure, Fail(s, status),
         UNCHANGED <<recovery, run, github, used>>
  PROVE  IInv'
<1>1. PICK local : slot' = [slot EXCEPT ![s] = local] /\ Fits(local, run, github) /\ local.pc = 18
  BY FailsTo
<1>2. local.pc \notin 12 .. 17  BY <1>1
<1>. QED  BY <1>1, <1>2, CallMoves

LEMMA GithubFailing ==
  ASSUME IInv, NEW s \in Slot, Running(s), githubFailure(s), UNCHANGED <<recovery, run, github, used>>
  PROVE  IInv'
<1>1. PICK status \in {"PUBLICATION_BLOCKED", stageFailureStatus(s)} : Fail(s, status)  BY DEF githubFailure
<1>2. status \in Failure  BY Failures DEF Failure
<1>. QED  BY <1>1, <1>2, Failing

\* A call that goes on with what it has.
LEMMA Simple ==
  ASSUME NEW local, NEW rows, NEW hub, Fits(local, rows, hub), local.pc \in {1, 3, 4, 5, 9, 10, 12, 13, 14, 15}
  PROVE  /\ Fits(Further(local), rows, hub)
         /\ Further(local).pc \in 12 .. 17 => local.pc \in 12 .. 17 /\ Further(local).patch = local.patch
<1>. DEFINE claimed == local.claimed
            next == NextNeeded(local.pc, claimed)
            new == Further(local)
<1>1. local \in Local  BY DEF Fits
<1>2. /\ local.pc = 1 => next = 2
      /\ local.pc = 3 => next \in {4, 5}
      /\ local.pc = 4 => next = 5
      /\ local.pc = 5 => (next = 6 /\ Early(claimed)) \/ next = 8
      /\ local.pc = 9 => next \in {10, 11}
      /\ local.pc = 10 => next = 11
      /\ local.pc = 12 => next = 13
      /\ local.pc = 13 => next \in {14, 15}
      /\ local.pc = 14 => next = 15
      /\ local.pc = 15 => next = 16
  BY Onward
<1>. HIDE DEF next
<1>3. next \in 1 .. 18  BY <1>2
<1>4. /\ new \in Local /\ new.pc = next /\ new.patch = local.patch /\ new.claimed = claimed
      /\ new.stamp = local.stamp /\ new.commit = local.commit
  BY <1>1, <1>3, FurtherLocal DEF next
<1>. HIDE DEF new, claimed
<1>5. /\ local.patch \in Patch /\ rows[local.patch].status # NotCreated
      /\ local.pc \in 3 .. 17 => rows[local.patch].genuine /\ rows[local.patch].permitted
      /\ local.pc \in 3 .. 6 => local.stamp # 0
      /\ local.pc \in {3, 4, 5, 6, 8} => local.commit \in {NoCommit, rows[local.patch].commit}
      /\ local.pc \in 9 .. 17 => local.commit = rows[local.patch].commit /\ rows[local.patch].commit # NoCommit
  BY DEF Fits
<1>6. Fits(new, rows, hub) /\ (new.pc \in 12 .. 17 => local.pc \in 12 .. 17 /\ new.patch = local.patch)
  <2>1. CASE local.pc = 1
    BY <1>2, <1>4, <1>5, <2>1 DEF Fits
  <2>2. CASE local.pc \in {3, 4}
    <3>1. next \in {4, 5}  BY <1>2, <2>2
    <3>2. local.pc \in 3 .. 17 /\ local.pc \in 3 .. 6 /\ local.pc \in {3, 4, 5, 6, 8}  BY <2>2
    <3>3. next \notin {6, 7} /\ next # 7 /\ next \notin 9 .. 17 /\ next # 17 /\ next # 18 /\ next \notin 12 .. 17  BY <3>1
    <3>. QED  BY <1>4, <1>5, <3>1, <3>2, <3>3 DEF Fits
  <2>3. CASE local.pc = 5
    <3>1. (next = 6 /\ Early(claimed)) \/ next = 8  BY <1>2, <2>3
    <3>2. local.pc \in 3 .. 17 /\ local.pc \in 3 .. 6 /\ local.pc \in {3, 4, 5, 6, 8}  BY <2>3
    <3>3. next # 7 /\ next \notin 9 .. 17 /\ next # 17 /\ next # 18 /\ next \notin 12 .. 17  BY <3>1
    <3>4. next \in {6, 7} => Early(claimed)  BY <3>1
    <3>. QED  BY <1>4, <1>5, <3>2, <3>3, <3>4 DEF Fits
  <2>4. CASE local.pc \in {9, 10, 12, 13, 14, 15}
    <3>1. next \in {10, 11, 13, 14, 15, 16}  BY <1>2, <2>4
    <3>2. local.pc \in 3 .. 17 /\ local.pc \in 9 .. 17  BY <2>4
    <3>3. next \notin 3 .. 6 /\ next \notin {6, 7} /\ next \notin {3, 4, 5, 6, 8} /\ next # 7 /\ next # 17 /\ next # 18
      BY <3>1
    <3>4. next \in 12 .. 17 => local.pc \in 12 .. 17  BY <1>2, <2>4
    <3>. QED  BY <1>4, <1>5, <3>2, <3>3, <3>4 DEF Fits
  <2>. QED  BY <2>1, <2>2, <2>3, <2>4
<1>. QED  BY <1>6 DEF new

\* Where a call stands.
LEMMA Standing ==
  ASSUME IInv, NEW s \in Slot, Running(s)
  PROVE  /\ slot[s] \in Local /\ slot[s].pc \in 1 .. 18 /\ Fits(slot[s], run, github)
         /\ slot[s].patch \in Patch /\ run[slot[s].patch].status # NotCreated
<1>1. Fits(slot[s], run, github)  BY DEF IInv, Calls
<1>. QED  BY <1>1 DEF Fits, Local, Running

-----------------------------------------------------------------------------
(* What may become of a row.                                               *)

LEMMA Statuses ==
  /\ NotCreated \notin Status
  /\ Failure \subseteq Status /\ "CI_MONITORING" \notin Failure
  /\ InFlight \subseteq Status /\ Executable \subseteq Status
  /\ "CI_MONITORING" \notin Retryable /\ NotCreated \notin Retryable /\ "CANCELLED" \notin Retryable
  /\ NotCreated \notin Executable
  /\ \A to : assertPublicationTransition("CANCELLED", to) => to = "CANCELLED"
<1>1. "CANCELLED" \in Status /\ transitions["CANCELLED"] = {}  BY DEF Status, transitions
<1>. QED
  BY <1>1 DEF NotCreated, Status, Failure, InFlight, Executable, Retryable, assertPublicationTransition

\* Another status.
LEMMA StatusChanges ==
  ASSUME NEW p, NEW row, RowOK(p, row), row.status # NotCreated, NEW to \in Status, to # "CI_MONITORING"
  PROVE  RowGrows(p, row, [row EXCEPT !.status = to]) /\ [row EXCEPT !.status = to].pr = row.pr
<1>. DEFINE new == [row EXCEPT !.status = to]
<1>1. row \in PRow  BY DEF RowOK
<1>2. /\ new \in PRow /\ new.status = to /\ new.branch = row.branch /\ new.genuine = row.genuine
      /\ new.permitted = row.permitted /\ new.commit = row.commit /\ new.pr = row.pr
  BY <1>1 DEF PRow
<1>. HIDE DEF new
<1>3. to # NotCreated  BY Statuses
<1>4. RowOK(p, new)  BY <1>2, <1>3 DEF RowOK
<1>5. RowGrows(p, row, new) /\ new.pr = row.pr  BY <1>2, <1>3, <1>4 DEF RowGrows
<1>. QED  BY <1>5 DEF new

\* The lease of a new attempt.
Claimed(row, owner) == [row EXCEPT !.owner = owner, !.live = TRUE, !.attempts = IF @ > MaxAttempts THEN @ ELSE @ + 1]

LEMMA ClaimChanges ==
  ASSUME NEW p, NEW row, RowOK(p, row), NEW owner \in {WorkerOf[s] : s \in Slot} \cup {NoOne, Gone}
  PROVE  RowGrows(p, row, Claimed(row, owner)) /\ Claimed(row, owner).pr = row.pr
<1>. DEFINE attempts == IF row.attempts > MaxAttempts THEN row.attempts ELSE row.attempts + 1
            new == [row EXCEPT !.owner = owner, !.live = TRUE, !.attempts = attempts]
<1>1. row \in PRow  BY DEF RowOK
<1>2. attempts \in Nat  BY <1>1 DEF PRow
<1>3. Claimed(row, owner) = new  BY DEF Claimed
<1>. HIDE DEF attempts
<1>4. /\ new \in PRow /\ new.status = row.status /\ new.branch = row.branch /\ new.genuine = row.genuine
      /\ new.permitted = row.permitted /\ new.commit = row.commit /\ new.pr = row.pr
  BY <1>1, <1>2 DEF PRow
<1>. HIDE DEF new
<1>5. RowOK(p, new)  BY <1>4 DEF RowOK
<1>6. RowGrows(p, row, new) /\ new.pr = row.pr  BY <1>4, <1>5 DEF RowGrows
<1>. QED  BY <1>3, <1>6

\* The rows in a state of the invariant.
LEMMA RowOf ==
  ASSUME IInv, NEW p \in Patch
  PROVE  run[p] \in PRow /\ RowOK(p, run[p])
BY DEF IInv, Rows

LEMMA Spending ==
  ASSUME used \in Used, Break \/ Ask \/ UNCHANGED used
  PROVE  used' \in Used
<1>1. CASE Break
  <2>. DEFINE n == used.faults + 1
  <2>1. n \in 0 .. MaxFaults  BY <1>1, PublicationAssumption DEF Break, Used
  <2>2. used' = [used EXCEPT !.faults = n]  BY <1>1 DEF Break
  <2>. HIDE DEF n
  <2>. QED  BY <2>1, <2>2 DEF Used
<1>2. CASE Ask
  <2>. DEFINE n == used.requests + 1
  <2>1. n \in 0 .. MaxRequests  BY <1>2, PublicationAssumption DEF Ask, Used
  <2>2. used' = [used EXCEPT !.requests = n]  BY <1>2 DEF Ask
  <2>. HIDE DEF n
  <2>. QED  BY <2>1, <2>2 DEF Used
<1>. QED  BY <1>1, <1>2

\* A row that changes while every call stays where it is.
LEMMA RowAlone ==
  ASSUME IInv, NEW p \in Patch, NEW new, run' = [run EXCEPT ![p] = new], RowGrows(p, run[p], new),
         new.pr = run[p].pr, UNCHANGED <<recovery, github, slot>>, Break \/ Ask \/ UNCHANGED used
  PROVE  IInv'
<1>1. used' \in Used  BY Spending DEF IInv
<1>2. slot' \in [Slot -> Local] /\ \A t \in Slot : slot'[t] = slot[t]  BY DEF IInv, Calls
<1>. QED  BY <1>1, <1>2, RowMoves

LEMMA CreateStep ==
  ASSUME IInv, NEW p \in Patch, NEW b \in Branch, NEW genuine \in BOOLEAN, NEW permitted \in BOOLEAN,
         createPublication(p, b, genuine, permitted)
  PROVE  IInv'
<1>. DEFINE row == run[p]
            new == [row EXCEPT !.status = "PUBLICATION_REQUESTED", !.branch = b,
                               !.genuine = genuine, !.permitted = permitted]
<1>1. row \in PRow /\ RowOK(p, row) /\ row.status = NotCreated  BY RowOf DEF createPublication
<1>2. "PUBLICATION_REQUESTED" \in Status  BY DEF Status, Executable, InFlight
<1>3. /\ new \in PRow /\ new.status = "PUBLICATION_REQUESTED" /\ new.commit = row.commit /\ new.pr = row.pr
  BY <1>1, <1>2 DEF PRow
<1>4. run' = [run EXCEPT ![p] = new]  BY DEF createPublication
<1>. HIDE DEF new
<1>5. row.commit = NoCommit  BY <1>1 DEF RowOK
<1>6. RowGrows(p, row, new)  BY <1>1, <1>3, <1>5 DEF RowGrows, RowOK
<1>. QED  BY <1>3, <1>4, <1>6, RowAlone DEF createPublication

LEMMA TransitionStep ==
  ASSUME IInv, NEW p \in Patch, run[p].status # NotCreated, NEW to \in Status, to # "CI_MONITORING", transition(p, to)
  PROVE  IInv'
<1>1. RowGrows(p, run[p], [run[p] EXCEPT !.status = to]) /\ [run[p] EXCEPT !.status = to].pr = run[p].pr
  BY RowOf, StatusChanges
<1>2. run' = [run EXCEPT ![p] = [run[p] EXCEPT !.status = to]]  BY DEF transition
<1>. QED  BY <1>1, <1>2, RowAlone DEF transition

LEMMA LeaseStep ==
  ASSUME IInv, NEW p \in Patch, LeaseLapses(p) \/ LeaseExpires(p)
  PROVE  IInv'
<1>. DEFINE row == run[p]
            new == [row EXCEPT !.live = FALSE]
<1>1. row \in PRow /\ RowOK(p, row)  BY RowOf
<1>2. /\ new \in PRow /\ new.status = row.status /\ new.branch = row.branch /\ new.genuine = row.genuine
      /\ new.permitted = row.permitted /\ new.commit = row.commit /\ new.pr = row.pr
  BY <1>1 DEF PRow
<1>3. run' = [run EXCEPT ![p] = new]  BY DEF LeaseLapses, LeaseExpires
<1>. HIDE DEF new
<1>4. RowGrows(p, row, new)  BY <1>1, <1>2 DEF RowGrows, RowOK
<1>. QED  BY <1>2, <1>3, <1>4, RowAlone DEF LeaseLapses, LeaseExpires

\* The recovery changes and nothing else.
LEMMA RecoveryStep ==
  ASSUME IInv, approveAgain \/ withdraw \/ approveRevision
  PROVE  IInv'
<1>1. recovery' \in Recovery
  <2>1. recovery \in Recovery  BY DEF IInv
  <2>2. CASE approveAgain
    <3>. DEFINE n == recovery.stamp + 1
    <3>1. n \in 1 .. MaxStamp  BY <2>1, <2>2, PublicationAssumption DEF approveAgain, Recovery
    <3>2. recovery' = [recovery EXCEPT !.stamp = n]  BY <2>2 DEF approveAgain
    <3>. HIDE DEF n
    <3>. QED  BY <2>1, <3>1, <3>2 DEF Recovery
  <2>3. CASE withdraw
    BY <2>1, <2>3 DEF withdraw, Recovery
  <2>4. CASE approveRevision
    <3>. DEFINE n == recovery.patch + 1
    <3>1. n \in Patch /\ 1 \in 1 .. MaxStamp  BY <2>1, <2>4, PublicationAssumption DEF approveRevision, Recovery, Patch
    <3>2. recovery' = [ready |-> TRUE, patch |-> n, stamp |-> 1]  BY <2>4 DEF approveRevision
    <3>. HIDE DEF n
    <3>. QED  BY <3>1, <3>2 DEF Recovery
  <2>. QED  BY <2>2, <2>3, <2>4
<1>2. UNCHANGED <<run, github, slot>> /\ used' \in Used
  BY Spending DEF IInv, approveAgain, withdraw, approveRevision
<1>3. /\ run' \in [Patch -> PRow]
      /\ \A p \in Patch : RowGrows(p, run[p], run'[p]) /\ run'[p].pr = run[p].pr
  BY <1>2, RowsKept
<1>4. HubGrows(github, github') /\ HubOK(github', run')  BY <1>2, <1>3, GithubKept
<1>5. slot' \in [Slot -> Local] /\ \A s \in Slot : slot'[s] = slot[s]  BY <1>2 DEF IInv, Calls
<1>6. Passing(run', github', slot')  BY <1>2 DEF IInv
<1>. QED  BY <1>1, <1>2, <1>3, <1>4, <1>5, <1>6, Growing

-----------------------------------------------------------------------------
(* What people do on GitHub.                                               *)

LEMMA HubAlone ==
  ASSUME IInv, UNCHANGED <<recovery, run, slot>>, Ask, HubGrows(github, github'), HubOK(github', run)
  PROVE  IInv'
<1>1. recovery' \in Recovery /\ used' \in Used  BY Spending DEF IInv
<1>2. /\ run' \in [Patch -> PRow]
      /\ \A p \in Patch : RowGrows(p, run[p], run'[p]) /\ run'[p].pr = run[p].pr
  BY RowsKept
<1>3. HubOK(github', run')  OBVIOUS
<1>4. slot' \in [Slot -> Local] /\ \A s \in Slot : slot'[s] = slot[s]  BY DEF IInv, Calls
<1>5. \A p \in Patch : Passed(p, run', slot') => Passed(p, run, slot)  OBVIOUS
<1>6. Passing(run', github', slot')  BY <1>2, <1>5, NobodyPasses
<1>. QED  BY <1>1, <1>2, <1>3, <1>4, <1>6, Growing

LEMMA BaseStep ==
  ASSUME IInv, baseMoves
  PROVE  IInv'
<1>1. github \in Hub /\ HubOK(github, run)  BY DEF IInv, HubOK
<1>2. github' \in Hub /\ github'.ref = github.ref /\ github'.prs = github.prs  BY <1>1 DEF baseMoves, Hub
<1>3. HubGrows(github, github') /\ HubOK(github', run)  BY <1>1, <1>2 DEF HubGrows, HubOK
<1>. QED  BY <1>3, HubAlone DEF baseMoves

LEMMA PushStep ==
  ASSUME IInv, NEW b \in Branch, pushToBranch(b)
  PROVE  IInv'
<1>. DEFINE ref == [github.ref EXCEPT ![b] = Pushed]
            prs == [n \in DOMAIN github.prs |->
                      IF n \in findOpenPullRequest(b) THEN [github.prs[n] EXCEPT !.head = Pushed] ELSE github.prs[n]]
<1>1. github \in Hub /\ HubOK(github, run)  BY DEF IInv, HubOK
<1>2. github' = [github EXCEPT !.ref = ref, !.prs = prs]  BY <1>1 DEF pushToBranch, Hub
<1>3. github.prs \in Seq(PullRequest) /\ github.ref \in [Branch -> Commit \cup {NoCommit, Pushed}]  BY <1>1 DEF Hub
<1>4. /\ ref \in [Branch -> Commit \cup {NoCommit, Pushed}]
      /\ \A c \in Branch : ref[c] = IF c = b THEN Pushed ELSE github.ref[c]
  BY <1>3
<1>5. DOMAIN github.prs = 1 .. Len(github.prs) /\ Len(github.prs) \in Nat
      /\ \A n \in 1 .. Len(github.prs) : github.prs[n] \in PullRequest
  BY <1>3
<1>6. \A n \in DOMAIN github.prs :
        /\ prs[n] \in PullRequest
        /\ prs[n].branch = github.prs[n].branch /\ prs[n].open = github.prs[n].open
        /\ prs[n].head = IF n \in findOpenPullRequest(b) THEN Pushed ELSE github.prs[n].head
  BY <1>5 DEF PullRequest
<1>7. prs \in [1 .. Len(github.prs) -> PullRequest] /\ DOMAIN prs = DOMAIN github.prs  BY <1>5, <1>6
<1>. HIDE DEF ref, prs
<1>8. prs \in Seq(PullRequest)  BY <1>5, <1>7, SeqDef
<1>9. github' \in Hub /\ github'.ref = ref /\ github'.prs = prs  BY <1>1, <1>2, <1>4, <1>8 DEF Hub
<1>10. HubGrows(github, github')  BY <1>4, <1>6, <1>7, <1>9 DEF HubGrows
<1>11. \A n \in DOMAIN prs : prs[n].open => prs[n].head = ref[prs[n].branch]
  BY <1>1, <1>4, <1>5, <1>6, <1>7 DEF findOpenPullRequest, HubOK, PullRequest
<1>12. \A c \in Branch : ref[c] \in Commit => ref[c] = github.ref[c]  BY <1>4, Commits
<1>13. HubOK(github', run)  BY <1>1, <1>9, <1>11, <1>12 DEF HubOK
<1>. QED  BY <1>10, <1>13, HubAlone DEF pushToBranch

LEMMA CloseStep ==
  ASSUME IInv, NEW n \in DOMAIN github.prs, closePullRequest(n)
  PROVE  IInv'
<1>. DEFINE pr == [github.prs[n] EXCEPT !.open = FALSE]
            prs == [github.prs EXCEPT ![n] = pr]
<1>1. github \in Hub /\ HubOK(github, run)  BY DEF IInv, HubOK
<1>2. github' = [github EXCEPT !.prs = prs]  BY <1>1 DEF closePullRequest, Hub
<1>3. github.prs \in Seq(PullRequest)  BY <1>1 DEF Hub
<1>4. pr \in PullRequest /\ pr.branch = github.prs[n].branch /\ pr.head = github.prs[n].head /\ ~pr.open
  <2>1. github.prs[n] \in PullRequest  BY <1>3
  <2>. QED  BY <2>1 DEF PullRequest
<1>. HIDE DEF pr
<1>5. prs \in Seq(PullRequest) /\ DOMAIN prs = DOMAIN github.prs
      /\ \A m \in DOMAIN github.prs : prs[m] = IF m = n THEN pr ELSE github.prs[m]
  BY <1>3, <1>4
<1>. HIDE DEF prs
<1>6. github' \in Hub /\ github'.ref = github.ref /\ github'.prs = prs  BY <1>1, <1>2, <1>5 DEF Hub
<1>7. HubGrows(github, github')  BY <1>4, <1>5, <1>6 DEF HubGrows
<1>8. HubOK(github', run)  BY <1>1, <1>4, <1>5, <1>6 DEF HubOK
<1>. QED  BY <1>7, <1>8, HubAlone DEF closePullRequest

-----------------------------------------------------------------------------
(* Crashes and claims.                                                     *)

LEMMA OwnerChanges ==
  ASSUME NEW p, NEW row, RowOK(p, row), NEW owner \in {WorkerOf[s] : s \in Slot} \cup {NoOne, Gone}
  PROVE  RowGrows(p, row, [row EXCEPT !.owner = owner]) /\ [row EXCEPT !.owner = owner].pr = row.pr
<1>. DEFINE new == [row EXCEPT !.owner = owner]
<1>1. row \in PRow  BY DEF RowOK
<1>2. /\ new \in PRow /\ new.status = row.status /\ new.branch = row.branch /\ new.genuine = row.genuine
      /\ new.permitted = row.permitted /\ new.commit = row.commit /\ new.pr = row.pr
  BY <1>1 DEF PRow
<1>. HIDE DEF new
<1>3. RowGrows(p, row, new) /\ new.pr = row.pr  BY <1>1, <1>2 DEF RowGrows, RowOK
<1>. QED  BY <1>3 DEF new

LEMMA CrashStep ==
  ASSUME IInv, NEW w, Crash(w)
  PROVE  IInv'
<1>1. recovery' \in Recovery /\ used' \in Used  BY Spending DEF IInv, Crash
<1>2. ASSUME NEW p \in Patch  PROVE RowGrows(p, run[p], run'[p]) /\ run'[p].pr = run[p].pr
  <2>. DEFINE owner == IF run[p].owner = w THEN Gone ELSE run[p].owner
  <2>1. RowOK(p, run[p]) /\ run[p] \in PRow  BY RowOf
  <2>2. owner \in {WorkerOf[s] : s \in Slot} \cup {NoOne, Gone}  BY <2>1 DEF PRow
  <2>3. run'[p] = [run[p] EXCEPT !.owner = owner]  BY DEF Crash
  <2>. HIDE DEF owner
  <2>4. RowGrows(p, run[p], [run[p] EXCEPT !.owner = owner]) /\ [run[p] EXCEPT !.owner = owner].pr = run[p].pr
    BY <2>1, <2>2, OwnerChanges
  <2>. QED  BY <2>3, <2>4
<1>3. run' \in [Patch -> PRow]
  <2>1. \A p \in Patch : run'[p] \in PRow  BY <1>2 DEF RowGrows, RowOK
  <2>2. run' = [p \in Patch |-> [run[p] EXCEPT !.owner = IF @ = w THEN Gone ELSE @]]  BY DEF Crash
  <2>3. DOMAIN run' = Patch /\ run' = [p \in Patch |-> run'[p]]  BY <2>2
  <2>. QED  BY <2>1, <2>3
<1>4. HubGrows(github, github') /\ HubOK(github', run')  BY <1>2, GithubKept DEF Crash
<1>5. /\ slot' \in [Slot -> Local]
      /\ \A s \in Slot : slot'[s] = Idle \/ slot'[s] = slot[s]
  BY IdleLocal DEF IInv, Calls, Crash
<1>6. Fits(Idle, run', github')  BY IdleLocal DEF Fits
<1>7. \A s \in Slot : slot'[s] = slot[s] \/ Fits(slot'[s], run', github')  BY <1>5, <1>6
<1>8. \A p \in Patch : Passed(p, run', slot') => Passed(p, run, slot)
  <2>1. \A s \in Slot : slot'[s].pc \in 12 .. 17 => slot'[s] = slot[s]  BY <1>5, IdleLocal
  <2>. QED  BY <1>2, <2>1 DEF Passed
<1>9. Passing(run', github', slot')  BY <1>2, <1>4, <1>8, NobodyPasses
<1>. QED  BY <1>1, <1>2, <1>3, <1>4, <1>5, <1>7, <1>9, Growing

\* The call that claims a publication is at its first step.
Started(p, place, status) == [Idle EXCEPT !.pc = place, !.patch = p, !.claimed = status]

LEMMA StartedLocal ==
  ASSUME NEW place \in {1, 2}, NEW p \in Patch, NEW status \in Status, NEW rows, NEW hub, rows[p].status # NotCreated
  PROVE  Started(p, place, status) \in Local /\ Started(p, place, status).pc = place
         /\ Fits(Started(p, place, status), rows, hub)
<1>. DEFINE new == Started(p, place, status)
<1>1. p \in 0 .. MaxPatch /\ place \in 0 .. 18  BY PublicationAssumption DEF Patch
<1>2. new \in Local /\ new.pc = place /\ new.patch = p  BY <1>1, IdleLocal DEF Started, Local
<1>3. place \notin 3 .. 17 /\ place \notin 3 .. 6 /\ place \notin {6, 7} /\ place \notin {3, 4, 5, 6, 8} /\ place # 7
      /\ place \notin 9 .. 17 /\ place # 17 /\ place # 18
  OBVIOUS
<1>. HIDE DEF new
<1>4. Fits(new, rows, hub)  BY <1>2, <1>3 DEF Fits
<1>. QED  BY <1>2, <1>4 DEF new

LEMMA ClaimStep ==
  ASSUME IInv, NEW s \in Slot, NEW p \in Patch, claimPublication(s, p), UNCHANGED <<recovery, github>>, used' \in Used
  PROVE  IInv'
<1>. DEFINE row == run[p]
            new == Claimed(row, WorkerOf[s])
            place == NextNeeded(0, row.status)
            local == Started(p, place, row.status)
<1>1. RowOK(p, row) /\ row.status \in Executable  BY RowOf DEF claimPublication
<1>2. row.status \in Status /\ row.status # NotCreated  BY <1>1, Statuses
<1>4. place \in {1, 2}  BY Onward
<1>5. run' = [run EXCEPT ![p] = new]  BY DEF claimPublication, Claimed
<1>6. slot' = [slot EXCEPT ![s] = local]  BY DEF claimPublication, Started
<1>. HIDE DEF place
<1>8. RowGrows(p, row, new) /\ new.pr = row.pr  BY <1>1, ClaimChanges
<1>. HIDE DEF new
<1>9. run'[p] = new  BY <1>5 DEF IInv, Rows
<1>10. run'[p].status # NotCreated  BY <1>2, <1>8, <1>9 DEF RowGrows
<1>11. local \in Local /\ local.pc = place /\ Fits(local, run', github')  BY <1>2, <1>4, <1>10, StartedLocal
<1>. HIDE DEF local
<1>12. slot' \in [Slot -> Local] /\ \A t \in Slot : slot'[t] = IF t = s THEN local ELSE slot[t]
  BY <1>6, <1>11 DEF IInv, Calls
<1>13. \A t \in Slot : slot'[t] = slot[t] \/ Fits(slot'[t], run', github')  BY <1>11, <1>12
<1>14. place \notin 12 .. 17  BY <1>4
<1>15. \A t \in Slot : slot'[t].pc \in 12 .. 17 => slot[t].pc \in 12 .. 17 /\ slot'[t].patch = slot[t].patch
  BY <1>11, <1>12, <1>14
<1>. QED  BY <1>5, <1>8, <1>12, <1>13, <1>15, RowMoves

-----------------------------------------------------------------------------
(* The steps of a call that change nothing but the call.                   *)

LEMMA PlaceOf ==
  ASSUME IInv, NEW s \in Slot, NEW name, At(s, name)
  PROVE  Running(s) /\ slot[s].pc \in 1 .. 18 /\ Program[slot[s].pc] = name
BY Standing DEF At

LEMMA GoesOn ==
  ASSUME IInv, NEW s \in Slot, Running(s), Advance(s, slot[s]), Keep,
         slot[s].pc \in {1, 3, 4, 5, 9, 10, 12, 13, 14, 15}
  PROVE  IInv'
<1>. DEFINE local == Further(slot[s])
<1>1. slot' = [slot EXCEPT ![s] = local]  BY DEF Advance, Further
<1>2. Fits(local, run, github) /\ (local.pc \in 12 .. 17 => slot[s].pc \in 12 .. 17 /\ local.patch = slot[s].patch)
  BY Standing, Simple
<1>. HIDE DEF local
<1>3. UNCHANGED <<recovery, run, github, used>>  BY DEF Keep
<1>. QED  BY <1>1, <1>2, <1>3, CallMoves

LEMMA ControlStep ==
  ASSUME IInv, NEW s \in Slot, checkControl(s)
  PROVE  IInv'
<1>1. Running(s) /\ slot[s].pc \in {3, 9, 13} /\ Keep  BY PlaceOf, Places DEF checkControl
<1>2. CASE Advance(s, slot[s])  BY <1>1, <1>2, GoesOn
<1>3. CASE Fail(s, stageFailureStatus(s))  BY <1>1, <1>3, Failures, Failing DEF Keep
<1>. QED  BY <1>2, <1>3 DEF checkControl

LEMMA TokenStep ==
  ASSUME IInv, NEW s \in Slot, acquireInstallationToken(s)
  PROVE  IInv'
<1>1. Running(s) /\ slot[s].pc = 5 /\ Keep  BY PlaceOf, Places DEF acquireInstallationToken
<1>2. CASE Advance(s, slot[s])  BY <1>1, <1>2, GoesOn
<1>3. CASE FailAs(s, createInstallationToken)
  <2>1. PICK status \in createInstallationToken : Fail(s, status)  BY <1>3 DEF FailAs
  <2>. QED  BY <1>1, <2>1, Failures, Failing DEF Keep
<1>. QED  BY <1>2, <1>3 DEF acquireInstallationToken

LEMMA CheckBaseStep ==
  ASSUME IInv, NEW s \in Slot, checkBase(s)
  PROVE  IInv'
<1>1. Running(s) /\ slot[s].pc = 15 /\ Keep  BY PlaceOf, Places DEF checkBase
<1>2. CASE Advance(s, slot[s])  BY <1>1, <1>2, GoesOn
<1>3. CASE Fail(s, "BASE_BRANCH_STALE")
  <2>1. "BASE_BRANCH_STALE" \in Failure  BY DEF Failure
  <2>. QED  BY <1>1, <1>3, <2>1, Failing DEF Keep
<1>. QED  BY <1>2, <1>3 DEF checkBase

\* What is found to be as approved is loaded with an approval and the commit recorded.
LEMMA LoadStep ==
  ASSUME IInv, NEW s \in Slot, loadExecutionBundle(s)
  PROVE  IInv'
<1>. DEFINE verdict == verifyPublicationBundle(slot[s].patch)
<1>1. Running(s) /\ slot[s].pc = 2 /\ Keep  BY PlaceOf, Places DEF loadExecutionBundle
<1>2. /\ slot[s] \in Local /\ slot[s].patch \in Patch /\ run[slot[s].patch].status # NotCreated
      /\ Fits(slot[s], run, github)
  BY <1>1, Standing
<1>3. CASE verdict = "ok"
  <2>. DEFINE loaded == [slot[s] EXCEPT !.stamp = recovery.stamp, !.commit = run[slot[s].patch].commit]
  <2>1. recovery.stamp \in 0 .. MaxStamp /\ run[slot[s].patch].commit \in Commit \cup {NoCommit}
    BY <1>2, RowOf, PublicationAssumption DEF IInv, Recovery, PRow
  <2>2. recovery.stamp # 0 /\ run[slot[s].patch].genuine /\ run[slot[s].patch].permitted
    BY <1>3 DEF verifyPublicationBundle
  <2>3. /\ loaded \in Local /\ loaded.pc = 2 /\ loaded.patch = slot[s].patch
        /\ loaded.stamp # 0 /\ loaded.commit = run[loaded.patch].commit
    BY <1>1, <1>2, <2>1, <2>2 DEF Local
  <2>4. slot' = [slot EXCEPT ![s] = Further(loaded)]
    BY <1>3 DEF loadExecutionBundle, Advance, Further, Row
  <2>. HIDE DEF loaded
  <2>. DEFINE local == Further(loaded)
  <2>5. NextNeeded(loaded.pc, loaded.claimed) = 3 /\ 3 \in 1 .. 18  BY <2>3, Onward
  <2>6. /\ local \in Local /\ local.pc = 3 /\ local.patch = slot[s].patch /\ local.stamp # 0
        /\ local.commit = run[slot[s].patch].commit
    BY <2>3, <2>5, FurtherLocal
  <2>. HIDE DEF local
  <2>7. Fits(local, run, github)  BY <1>2, <2>2, <2>6 DEF Fits
  <2>8. local.pc \notin 12 .. 17  BY <2>6
  <2>. QED  BY <1>1, <2>4, <2>7, <2>8, CallMoves DEF Keep, local
<1>4. CASE verdict # "ok"
  <2>1. verdict \in Failure  BY <1>4, Failures
  <2>2. Fail(s, verdict)  BY <1>4 DEF loadExecutionBundle
  <2>. QED  BY <1>1, <2>1, <2>2, Failing DEF Keep
<1>. QED  BY <1>3, <1>4

LEMMA MaterializeStep ==
  ASSUME IInv, NEW s \in Slot, materializePublicationCommit(s)
  PROVE  IInv'
<1>1. Running(s) /\ slot[s].pc = 6 /\ Keep  BY PlaceOf, Places DEF materializePublicationCommit
<1>2. /\ slot[s] \in Local /\ slot[s].patch \in Patch /\ run[slot[s].patch].status # NotCreated
      /\ slot[s].stamp # 0 /\ Early(slot[s].claimed)
      /\ run[slot[s].patch].genuine /\ run[slot[s].patch].permitted
  <2>1. Fits(slot[s], run, github)  BY <1>1, Standing
  <2>2. slot[s].pc \in 3 .. 17 /\ slot[s].pc \in 3 .. 6 /\ slot[s].pc \in {6, 7} /\ slot[s].pc # 0  BY <1>1
  <2>. QED  BY <2>1, <2>2 DEF Fits
<1>3. CASE Advance(s, [slot[s] EXCEPT !.commit = createCommit(s), !.stamp = 0])
  <2>. DEFINE commit == createCommit(s)
              made == [slot[s] EXCEPT !.commit = commit, !.stamp = 0]
              local == Further(made)
  <2>1. commit \in Commit /\ commit.patch = slot[s].patch /\ 0 \in 0 .. MaxStamp
    BY <1>2, PublicationAssumption DEF createCommit, Commit, Local
  <2>2. slot' = [slot EXCEPT ![s] = local]  BY <1>3 DEF Advance, Further
  <2>. HIDE DEF commit
  <2>3. /\ made \in Local /\ made.pc = 6 /\ made.patch = slot[s].patch /\ made.commit = commit
        /\ made.claimed = slot[s].claimed
    BY <1>1, <1>2, <2>1 DEF Local
  <2>. HIDE DEF made
  <2>4. NextNeeded(made.pc, made.claimed) = 7 /\ 7 \in 1 .. 18  BY <1>2, <2>3, Onward
  <2>5. /\ local \in Local /\ local.pc = 7 /\ local.patch = slot[s].patch /\ local.commit = commit
        /\ Early(local.claimed)
    BY <1>2, <2>3, <2>4, FurtherLocal
  <2>. HIDE DEF local
  <2>6. commit # NoCommit  BY <2>1, Commits
  <2>7. Fits(local, run, github)  BY <1>2, <2>1, <2>5, <2>6 DEF Fits
  <2>8. local.pc \notin 12 .. 17  BY <2>5
  <2>. QED  BY <1>1, <2>2, <2>7, <2>8, CallMoves DEF Keep
<1>4. CASE \E status \in {"BASE_BRANCH_STALE"} \cup gitObjects \cup parseUnifiedDiffFiles \cup applyFileHunks :
             Fail(s, status)
  <2>1. PICK status \in {"BASE_BRANCH_STALE"} \cup gitObjects \cup parseUnifiedDiffFiles \cup applyFileHunks :
          Fail(s, status)
    BY <1>4
  <2>2. "BASE_BRANCH_STALE" \in Failure  BY DEF Failure
  <2>3. status \in Failure  BY <2>2, Failures
  <2>. QED  BY <1>1, <2>1, <2>3, Failing DEF Keep
<1>5. CASE githubFailure(s)  BY <1>1, <1>5, GithubFailing DEF Keep
<1>. QED  BY <1>3, <1>4, <1>5 DEF materializePublicationCommit, FailAs

LEMMA VerifyExistingStep ==
  ASSUME IInv, NEW s \in Slot, verifyExistingPublicationCommit(s)
  PROVE  IInv'
<1>1. Running(s) /\ slot[s].pc = 8 /\ Keep  BY PlaceOf, Places DEF verifyExistingPublicationCommit
<1>2. /\ slot[s] \in Local /\ slot[s].patch \in Patch /\ run[slot[s].patch].status # NotCreated
      /\ slot[s].commit \in {NoCommit, run[slot[s].patch].commit}
      /\ run[slot[s].patch].genuine /\ run[slot[s].patch].permitted
  <2>1. Fits(slot[s], run, github)  BY <1>1, Standing
  <2>2. slot[s].pc \in 3 .. 17 /\ slot[s].pc \in {3, 4, 5, 6, 8} /\ slot[s].pc # 0  BY <1>1
  <2>. QED  BY <2>1, <2>2 DEF Fits
<1>3. CASE slot[s].commit # NoCommit /\ Advance(s, [slot[s] EXCEPT !.stamp = 0])
  <2>. DEFINE found == [slot[s] EXCEPT !.stamp = 0]
              local == Further(found)
  <2>1. 0 \in 0 .. MaxStamp  BY PublicationAssumption
  <2>2. slot' = [slot EXCEPT ![s] = local]  BY <1>3 DEF Advance, Further
  <2>3. /\ found \in Local /\ found.pc = 8 /\ found.patch = slot[s].patch /\ found.commit = slot[s].commit
    BY <1>1, <1>2, <2>1 DEF Local
  <2>. HIDE DEF found
  <2>4. NextNeeded(found.pc, found.claimed) = 9 /\ 9 \in 1 .. 18  BY <2>3, Onward
  <2>5. local \in Local /\ local.pc = 9 /\ local.patch = slot[s].patch /\ local.commit = slot[s].commit
    BY <2>3, <2>4, FurtherLocal
  <2>. HIDE DEF local
  <2>6. Fits(local, run, github)  BY <1>2, <1>3, <2>5 DEF Fits
  <2>7. local.pc \notin 12 .. 17  BY <2>5
  <2>. QED  BY <1>1, <2>2, <2>6, <2>7, CallMoves DEF Keep
<1>4. CASE Fail(s, "PUBLICATION_BLOCKED")
  <2>1. "PUBLICATION_BLOCKED" \in Failure  BY DEF Failure
  <2>. QED  BY <1>1, <1>4, <2>1, Failing DEF Keep
<1>5. CASE githubFailure(s)  BY <1>1, <1>5, GithubFailing DEF Keep
<1>. QED  BY <1>3, <1>4, <1>5 DEF verifyExistingPublicationCommit

-----------------------------------------------------------------------------
(* The steps of a call that change its row.                                *)

LEMMA RowAndCall ==
  ASSUME IInv, NEW s \in Slot, NEW p \in Patch, NEW new, run' = [run EXCEPT ![p] = new], RowGrows(p, run[p], new),
         new.pr = run[p].pr \/ (Draft(new.pr, new, github) /\ Passed(p, run, slot)),
         NEW local, slot' = [slot EXCEPT ![s] = local], Fits(local, run', github),
         local.pc \in 12 .. 17 => slot[s].pc \in 12 .. 17 /\ local.patch = slot[s].patch,
         UNCHANGED <<recovery, github, used>>
  PROVE  IInv'
<1>1. local \in Local  BY DEF Fits
<1>2. slot' \in [Slot -> Local] /\ \A t \in Slot : slot'[t] = IF t = s THEN local ELSE slot[t]
  BY <1>1 DEF IInv, Calls
<1>3. \A t \in Slot : slot'[t] = slot[t] \/ Fits(slot'[t], run', github')  BY <1>2
<1>4. \A t \in Slot : slot'[t].pc \in 12 .. 17 => slot[t].pc \in 12 .. 17 /\ slot'[t].patch = slot[t].patch  BY <1>2
<1>5. used' \in Used  BY DEF IInv
<1>. QED  BY <1>2, <1>3, <1>4, <1>5, RowMoves

\* A call that knew something of the rows knows it of the rows after one has grown.
LEMMA StillFits ==
  ASSUME IInv, NEW p \in Patch, NEW new, run' = [run EXCEPT ![p] = new], RowGrows(p, run[p], new),
         NEW local, Fits(local, run, github)
  PROVE  Fits(local, run', github) /\ run'[p] = new
<1>1. \A q \in Patch : run'[q] = IF q = p THEN new ELSE run[q]  BY DEF IInv, Rows
<1>2. \A q \in Patch : RowGrows(q, run[q], run'[q])  BY <1>1, SameRow DEF IInv, Rows
<1>3. HubGrows(github, github)  BY SameHub DEF IInv, HubOK
<1>. QED  BY <1>1, <1>2, <1>3, FitsKept

LEMMA AdvanceStep ==
  ASSUME IInv, NEW s \in Slot, advancePublication(s)
  PROVE  IInv'
<1>. DEFINE p == slot[s].patch
            to == Target(Program[slot[s].pc])
            new == [run[p] EXCEPT !.status = to]
            local == Further(slot[s])
<1>1. PICK name \in {"POLICY_CHECK", "COMMIT_MATERIALIZING", "DRAFT_PR_CREATING", "retryPush", "retryPr"} : At(s, name)
  BY DEF advancePublication
<1>2. Running(s) /\ slot[s].pc \in 1 .. 18 /\ Program[slot[s].pc] = name  BY <1>1, PlaceOf
<1>3. slot[s].pc \in {1, 4, 10, 12, 14}  BY <1>2, Places
<1>4. slot[s].pc \in {1, 3, 4, 5, 9, 10, 12, 13, 14, 15}  BY <1>3
<1>5. to \in Status /\ to # "CI_MONITORING"  BY <1>2 DEF Target, Status, Executable, InFlight
<1>6. Fits(slot[s], run, github) /\ p \in Patch /\ run[p].status # NotCreated /\ RowOK(p, run[p])
  BY <1>2, Standing, RowOf
<1>7. CASE Leased(s) /\ assertPublicationTransition(run[p].status, to)
  <2>1. run' = [run EXCEPT ![p] = new] /\ slot' = [slot EXCEPT ![s] = local]
    BY <1>7 DEF advancePublication, Advance, Further
  <2>. HIDE DEF to
  <2>2. RowGrows(p, run[p], new) /\ new.pr = run[p].pr  BY <1>5, <1>6, StatusChanges
  <2>3. Fits(local, run, github) /\ (local.pc \in 12 .. 17 => slot[s].pc \in 12 .. 17 /\ local.patch = slot[s].patch)
    BY <1>4, <1>6, Simple
  <2>. HIDE DEF new, local
  <2>4. Fits(local, run', github)  BY <1>6, <2>1, <2>2, <2>3, StillFits
  <2>. QED  BY <1>6, <2>1, <2>2, <2>3, <2>4, RowAndCall DEF advancePublication
<1>8. CASE ~(Leased(s) /\ assertPublicationTransition(run[p].status, to))
  <2>1. PICK status \in {transitionFailure(s, run[p].status), stageFailureStatus(s)} : Fail(s, status)
    BY <1>8 DEF advancePublication
  <2>2. status \in Failure  BY Failures
  <2>3. UNCHANGED <<recovery, run, github, used>>  BY <1>8 DEF advancePublication
  <2>. QED  BY <1>2, <2>1, <2>2, <2>3, Failing
<1>. QED  BY <1>7, <1>8

LEMMA RecordMaterializationStep ==
  ASSUME IInv, NEW s \in Slot, recordMaterialization(s)
  PROVE  IInv'
<1>. DEFINE p == slot[s].patch
            row == run[p]
            valid == assertPublicationTransition(row.status, "BRANCH_PUBLISHING")
            commit == slot[s].commit
            new == [row EXCEPT !.status = "BRANCH_PUBLISHING", !.commit = commit]
            local == Further(slot[s])
<1>1. Running(s) /\ slot[s].pc = 7  BY PlaceOf, Places DEF recordMaterialization
<1>2. /\ slot[s] \in Local /\ p \in Patch /\ row.status # NotCreated /\ row \in PRow /\ RowOK(p, row)
      /\ row.genuine /\ row.permitted /\ Early(slot[s].claimed)
      /\ commit # NoCommit /\ commit.patch = p
  <2>1. Fits(slot[s], run, github)  BY <1>1, Standing
  <2>2. slot[s].pc \in 3 .. 17 /\ slot[s].pc \in {6, 7} /\ slot[s].pc # 0  BY <1>1
  <2>3. p \in Patch /\ row.genuine /\ row.permitted /\ Early(slot[s].claimed) /\ commit # NoCommit /\ commit.patch = p
        /\ slot[s] \in Local /\ row.status # NotCreated
    BY <1>1, <2>1, <2>2 DEF Fits
  <2>. QED  BY <2>3, RowOf
<1>3. CASE Leased(s) /\ valid /\ row.commit \in {NoCommit, commit}
  <2>1. run' = [run EXCEPT ![p] = new] /\ slot' = [slot EXCEPT ![s] = local]
    BY <1>3 DEF recordMaterialization, Advance, Further
  <2>2. "BRANCH_PUBLISHING" \in Status  BY DEF Status, Executable, InFlight
  <2>3. /\ new \in PRow /\ new.status = "BRANCH_PUBLISHING" /\ new.commit = commit
        /\ new.branch = row.branch /\ new.genuine = row.genuine /\ new.permitted = row.permitted /\ new.pr = row.pr
    BY <1>2, <2>2 DEF PRow, Local
  <2>. HIDE DEF new
  <2>4. "BRANCH_PUBLISHING" # NotCreated  BY <2>2, Statuses
  <2>5. RowGrows(p, row, new)  BY <1>2, <1>3, <2>3, <2>4 DEF RowGrows, RowOK
  <2>6. NextNeeded(slot[s].pc, slot[s].claimed) = 9 /\ 9 \in 1 .. 18  BY <1>1, <1>2, Onward
  <2>7. local \in Local /\ local.pc = 9 /\ local.patch = p /\ local.commit = commit
    BY <1>2, <2>6, FurtherLocal
  <2>. HIDE DEF local
  <2>8. run'[p] = new  BY <1>2, <2>1 DEF IInv, Rows
  <2>9. Fits(local, run', github)
    <3>1. run'[local.patch] = new /\ local.patch \in Patch  BY <1>2, <2>7, <2>8
    <3>2. /\ run'[local.patch].status # NotCreated /\ run'[local.patch].genuine /\ run'[local.patch].permitted
          /\ local.commit = run'[local.patch].commit /\ run'[local.patch].commit # NoCommit
      BY <1>2, <2>3, <2>4, <2>7, <3>1
    <3>. QED  BY <2>7, <3>1, <3>2 DEF Fits
  <2>10. local.pc \notin 12 .. 17  BY <2>7
  <2>. QED  BY <1>2, <2>1, <2>3, <2>5, <2>9, <2>10, RowAndCall DEF recordMaterialization
<1>4. CASE ~(Leased(s) /\ valid /\ row.commit \in {NoCommit, commit})
  <2>1. PICK status \in {transitionFailure(s, row.status), stageFailureStatus(s)} : Fail(s, status)
    BY <1>4 DEF recordMaterialization
  <2>2. status \in Failure  BY Failures
  <2>3. UNCHANGED <<recovery, run, github, used>>  BY <1>4 DEF recordMaterialization
  <2>. QED  BY <1>1, <2>1, <2>2, <2>3, Failing
<1>. QED  BY <1>3, <1>4

LEMMA IdleFits ==
  ASSUME NEW rows, NEW hub
  PROVE  Fits(Idle, rows, hub) /\ Idle.pc \notin 12 .. 17
BY IdleLocal DEF Fits

LEMMA RecordPullRequestStep ==
  ASSUME IInv, NEW s \in Slot, recordPullRequest(s)
  PROVE  IInv'
<1>. DEFINE p == slot[s].patch
            row == run[p]
            valid == assertPublicationTransition(row.status, "CI_MONITORING")
            pr == slot[s].pr
            new == [row EXCEPT !.status = "CI_MONITORING", !.pr = pr, !.owner = NoOne, !.live = FALSE]
<1>1. Running(s) /\ slot[s].pc = 17  BY PlaceOf, Places DEF recordPullRequest
<1>2. /\ slot[s] \in Local /\ p \in Patch /\ row.status # NotCreated /\ row \in PRow /\ RowOK(p, row)
      /\ row.commit # NoCommit /\ pr # 0 /\ Draft(pr, row, github)
  <2>1. Fits(slot[s], run, github)  BY <1>1, Standing
  <2>2. slot[s].pc \in 9 .. 17 /\ slot[s].pc # 0  BY <1>1
  <2>3. p \in Patch /\ row.commit # NoCommit /\ pr # 0 /\ Draft(pr, row, github) /\ slot[s] \in Local
        /\ row.status # NotCreated
    BY <1>1, <2>1, <2>2 DEF Fits
  <2>. QED  BY <2>3, RowOf
<1>3. CASE Leased(s) /\ valid /\ row.pr \in {0, pr}
  <2>1. run' = [run EXCEPT ![p] = new] /\ slot' = [slot EXCEPT ![s] = Idle]  BY <1>3 DEF recordPullRequest
  <2>2. "CI_MONITORING" \in Status /\ NoOne \in {WorkerOf[t] : t \in Slot} \cup {NoOne, Gone}  BY DEF Status
  <2>3. /\ new \in PRow /\ new.status = "CI_MONITORING" /\ new.pr = pr /\ new.commit = row.commit
        /\ new.branch = row.branch /\ new.genuine = row.genuine /\ new.permitted = row.permitted
    BY <1>2, <2>2 DEF PRow, Local
  <2>. HIDE DEF new
  <2>4. "CI_MONITORING" # NotCreated  BY <2>2, Statuses
  <2>5. RowGrows(p, row, new)  BY <1>2, <1>3, <2>3, <2>4 DEF RowGrows, RowOK
  <2>6. Draft(new.pr, new, github)  BY <1>2, <2>3 DEF Draft
  <2>7. Passed(p, run, slot)  BY <1>1 DEF Passed
  <2>. QED  BY <1>2, <2>1, <2>5, <2>6, <2>7, IdleFits, RowAndCall DEF recordPullRequest
<1>4. CASE ~(Leased(s) /\ valid /\ row.pr \in {0, pr})
  <2>1. PICK status \in {transitionFailure(s, row.status), stageFailureStatus(s)} : Fail(s, status)
    BY <1>4 DEF recordPullRequest
  <2>2. status \in Failure  BY Failures
  <2>3. UNCHANGED <<recovery, run, github, used>>  BY <1>4 DEF recordPullRequest
  <2>. QED  BY <1>1, <2>1, <2>2, <2>3, Failing
<1>. QED  BY <1>3, <1>4

LEMMA FailStep ==
  ASSUME IInv, NEW s \in Slot, failPublication(s)
  PROVE  IInv'
<1>. DEFINE p == slot[s].patch
            row == run[p]
            to == slot[s].outcome
            new == [row EXCEPT !.status = to, !.owner = NoOne, !.live = FALSE]
<1>1. Running(s) /\ slot[s].pc = 18  BY PlaceOf, Places DEF failPublication
<1>2. p \in Patch /\ row.status # NotCreated /\ row \in PRow /\ RowOK(p, row) /\ to \in Failure
  <2>1. Fits(slot[s], run, github)  BY <1>1, Standing
  <2>2. p \in Patch /\ row.status # NotCreated /\ to \in Failure  BY <1>1, <2>1 DEF Fits
  <2>. QED  BY <2>2, RowOf
<1>3. slot' = [slot EXCEPT ![s] = Idle] /\ UNCHANGED <<recovery, github, used>>  BY DEF failPublication
<1>4. CASE run' = [run EXCEPT ![p] = new]
  <2>1. to \in Status /\ to # "CI_MONITORING" /\ to # NotCreated
        /\ NoOne \in {WorkerOf[t] : t \in Slot} \cup {NoOne, Gone}
    BY <1>2, Statuses
  <2>. HIDE DEF to
  <2>2. /\ new \in PRow /\ new.status = to /\ new.pr = row.pr /\ new.commit = row.commit
        /\ new.branch = row.branch /\ new.genuine = row.genuine /\ new.permitted = row.permitted
    BY <1>2, <2>1 DEF PRow
  <2>. HIDE DEF new
  <2>3. RowGrows(p, row, new)  BY <1>2, <2>1, <2>2 DEF RowGrows, RowOK
  <2>. QED  BY <1>2, <1>3, <1>4, <2>2, <2>3, IdleFits, RowAndCall
<1>5. CASE UNCHANGED run
  BY <1>3, <1>5, IdleFits, CallMoves
<1>. QED  BY <1>4, <1>5 DEF failPublication
-----------------------------------------------------------------------------
(* The steps of a call on GitHub.                                          *)

\* A call moves, and GitHub with it, while the rows stay.
LEMMA HubAndCall ==
  ASSUME IInv, NEW s \in Slot, UNCHANGED <<recovery, run, used>>, HubGrows(github, github'), HubOK(github', run),
         NEW local, slot' = [slot EXCEPT ![s] = local], Fits(local, run, github'),
         local.pc \in 12 .. 17 => slot[s].pc \in 12 .. 17 /\ local.patch = slot[s].patch
  PROVE  IInv'
<1>1. recovery' \in Recovery /\ used' \in Used  BY DEF IInv
<1>2. /\ run' \in [Patch -> PRow]
      /\ \A p \in Patch : RowGrows(p, run[p], run'[p]) /\ run'[p].pr = run[p].pr
  BY RowsKept
<1>3. HubOK(github', run')  OBVIOUS
<1>4. local \in Local  BY DEF Fits
<1>5. slot' \in [Slot -> Local] /\ \A t \in Slot : slot'[t] = IF t = s THEN local ELSE slot[t]
  BY <1>4 DEF IInv, Calls
<1>6. \A t \in Slot : slot'[t] = slot[t] \/ Fits(slot'[t], run', github')  BY <1>5
<1>7. \A p \in Patch : Passed(p, run', slot') => Passed(p, run, slot)  BY <1>5 DEF Passed
<1>8. Passing(run', github', slot')  BY <1>2, <1>7, NobodyPasses
<1>. QED  BY <1>1, <1>2, <1>3, <1>5, <1>6, <1>8, Growing

LEMMA HubFailing ==
  ASSUME IInv, NEW s \in Slot, Running(s), NEW status \in Failure, Fail(s, status),
         UNCHANGED <<recovery, run, used>>, HubGrows(github, github'), HubOK(github', run)
  PROVE  IInv'
<1>1. PICK local : slot' = [slot EXCEPT ![s] = local] /\ Fits(local, run, github) /\ local.pc = 18
  BY FailsTo
<1>2. \A p \in Patch : RowGrows(p, run[p], run[p])  BY SameRow DEF IInv, Rows
<1>3. Fits(local, run, github')  BY <1>1, <1>2, FitsKept
<1>4. local.pc \notin 12 .. 17  BY <1>1
<1>. QED  BY <1>1, <1>3, <1>4, HubAndCall

LEMMA HubGithubFailing ==
  ASSUME IInv, NEW s \in Slot, Running(s), githubFailure(s),
         UNCHANGED <<recovery, run, used>>, HubGrows(github, github'), HubOK(github', run)
  PROVE  IInv'
<1>1. PICK status \in {"PUBLICATION_BLOCKED", stageFailureStatus(s)} : Fail(s, status)  BY DEF githubFailure
<1>2. status \in Failure  BY Failures DEF Failure
<1>. QED  BY <1>1, <1>2, HubFailing

\* What a call knows that is past the recording of the commit.
LEMMA Recorded ==
  ASSUME IInv, NEW s \in Slot, Running(s), slot[s].pc \in 9 .. 16
  PROVE  /\ slot[s] \in Local /\ slot[s].patch \in Patch
         /\ RowOK(slot[s].patch, run[slot[s].patch]) /\ run[slot[s].patch] \in PRow
         /\ run[slot[s].patch].status # NotCreated
         /\ run[slot[s].patch].genuine /\ run[slot[s].patch].permitted
         /\ slot[s].commit = run[slot[s].patch].commit /\ run[slot[s].patch].commit \in Commit
<1>1. Fits(slot[s], run, github)  BY Standing
<1>2. slot[s].pc \in 3 .. 17 /\ slot[s].pc \in 9 .. 17 /\ slot[s].pc # 0  OBVIOUS
<1>3. /\ slot[s] \in Local /\ slot[s].patch \in Patch /\ run[slot[s].patch].status # NotCreated
      /\ run[slot[s].patch].genuine /\ run[slot[s].patch].permitted
      /\ slot[s].commit = run[slot[s].patch].commit /\ run[slot[s].patch].commit # NoCommit
  BY <1>1, <1>2 DEF Fits
<1>4. RowOK(slot[s].patch, run[slot[s].patch]) /\ run[slot[s].patch] \in PRow  BY <1>3, RowOf
<1>. QED  BY <1>3, <1>4 DEF PRow

\* A call at step 16 that has found or made a pull request goes on with it.
LEMMA HasDraft ==
  ASSUME IInv, NEW s \in Slot, Running(s), slot[s].pc = 16, NEW n \in Nat, n # 0,
         Draft(n, run[slot[s].patch], github'), Advance(s, [slot[s] EXCEPT !.pr = n]),
         UNCHANGED <<recovery, run, used>>, HubGrows(github, github'), HubOK(github', run)
  PROVE  IInv'
<1>. DEFINE found == [slot[s] EXCEPT !.pr = n]
            local == Further(found)
<1>1. slot[s].pc \in 9 .. 16 /\ slot[s].pc \in 12 .. 17  OBVIOUS
<1>2. /\ slot[s] \in Local /\ slot[s].patch \in Patch /\ run[slot[s].patch].status # NotCreated
      /\ run[slot[s].patch].genuine /\ run[slot[s].patch].permitted
      /\ slot[s].commit = run[slot[s].patch].commit /\ run[slot[s].patch].commit # NoCommit
  BY <1>1, Recorded, Commits
<1>3. slot' = [slot EXCEPT ![s] = local]  BY DEF Advance, Further
<1>4. found \in Local /\ found.pc = 16 /\ found.patch = slot[s].patch /\ found.commit = slot[s].commit /\ found.pr = n
  BY <1>2 DEF Local
<1>. HIDE DEF found
<1>5. NextNeeded(found.pc, found.claimed) = 17 /\ 17 \in 1 .. 18  BY <1>4, Onward
<1>6. local \in Local /\ local.pc = 17 /\ local.patch = slot[s].patch /\ local.commit = slot[s].commit /\ local.pr = n
  BY <1>4, <1>5, FurtherLocal
<1>. HIDE DEF local
<1>7. Fits(local, run, github')  BY <1>2, <1>6 DEF Fits
<1>. QED  BY <1>1, <1>3, <1>6, <1>7, HubAndCall

\* Past the branch, the branch carries the publication's commit or what was pushed on top.
LEMMA PullRequestStep ==
  ASSUME IInv, NEW s \in Slot, ensureDraftPullRequest(s)
  PROVE  IInv'
<1>. DEFINE p == slot[s].patch
            row == run[p]
            b == row.branch
<1>1. Running(s) /\ slot[s].pc = 16  BY PlaceOf, Places DEF ensureDraftPullRequest
<1>2. UNCHANGED <<recovery, run, used>>  BY DEF ensureDraftPullRequest
<1>3. slot[s].pc \in 9 .. 16 /\ slot[s].pc \in 12 .. 17  BY <1>1
<1>4. p \in Patch /\ b \in Branch /\ slot[s].commit = row.commit
  BY <1>1, <1>3, Recorded DEF PRow
<1>5. github.ref[b] \in {row.commit, Pushed}
  <2>1. Passed(p, run, slot)  BY <1>3 DEF Passed
  <2>. QED  BY <1>4, <2>1 DEF IInv, Passing, Own
<1>6. github \in Hub /\ HubOK(github, run) /\ github.prs \in Seq(PullRequest)  BY DEF IInv, HubOK, Hub
<1>7. CASE /\ getRef(b) # NoCommit /\ github' = createPullRequest(b)
           /\ Advance(s, [slot[s] EXCEPT !.pr = Len(github.prs) + 1]) \/ githubFailure(s)
  <2>. DEFINE pr == [branch |-> b, head |-> github.ref[b], open |-> TRUE]
              prs == Append(github.prs, pr)
              n == Len(github.prs) + 1
  <2>1. github' = [github EXCEPT !.prs = prs]  BY <1>7 DEF createPullRequest, getRef
  <2>2. pr \in PullRequest /\ pr.branch = b /\ pr.head = github.ref[b]
    BY <1>4, <1>6, <1>7 DEF PullRequest, Hub, getRef
  <2>. HIDE DEF pr
  <2>3. /\ prs \in Seq(PullRequest) /\ n \in Nat /\ n # 0 /\ n \in DOMAIN prs /\ prs[n] = pr
        /\ \A m \in DOMAIN prs : m = n \/ m \in DOMAIN github.prs
        /\ \A m \in DOMAIN github.prs : m \in DOMAIN prs /\ prs[m] = github.prs[m]
    BY <1>6, <2>2
  <2>. HIDE DEF prs
  <2>4. github' \in Hub /\ github'.ref = github.ref /\ github'.prs = prs  BY <1>6, <2>1, <2>3 DEF Hub
  <2>5. HubGrows(github, github')  BY <2>3, <2>4 DEF HubGrows
  <2>6. HubOK(github', run)  BY <1>6, <2>2, <2>3, <2>4 DEF HubOK
  <2>7. Draft(n, row, github')  BY <1>5, <2>2, <2>3, <2>4 DEF Draft
  <2>8. CASE githubFailure(s)  BY <1>1, <1>2, <2>5, <2>6, <2>8, HubGithubFailing
  <2>9. CASE Advance(s, [slot[s] EXCEPT !.pr = n])
    <3>. HIDE DEF n
    <3>. QED  BY <1>1, <1>2, <2>3, <2>5, <2>6, <2>7, <2>9, HasDraft
  <2>. QED  BY <1>7, <2>8, <2>9
<1>8. CASE /\ \E n \in findOpenPullRequest(b) :
                IF getRef(b) = slot[s].commit THEN Advance(s, [slot[s] EXCEPT !.pr = n])
                ELSE Fail(s, "PR_CREATION_FAILED")
           /\ UNCHANGED github
  <2>1. PICK n \in findOpenPullRequest(b) :
          IF getRef(b) = slot[s].commit THEN Advance(s, [slot[s] EXCEPT !.pr = n]) ELSE Fail(s, "PR_CREATION_FAILED")
    BY <1>8
  <2>2. HubGrows(github, github') /\ HubOK(github', run)  BY <1>6, <1>8, SameHub
  <2>3. CASE getRef(b) = slot[s].commit
    <3>1. n \in DOMAIN github.prs /\ github.prs[n].open /\ github.prs[n].branch = b  BY <2>1 DEF findOpenPullRequest
    <3>2. n \in Nat /\ n # 0  BY <1>6, <3>1
    <3>3. github.prs[n].head = github.ref[b]  BY <1>6, <3>1 DEF HubOK
    <3>4. Draft(n, row, github')  BY <1>4, <1>8, <2>3, <3>1, <3>3 DEF Draft, getRef
    <3>5. Advance(s, [slot[s] EXCEPT !.pr = n])  BY <2>1, <2>3
    <3>. QED  BY <1>1, <1>2, <2>2, <3>2, <3>4, <3>5, HasDraft
  <2>4. CASE getRef(b) # slot[s].commit
    <3>1. Fail(s, "PR_CREATION_FAILED") /\ "PR_CREATION_FAILED" \in Failure  BY <2>1, <2>4 DEF Failure
    <3>. QED  BY <1>1, <1>2, <2>2, <3>1, HubFailing
  <2>. QED  BY <2>3, <2>4
<1>9. CASE githubFailure(s) /\ UNCHANGED github
  BY <1>1, <1>2, <1>9, GithubFailing
<1>. QED  BY <1>7, <1>8, <1>9 DEF ensureDraftPullRequest, Row

\* A call at the branch goes on: the branch is its publication's, and no other
\* publication that is past its branch has the same one.
LEMMA TakesBranch ==
  ASSUME IInv, NEW s \in Slot, Running(s), slot[s].pc = 11, Advance(s, slot[s]),
         UNCHANGED <<recovery, run, used>>, HubGrows(github, github'), HubOK(github', run),
         Own(slot[s].patch, run, github'),
         \A q \in Patch : q # slot[s].patch /\ Passed(q, run, slot) => run[q].branch # run[slot[s].patch].branch
  PROVE  IInv'
<1>. DEFINE p == slot[s].patch
            local == Further(slot[s])
            next == NextNeeded(slot[s].pc, slot[s].claimed)
<1>1. slot[s].pc \in 9 .. 16  OBVIOUS
<1>2. /\ slot[s] \in Local /\ p \in Patch /\ run[p].status # NotCreated
      /\ run[p].genuine /\ run[p].permitted
      /\ slot[s].commit = run[p].commit /\ run[p].commit # NoCommit
  BY <1>1, Recorded, Commits
<1>3. slot' = [slot EXCEPT ![s] = local]  BY DEF Advance, Further
<1>4. next \in {12, 13} /\ next \in 1 .. 18  BY Onward
<1>5. local \in Local /\ local.pc = next /\ local.patch = p /\ local.commit = slot[s].commit
  BY <1>2, <1>4, FurtherLocal
<1>6. next \in 9 .. 17 /\ next \in 3 .. 17 /\ next \notin 3 .. 6 /\ next \notin {6, 7} /\ next \notin {3, 4, 5, 6, 8}
      /\ next # 7 /\ next # 17 /\ next # 18
  BY <1>4
<1>. HIDE DEF local, next
<1>7. Fits(local, run, github')  BY <1>2, <1>5, <1>6 DEF Fits
<1>8. recovery' \in Recovery /\ used' \in Used  BY DEF IInv
<1>9. /\ run' \in [Patch -> PRow]
      /\ \A q \in Patch : RowGrows(q, run[q], run'[q]) /\ run'[q].pr = run[q].pr
  BY RowsKept
<1>10. HubOK(github', run')  OBVIOUS
<1>11. slot' \in [Slot -> Local] /\ \A t \in Slot : slot'[t] = IF t = s THEN local ELSE slot[t]
  BY <1>3, <1>5 DEF IInv, Calls
<1>12. \A t \in Slot : slot'[t] = slot[t] \/ Fits(slot'[t], run', github')  BY <1>7, <1>11
<1>13. \A q \in Patch : Passed(q, run, slot') => q = p \/ Passed(q, run, slot)  BY <1>5, <1>11 DEF Passed
<1>14. ASSUME NEW q \in Patch, Passed(q, run, slot)  PROVE Own(q, run, github')
  <2>1. Own(q, run, github)  BY <1>14 DEF IInv, Passing
  <2>2. RowOK(q, run[q]) /\ RowGrows(q, run[q], run[q]) /\ run[q].branch \in Branch  BY RowOf, SameRow DEF PRow
  <2>. QED  BY <2>1, <2>2, OwnKept
<1>15. \A q \in Patch : Passed(q, run, slot') => Own(q, run, github')  BY <1>13, <1>14
<1>16. \A q, r \in Patch : Passed(q, run, slot') /\ Passed(r, run, slot') /\ q # r => run[q].branch # run[r].branch
  BY <1>13 DEF IInv, Passing
<1>17. Passing(run', github', slot')  BY <1>15, <1>16 DEF Passing
<1>. QED  BY <1>8, <1>9, <1>10, <1>11, <1>12, <1>17, Growing

\* A branch that is made had no commit, and one that is taken over has the
\* publication's own: another publication past its branch would have left its own there.
LEMMA BranchStep ==
  ASSUME IInv, NEW s \in Slot, ensurePublicationBranch(s)
  PROVE  IInv'
<1>. DEFINE p == slot[s].patch
            row == run[p]
            b == row.branch
            commit == slot[s].commit
<1>1. Running(s) /\ slot[s].pc = 11  BY PlaceOf, Places DEF ensurePublicationBranch
<1>2. UNCHANGED <<recovery, run, used>>  BY DEF ensurePublicationBranch
<1>3. slot[s].pc \in 9 .. 16  BY <1>1
<1>4. /\ p \in Patch /\ b \in Branch /\ commit = row.commit /\ commit \in Commit /\ commit # NoCommit
      /\ commit.patch = p
  BY <1>1, <1>3, Recorded, Commits DEF PRow, RowOK
<1>5. github \in Hub /\ HubOK(github, run)  BY DEF IInv, HubOK
\* The commits of two publications differ.
<1>6. ASSUME NEW q \in Patch, q # p, Passed(q, run, slot), run[q].branch = b
      PROVE  github.ref[b] # NoCommit /\ github.ref[b] # commit
  <2>1. run[q].commit # NoCommit /\ github.ref[b] \in {run[q].commit, Pushed}  BY <1>6 DEF IInv, Passing, Own
  <2>2. run[q].commit.patch = q  BY <2>1, RowOf DEF RowOK
  <2>3. run[q].commit # commit  BY <1>4, <1>6, <2>2
  <2>. QED  BY <1>4, <2>1, <2>3, Commits
<1>7. CASE /\ getRef(b) = NoCommit /\ github' = createRef(b, commit)
           /\ Advance(s, slot[s]) \/ githubFailure(s)
  <2>. DEFINE ref == [github.ref EXCEPT ![b] = commit]
  <2>1. github.ref \in [Branch -> Commit \cup {NoCommit, Pushed}] /\ github.prs \in Seq(PullRequest)  BY <1>5 DEF Hub
  <2>2. /\ ref \in [Branch -> Commit \cup {NoCommit, Pushed}]
        /\ \A c \in Branch : ref[c] = IF c = b THEN commit ELSE github.ref[c]
    BY <1>4, <2>1
  <2>3. github' = [github EXCEPT !.ref = ref]  BY <1>7 DEF createRef
  <2>. HIDE DEF ref
  <2>4. github' \in Hub /\ github'.ref = ref /\ github'.prs = github.prs  BY <1>5, <2>2, <2>3 DEF Hub
  <2>5. github.ref[b] = NoCommit  BY <1>7 DEF getRef
  <2>6. HubGrows(github, github')  BY <2>2, <2>4, <2>5 DEF HubGrows
  <2>7. \A n \in DOMAIN github.prs : github.prs[n].branch = b => ~github.prs[n].open
    <3>1. \A n \in DOMAIN github.prs : github.prs[n] \in PullRequest  BY <2>1
    <3>2. \A n \in DOMAIN github.prs : github.prs[n].head # NoCommit  BY <3>1, Commits DEF PullRequest
    <3>. QED  BY <1>5, <2>5, <3>2 DEF HubOK
  <2>8. \A n \in DOMAIN github.prs : github.prs[n].branch \in Branch
    <3>1. \A n \in DOMAIN github.prs : github.prs[n] \in PullRequest  BY <2>1
    <3>. QED  BY <3>1 DEF PullRequest
  <2>9. HubOK(github', run)
    <3>1. \A c \in Branch : ref[c] \in Commit => run[ref[c].patch].commit = ref[c] /\ run[ref[c].patch].branch = c
      BY <1>4, <1>5, <2>2 DEF HubOK
    <3>2. \A n \in DOMAIN github.prs : github.prs[n].open => github.prs[n].head = ref[github.prs[n].branch]
      BY <1>5, <2>2, <2>7, <2>8 DEF HubOK
    <3>. QED  BY <2>4, <3>1, <3>2 DEF HubOK
  <2>10. Own(p, run, github')  BY <1>4, <2>2, <2>4 DEF Own
  <2>11. \A q \in Patch : q # p /\ Passed(q, run, slot) => run[q].branch # b  BY <1>6, <2>5
  <2>12. CASE githubFailure(s)  BY <1>1, <1>2, <2>6, <2>9, <2>12, HubGithubFailing
  <2>13. CASE Advance(s, slot[s])  BY <1>1, <1>2, <2>6, <2>9, <2>10, <2>11, <2>13, TakesBranch
  <2>. QED  BY <1>7, <2>12, <2>13
<1>8. CASE /\ IF getRef(b) = commit THEN Advance(s, slot[s]) ELSE getRef(b) # NoCommit /\ Fail(s, "PUSH_FAILED")
           /\ UNCHANGED github
  <2>1. HubGrows(github, github') /\ HubOK(github', run)  BY <1>5, <1>8, SameHub
  <2>2. CASE getRef(b) = commit
    <3>1. github.ref[b] = commit /\ Advance(s, slot[s])  BY <1>8, <2>2 DEF getRef
    <3>2. Own(p, run, github')  BY <1>4, <1>8, <3>1 DEF Own
    <3>3. \A q \in Patch : q # p /\ Passed(q, run, slot) => run[q].branch # b  BY <1>6, <3>1
    <3>. QED  BY <1>1, <1>2, <2>1, <3>1, <3>2, <3>3, TakesBranch
  <2>3. CASE getRef(b) # commit
    <3>1. Fail(s, "PUSH_FAILED") /\ "PUSH_FAILED" \in Failure  BY <1>8, <2>3 DEF Failure
    <3>. QED  BY <1>1, <1>2, <2>1, <3>1, HubFailing
  <2>. QED  BY <2>2, <2>3
<1>9. CASE githubFailure(s) /\ UNCHANGED github
  BY <1>1, <1>2, <1>9, GithubFailing
<1>. QED  BY <1>7, <1>8, <1>9 DEF ensurePublicationBranch, Row
-----------------------------------------------------------------------------
(* The theorems.                                                           *)

LEMMA Initially ==
  ASSUME Init
  PROVE  IInv
<1>. DEFINE branch == CHOOSE b \in Branch : TRUE
            blank == [status |-> NotCreated, owner |-> NoOne, live |-> FALSE, attempts |-> 0,
                      branch |-> branch, genuine |-> TRUE, permitted |-> TRUE, commit |-> NoCommit, pr |-> 0]
            hub == [moved |-> FALSE, ref |-> [b \in Branch |-> NoCommit], prs |-> <<>>]
<1>1. recovery \in Recovery /\ used \in Used  BY PublicationAssumption DEF Init, Recovery, Used, Patch
<1>2. run = [p \in Patch |-> blank] /\ github = hub /\ slot = [s \in Slot |-> Idle]  BY DEF Init
<1>3. branch \in Branch  BY PublicationAssumption
<1>. HIDE DEF branch
<1>4. blank \in PRow /\ blank.status = NotCreated /\ blank.commit = NoCommit /\ blank.pr = 0
  BY <1>3 DEF PRow
<1>. HIDE DEF blank
<1>5. NotCreated # "CI_MONITORING"  BY DEF NotCreated
<1>6. \A p \in Patch : RowOK(p, blank)  BY <1>4, <1>5 DEF RowOK
<1>7. Rows  BY <1>2, <1>4, <1>6 DEF Rows
<1>8. hub \in Hub /\ (\A b \in Branch : hub.ref[b] = NoCommit) /\ hub.prs = <<>>
  <2>1. <<>> \in Seq(PullRequest)  OBVIOUS
  <2>. QED  BY <2>1 DEF Hub
<1>. HIDE DEF hub
<1>9. HubOK(github, run)  BY <1>2, <1>8, Commits DEF HubOK
<1>10. Drafts  BY <1>2, <1>4 DEF Drafts
<1>11. Calls  BY <1>2, IdleLocal, IdleFits DEF Calls
<1>12. \A p \in Patch : ~Passed(p, run, slot)  BY <1>2, <1>4, IdleFits DEF Passed
<1>13. Passing(run, github, slot)  BY <1>12 DEF Passing
<1>. QED  BY <1>1, <1>7, <1>9, <1>10, <1>11, <1>13 DEF IInv

LEMMA Stuttering ==
  ASSUME IInv, UNCHANGED vars
  PROVE  IInv'
<1>1. /\ recovery' = recovery /\ run' = run /\ github' = github /\ slot' = slot /\ used' = used
  BY DEF vars
<1>. QED  BY <1>1 DEF IInv, Rows, Drafts, Calls

LEMMA WorkStep ==
  ASSUME IInv, NEW s \in Slot, Work(s)
  PROVE  IInv'
BY AdvanceStep, LoadStep, ControlStep, TokenStep, MaterializeStep, RecordMaterializationStep, VerifyExistingStep,
   BranchStep, CheckBaseStep, PullRequestStep, RecordPullRequestStep, FailStep DEF Work

LEMMA Preserved == IInv /\ [Next]_vars => IInv'
<1>1. SUFFICES ASSUME IInv, [Next]_vars  PROVE IInv'  OBVIOUS
<1>2. CASE UNCHANGED vars  BY <1>1, <1>2, Stuttering
<1>3. ASSUME NEW p \in Patch, NEW b \in Branch, NEW genuine \in BOOLEAN, NEW permitted \in BOOLEAN,
             createPublication(p, b, genuine, permitted)
      PROVE  IInv'
  BY <1>1, <1>3, CreateStep
<1>4. ASSUME NEW s \in Slot, NEW p \in Patch, deliverJob(s, p) \/ reconcile(s, p)  PROVE IInv'
  <2>1. claimPublication(s, p) /\ UNCHANGED <<recovery, github>>  BY <1>4 DEF deliverJob, reconcile
  <2>2. Break \/ Ask \/ UNCHANGED used  BY <1>4 DEF deliverJob, reconcile
  <2>3. used' \in Used  BY <1>1, <2>2, Spending DEF IInv
  <2>. QED  BY <1>1, <2>1, <2>3, ClaimStep
<1>5. ASSUME NEW s \in Slot, Work(s)  PROVE IInv'
  BY <1>1, <1>5, WorkStep
<1>6. ASSUME NEW p \in Patch, cancel(p) \/ retry(p)  PROVE IInv'
  <2>1. "CANCELLED" \in Status /\ "POLICY_CHECK" \in Status  BY DEF Status, Executable, InFlight
  <2>2. run[p].status # NotCreated  BY <1>6, Statuses DEF cancel, retry
  <2>. QED  BY <1>1, <1>6, <2>1, <2>2, TransitionStep DEF cancel, retry
<1>7. ASSUME NEW p \in Patch, LeaseLapses(p) \/ LeaseExpires(p)  PROVE IInv'
  BY <1>1, <1>7, LeaseStep
<1>8. CASE approveAgain \/ withdraw \/ approveRevision  BY <1>1, <1>8, RecoveryStep
<1>9. CASE baseMoves  BY <1>1, <1>9, BaseStep
<1>10. ASSUME NEW b \in Branch, pushToBranch(b)  PROVE IInv'
  BY <1>1, <1>10, PushStep
<1>11. ASSUME NEW n \in DOMAIN github.prs, closePullRequest(n)  PROVE IInv'
  BY <1>1, <1>11, CloseStep
<1>12. ASSUME NEW w, Crash(w)  PROVE IInv'
  BY <1>1, <1>12, CrashStep
<1>. QED  BY <1>1, <1>2, <1>3, <1>4, <1>5, <1>6, <1>7, <1>8, <1>9, <1>10, <1>11, <1>12 DEF Next

LEMMA Always == Spec => []IInv
<1>1. Init => IInv  BY Initially
<1>. QED  BY <1>1, Preserved, PTL DEF Spec

LEMMA Typed == IInv => TypeOK
<1>1. SUFFICES ASSUME IInv  PROVE TypeOK  OBVIOUS
<1>2. recovery \in [ready : BOOLEAN, patch : Patch, stamp : 1 .. MaxStamp]  BY <1>1 DEF IInv, Recovery
<1>3. run \in [Patch -> PRow]  BY <1>1 DEF IInv, Rows
<1>4. github \in Hub  BY <1>1 DEF IInv, HubOK
<1>5. slot \in [Slot -> [pc : 0 .. Len(Program), patch : 0 .. MaxPatch, claimed : Status \cup {NotCreated},
                         stamp : 0 .. MaxStamp, commit : Commit \cup {NoCommit}, pr : Nat,
                         outcome : Status \cup {"none"}]]
  <2>1. slot \in [Slot -> Local]  BY <1>1 DEF IInv, Calls
  <2>2. \A local \in Local : local \in [pc : 0 .. Len(Program), patch : 0 .. MaxPatch, claimed : Status \cup {NotCreated},
                                        stamp : 0 .. MaxStamp, commit : Commit \cup {NoCommit}, pr : Nat,
                                        outcome : Status \cup {"none"}]
    BY ProgramSteps, Statuses DEF Local
  <2>. QED  BY <2>1, <2>2
<1>6. used \in [faults : 0 .. MaxFaults, requests : 0 .. MaxRequests]  BY <1>1 DEF IInv, Used
<1>. QED  BY <1>2, <1>3, <1>4, <1>5, <1>6 DEF TypeOK, PRow, Hub, PullRequest

\* Two monitored publications passed two branches, so their pull requests differ.
LEMMA Monitored == IInv => MonitoredHasDraft
<1>1. SUFFICES ASSUME IInv, NEW p \in Patch, run[p].status = "CI_MONITORING"
               PROVE  /\ run[p].pr \in DOMAIN github.prs
                      /\ github.prs[run[p].pr].branch = run[p].branch
                      /\ github.prs[run[p].pr].head \in {run[p].commit, Pushed}
                      /\ \A q \in Patch \ {p} : run[q].pr # run[p].pr
  BY DEF MonitoredHasDraft
<1>2. run[p].pr # 0  BY <1>1, RowOf DEF RowOK
<1>3. Draft(run[p].pr, run[p], github)  BY <1>1, <1>2 DEF IInv, Drafts
<1>4. ASSUME NEW q \in Patch \ {p}, run[q].pr = run[p].pr  PROVE FALSE
  <2>1. Draft(run[q].pr, run[q], github)  BY <1>1, <1>2, <1>4 DEF IInv, Drafts
  <2>2. run[q].branch = run[p].branch  BY <1>3, <1>4, <2>1 DEF Draft
  <2>3. Passed(p, run, slot) /\ Passed(q, run, slot)  BY <1>2, <1>4 DEF Passed
  <2>. QED  BY <1>1, <2>2, <2>3 DEF IInv, Passing
<1>. QED  BY <1>3, <1>4 DEF Draft

\* What is monitored has a draft pull request of its own (recordPullRequest), and
\* the state has its type.
THEOREM MonitoringHasDraft == Spec => []PublicationInv
<1>1. IInv => PublicationInv  BY Typed, Monitored DEF PublicationInv
<1>. QED  BY <1>1, Always, PTL

\* Whatever a head branch carries that a person did not push was approved
\* (verifyPublicationBundle, ensurePublicationBranch).
THEOREM OnlyApprovedIsPublished == Spec => []BranchIsApproved
<1>1. ASSUME IInv, NEW b \in Branch, github.ref[b] \in Commit
      PROVE  LET p == github.ref[b].patch IN
             run[p].commit = github.ref[b] /\ run[p].branch = b /\ run[p].genuine /\ run[p].permitted
  <2>. DEFINE p == github.ref[b].patch
  <2>1. p \in Patch /\ run[p].commit = github.ref[b] /\ run[p].branch = b
    BY <1>1, Commits DEF IInv, HubOK
  <2>2. run[p].commit # NoCommit  BY <1>1, <2>1, Commits
  <2>3. run[p].genuine /\ run[p].permitted  BY <1>1, <2>1, <2>2, RowOf DEF RowOK
  <2>. QED  BY <2>1, <2>3
<1>2. IInv => BranchIsApproved  BY <1>1 DEF BranchIsApproved
<1>. QED  BY <1>2, Always, PTL

\* No step, of a call or of a person, takes a publication out of CANCELLED: every
\* step of a call asserts the transition, and a retry asks for another status.
LEMMA CancelledStays ==
  ASSUME IInv, [Next]_vars, NEW p \in Patch, run[p].status = "CANCELLED"
  PROVE  run'[p].status = "CANCELLED"
<1>1. run \in [Patch -> PRow]  BY DEF IInv, Rows
<1>2. "CANCELLED" \notin Retryable /\ NotCreated # "CANCELLED" /\ "CANCELLED" \notin Executable
  BY DEF Retryable, NotCreated, Executable, InFlight
<1>3. CASE UNCHANGED run  BY <1>3
\* The row of a step, and the others, which it leaves alone.
<1>4. ASSUME NEW q \in Patch, NEW new, run' = [run EXCEPT ![q] = new],
             run[q].status = "CANCELLED" => new.status = "CANCELLED"
      PROVE  run'[p].status = "CANCELLED"
  BY <1>1, <1>4
<1>5. ASSUME NEW q \in Patch, NEW b \in Branch, NEW genuine \in BOOLEAN, NEW permitted \in BOOLEAN,
             createPublication(q, b, genuine, permitted)
      PROVE  run'[p].status = "CANCELLED"
  <2>1. run[q].status # "CANCELLED"  BY <1>2, <1>5 DEF createPublication
  <2>. DEFINE new == [run[q] EXCEPT !.status = "PUBLICATION_REQUESTED", !.branch = b,
                                    !.genuine = genuine, !.permitted = permitted]
  <2>2. run' = [run EXCEPT ![q] = new]  BY <1>5 DEF createPublication
  <2>. HIDE DEF new
  <2>. QED  BY <1>4, <2>1, <2>2
<1>6. ASSUME NEW s \in Slot, NEW q \in Patch, claimPublication(s, q)
      PROVE  run'[p].status = "CANCELLED"
  <2>1. run[q].status # "CANCELLED"  BY <1>2, <1>6 DEF claimPublication
  <2>2. run' = [run EXCEPT ![q] = Claimed(run[q], WorkerOf[s])]  BY <1>6 DEF claimPublication, Claimed
  <2>. QED  BY <1>4, <2>1, <2>2
<1>7. ASSUME NEW s \in Slot, Work(s)  PROVE run'[p].status = "CANCELLED"
  <2>. DEFINE q == slot[s].patch
  <2>1. Running(s)
    BY <1>7 DEF Work, At, advancePublication, loadExecutionBundle, checkControl, acquireInstallationToken,
       materializePublicationCommit, recordMaterialization, verifyExistingPublicationCommit, ensurePublicationBranch,
       checkBase, ensureDraftPullRequest, recordPullRequest, failPublication
  <2>2. q \in Patch /\ run[q] \in PRow  BY <2>1, Standing, RowOf
  <2>3. CASE advancePublication(s)
    <3>. DEFINE to == Target(Program[slot[s].pc])
    <3>1. UNCHANGED run \/ (run' = [run EXCEPT ![q] = [run[q] EXCEPT !.status = to]]
                            /\ assertPublicationTransition(run[q].status, to))
      BY <2>3 DEF advancePublication
    <3>. HIDE DEF to
    <3>2. run[q].status = "CANCELLED" /\ assertPublicationTransition(run[q].status, to) => to = "CANCELLED"  BY Statuses
    <3>3. [run[q] EXCEPT !.status = to].status = to  BY <2>2 DEF PRow
    <3>. QED  BY <1>3, <1>4, <2>2, <3>1, <3>2, <3>3
  <2>4. CASE recordMaterialization(s)
    <3>. DEFINE new == [run[q] EXCEPT !.status = "BRANCH_PUBLISHING", !.commit = slot[s].commit]
    <3>1. UNCHANGED run \/ (run' = [run EXCEPT ![q] = new]
                            /\ assertPublicationTransition(run[q].status, "BRANCH_PUBLISHING"))
      BY <2>4 DEF recordMaterialization
    <3>2. run[q].status = "CANCELLED" => ~assertPublicationTransition(run[q].status, "BRANCH_PUBLISHING")  BY Statuses
    <3>. HIDE DEF new
    <3>. QED  BY <1>3, <1>4, <2>2, <3>1, <3>2
  <2>5. CASE recordPullRequest(s)
    <3>. DEFINE new == [run[q] EXCEPT !.status = "CI_MONITORING", !.pr = slot[s].pr, !.owner = NoOne, !.live = FALSE]
    <3>1. UNCHANGED run \/ (run' = [run EXCEPT ![q] = new]
                            /\ assertPublicationTransition(run[q].status, "CI_MONITORING"))
      BY <2>5 DEF recordPullRequest
    <3>2. run[q].status = "CANCELLED" => ~assertPublicationTransition(run[q].status, "CI_MONITORING")  BY Statuses
    <3>. HIDE DEF new
    <3>. QED  BY <1>3, <1>4, <2>2, <3>1, <3>2
  <2>6. CASE failPublication(s)
    <3>. DEFINE to == slot[s].outcome
                new == [run[q] EXCEPT !.status = to, !.owner = NoOne, !.live = FALSE]
    <3>1. UNCHANGED run \/ (run' = [run EXCEPT ![q] = new] /\ assertPublicationTransition(run[q].status, to))
      BY <2>6 DEF failPublication
    <3>. HIDE DEF to
    <3>2. run[q].status = "CANCELLED" /\ assertPublicationTransition(run[q].status, to) => to = "CANCELLED"  BY Statuses
    <3>3. new.status = to  BY <2>2 DEF PRow
    <3>. HIDE DEF new
    <3>. QED  BY <1>3, <1>4, <2>2, <3>1, <3>2, <3>3
  <2>7. CASE ~(advancePublication(s) \/ recordMaterialization(s) \/ recordPullRequest(s) \/ failPublication(s))
    <3>1. UNCHANGED run
      BY <1>7, <2>7 DEF Work, Keep, loadExecutionBundle, checkControl, acquireInstallationToken,
         materializePublicationCommit, verifyExistingPublicationCommit, ensurePublicationBranch, checkBase,
         ensureDraftPullRequest
    <3>. QED  BY <1>3, <3>1
  <2>. QED  BY <2>3, <2>4, <2>5, <2>6, <2>7
<1>8. ASSUME NEW q \in Patch, cancel(q) \/ retry(q)  PROVE run'[p].status = "CANCELLED"
  <2>1. PICK to \in {"CANCELLED", "POLICY_CHECK"} :
          run' = [run EXCEPT ![q] = [run[q] EXCEPT !.status = to]] /\ (run[q].status = "CANCELLED" => to = "CANCELLED")
    BY <1>2, <1>8 DEF cancel, retry, transition
  <2>2. [run[q] EXCEPT !.status = to].status = to  BY <1>1 DEF PRow
  <2>. QED  BY <1>4, <2>1, <2>2
<1>9. ASSUME NEW q \in Patch, LeaseLapses(q) \/ LeaseExpires(q)  PROVE run'[p].status = "CANCELLED"
  <2>1. run' = [run EXCEPT ![q] = [run[q] EXCEPT !.live = FALSE]]  BY <1>9 DEF LeaseLapses, LeaseExpires
  <2>2. [run[q] EXCEPT !.live = FALSE].status = run[q].status  BY <1>1 DEF PRow
  <2>. QED  BY <1>4, <2>1, <2>2
<1>10. ASSUME NEW w, Crash(w)  PROVE run'[p].status = "CANCELLED"
  <2>1. run'[p] = [run[p] EXCEPT !.owner = IF @ = w THEN Gone ELSE @]  BY <1>10 DEF Crash
  <2>. DEFINE owner == IF run[p].owner = w THEN Gone ELSE run[p].owner
  <2>2. run'[p] = [run[p] EXCEPT !.owner = owner]  BY <2>1
  <2>. HIDE DEF owner
  <2>3. [run[p] EXCEPT !.owner = owner].status = run[p].status  BY <1>1 DEF PRow
  <2>. QED  BY <2>2, <2>3
<1>11. CASE UNCHANGED vars  BY <1>3, <1>11 DEF vars
<1>. QED
  BY <1>3, <1>5, <1>6, <1>7, <1>8, <1>9, <1>10, <1>11 DEF Next, deliverJob, reconcile, approveAgain, withdraw,
     approveRevision, baseMoves, pushToBranch, closePullRequest

\* What was cancelled stays cancelled (assertPublicationTransition, transition).
THEOREM CancelledIsFinal == Spec => CancellationIsFinal
<1>1. IInv /\ [Next]_vars => [\A p \in Patch : run[p].status = "CANCELLED" => run'[p].status = "CANCELLED"]_vars
  BY CancelledStays
<1>. QED  BY <1>1, Always, PTL DEF Spec, CancellationIsFinal
=============================================================================
