---------------------- MODULE SandboxExecution_proofs ----------------------
(***************************************************************************)
(* Proofs about SandboxExecution, for every number of workers, runs,       *)
(* reconciliation passes, commands and faults.                             *)
(*                                                                         *)
(* The inductive invariant IInv adds to the type invariant: the counters   *)
(* of a run stay within the plan (Counting); a verdict that claims a clean *)
(* sandbox comes from a run that could show it (Proving); the command rows *)
(* a run has passed are its own and acceptable (Earning); and the row      *)
(* never has a live lease without an owner, nor any lease once completed   *)
(* (Ledger).                                                               *)
(***************************************************************************)
EXTENDS SandboxExecution, TLAPS

RunsOK   == run \in [Run -> RunState]
PassesOK == pass \in [Pass -> PassState]

\* TypeOK but for the local variables of runs and passes.
StoreOK ==
  /\ status \in Status /\ rstatus \in Status /\ result \in Result
  /\ completed \in BOOLEAN /\ leaseOwner \in Token \union {NoOne} /\ leaseLive \in BOOLEAN
  /\ cancel \in BOOLEAN /\ queued \in BOOLEAN /\ alive \subseteq Worker
  /\ cmdBy \in [1..Total -> Run \union {NoOne}]
  /\ cmdStatus \in [1..Total -> CommandStatus]
  /\ logs \in [1..(Total + 1) -> Run \union {NoOne}]
  /\ proofs \subseteq BOOLEAN
  /\ finals \in Nat /\ author \in Run \union Pass \union {NoOne}
  /\ resources \subseteq Run \union {"volume"}
  /\ faults \in 0..MaxFaults

Loop == {"beat", "phase", "check", "start", "create", "exec", "finish"}

\* The counters of a run stay within the plan of the request.
Counting(r) ==
  /\ run[r].pc \in {"idle", "claim", "preparing", "prepare"} => run[r].seq = 0
  /\ run[r].pc \in {"check", "start"} => run[r].seq < Total
  /\ run[r].pc \in {"create", "exec", "finish"} => run[r].seq >= 1
  /\ run[r].pc = "create" => run[r].emitted = run[r].seq - 1
  /\ run[r].pc \in {"idle", "claim", "preparing", "prepare"} \union (Loop \ {"create"})
       => run[r].emitted = run[r].seq

\* The states of a run in which its verdict accounts for its own cleanup.
Accounted == {"proof", "final", "record", "complete", "erecord", "ecomplete"}

Proving(r) ==
  /\ run[r].pc \in Accounted /\ ~run[r].proofOk => run[r].verdict.status = "CLEANUP_FAILED"
  /\ run[r].pc \in {"complete", "ecomplete"} => run[r].proofOk \in proofs

\* The first k command rows are r's own, and acceptable.
Own(r, k)  == \A n \in 1..k : cmdBy[n] = r
Good(k)    == \A n \in 1..k : cmdStatus[n] \in Accepted(n)

Ended == {"SUCCEEDED", "FAILED", "CANCELLED", "TIMED_OUT"}
Late  == {"collect", "cleaning", "cleanup", "proof", "final", "record", "complete", "emergency"}

Earning(r) ==
  /\ run[r].pc \in Loop => Own(r, run[r].seq)
  /\ run[r].pc \in {"phase", "check", "start"} => Good(run[r].seq)
  /\ run[r].pc \in {"create", "exec", "finish", "beat"} => Good(run[r].seq - 1)
  /\ run[r].pc = "finish" => run[r].outcome \in Ended
  /\ run[r].pc = "beat" /\ run[r].seq >= 1 =>
       run[r].outcome \in Ended /\ cmdStatus[run[r].seq] = run[r].outcome
  /\ run[r].verdict.result \in Conclusive =>
       run[r].pc \in Late /\ Own(r, Total) /\ Good(Total)

\* A run or pass that works, works on some process.
RunInv(r) == /\ run[r].pc \notin Gone => run[r].at \in Worker
             /\ Counting(r) /\ Proving(r) /\ Earning(r)

PassInv(p) == /\ pass[p].pc # "idle" => pass[p].at \in Worker
              /\ pass[p].pc = "complete" => pass[p].proofOk \in proofs

\* The row has no live lease without an owner, and none once completed.
Ledger ==
  /\ leaseOwner = NoOne => ~leaseLive
  /\ completed => /\ leaseOwner = NoOne
                  /\ status \in Terminal /\ rstatus = status
  /\ ~completed => result = "NONE" /\ author = NoOne /\ finals = 0
  /\ status = "NONE" => proofs = {} /\ leaseOwner = NoOne /\ ~completed

LocalInv == /\ RunsOK /\ PassesOK /\ StoreOK
            /\ \A r \in Run : RunInv(r)
            /\ \A p \in Pass : PassInv(p)

IInv == LocalInv /\ Ledger /\ ConclusiveIsEarned

-----------------------------------------------------------------------------
(* What an update of the local variables of one run or pass does.          *)

OnlyRun(r)  == RunsOK' /\ \A q \in Run \ {r} : run'[q] = run[q]
OnlyPass(p) == PassesOK' /\ \A q \in Pass \ {p} : pass'[q] = pass[q]

\* The fields of a run, of a pass and of a verdict have their types.
LEMMA Fields == ASSUME RunsOK, NEW r \in Run
  PROVE /\ run[r] \in RunState
        /\ run[r].pc \in Steps \union Gone /\ run[r].at \in Worker \union {NoOne}
        /\ run[r].seq \in 0..Total /\ run[r].emitted \in 0..Total
        /\ run[r].outcome \in CommandStatus
        /\ run[r].verdict \in Verdict /\ run[r].proofOk \in BOOLEAN
  BY DEF RunsOK, RunState

\* An update of one run by a state of a run.
LEMMA UpdateRun == ASSUME RunsOK, NEW r \in Run, NEW x \in RunState, run' = [run EXCEPT ![r] = x]
  PROVE OnlyRun(r) /\ run'[r] = x
  BY DEF RunsOK, OnlyRun

\* Every verdict the handler can settle on is one.
LEMMA VerdictTypes ==
  /\ Unjudged \in Verdict /\ InfraFailed \in Verdict /\ PolicyBlocked \in Verdict
  /\ TimedOut \in Verdict
  /\ Outcome("COMPLETED", "INCONCLUSIVE") \in Verdict
  /\ \A reason : AbortVerdict(reason) \in Verdict
  /\ \A ok \in BOOLEAN : ReapVerdict(ok) \in Verdict
  BY DEF Unjudged, InfraFailed, PolicyBlocked, TimedOut, AbortVerdict, ReapVerdict, Outcome,
         Verdict, Terminal, Result, Conclusive

\* None of the verdicts that end in the catch blocks is conclusive.
LEMMA Inconclusive ==
  /\ Unjudged.result \notin Conclusive /\ InfraFailed.result \notin Conclusive
  /\ PolicyBlocked.result \notin Conclusive /\ TimedOut.result \notin Conclusive
  /\ Outcome("COMPLETED", "INCONCLUSIVE").result \notin Conclusive
  /\ \A reason : AbortVerdict(reason).result \notin Conclusive
  /\ \A ok \in BOOLEAN : ReapVerdict(ok).result \notin Conclusive
  BY DEF Unjudged, InfraFailed, PolicyBlocked, TimedOut, AbortVerdict, ReapVerdict, Outcome,
         Conclusive

\* Go moves the control of one run.
LEMMA GoFields == ASSUME RunsOK, NEW r \in Run, NEW l \in Steps \union Gone, Go(r, l)
  PROVE /\ OnlyRun(r)
        /\ run'[r].pc = l /\ run'[r].at = run[r].at
        /\ run'[r].seq = run[r].seq /\ run'[r].emitted = run[r].emitted
        /\ run'[r].outcome = run[r].outcome /\ run'[r].verdict = run[r].verdict
        /\ run'[r].proofOk = run[r].proofOk
  BY DEF RunsOK, OnlyRun, RunState, Go

\* The initial local variables have their types.
LEMMA FreshType == Fresh \in RunState /\ Resting \in PassState
<1>1. 0 \in 0..Total
  BY SandboxAssumption DEF Total
<1>2. "idle" \in Steps \union Gone /\ "NONE" \in CommandStatus
  BY DEF Gone, CommandStatus
<1> QED
  BY <1>1, <1>2, VerdictTypes DEF Fresh, RunState, Resting, PassState

\* Leave forgets the local variables of one run.
LEMMA LeaveFields == ASSUME RunsOK, NEW r \in Run, NEW l \in Gone, Leave(r, l)
  PROVE /\ OnlyRun(r) /\ run'[r].pc = l
        /\ run'[r].seq = 0 /\ run'[r].emitted = 0 /\ run'[r].verdict = Unjudged
<1>1. [Fresh EXCEPT !.pc = l] \in RunState
  BY FreshType DEF RunState
<1>2. run' = [run EXCEPT ![r] = [Fresh EXCEPT !.pc = l]]
  BY DEF Leave
<1>3. run'[r] = [Fresh EXCEPT !.pc = l]
  BY <1>2 DEF RunsOK
<1> QED
  BY <1>1, <1>2, <1>3 DEF RunsOK, OnlyRun, Fresh

\* Throws settles the verdict of one run.
LEMMA ThrowsFields == ASSUME RunsOK, NEW r \in Run, NEW v \in Verdict, Throws(r, v)
  PROVE /\ OnlyRun(r)
        /\ run'[r].pc = "emit" /\ run'[r].at = run[r].at
        /\ run'[r].seq = 0 /\ run'[r].emitted = run[r].emitted
        /\ run'[r].verdict = v
<1>1. 0 \in 0..Total /\ "NONE" \in CommandStatus /\ "emit" \in Steps
  BY SandboxAssumption DEF Total, CommandStatus, Steps
<1> QED
  BY <1>1 DEF RunsOK, OnlyRun, RunState, Throws

\* A step of one run keeps the local invariant if it keeps that run's part of
\* it, forgets no cleanup proof and leaves the command rows of others alone.
LEMMA RunFrame ==
  ASSUME LocalInv, NEW r \in Run, OnlyRun(r), UNCHANGED pass, proofs \subseteq proofs', StoreOK',
         RunInv(r)',
         \A q \in Run \ {r}, n \in 1..Total :
            cmdBy[n] = q => cmdBy'[n] = q /\ cmdStatus'[n] = cmdStatus[n]
  PROVE  LocalInv'
<1>1. ASSUME NEW q \in Run \ {r} PROVE RunInv(q)'
  <2>1. run'[q] = run[q] /\ RunInv(q) /\ run[q].seq \in 0..Total
    BY Fields DEF OnlyRun, LocalInv
  <2>2. Counting(q)' /\ Proving(q)' /\ (run'[q].pc \notin Gone => run'[q].at \in Worker)
    BY <2>1 DEF RunInv, Counting, Proving
  <2>3. \A k \in 0..Total : Own(q, k) => Own(q, k)' /\ (Good(k) => Good(k)')
    BY SandboxAssumption DEF Own, Good, Accepted, Total
  <2>4. run[q].pc \in Loop => Own(q, run[q].seq)
    BY <2>1 DEF RunInv, Earning
  <2>5. run[q].pc \in {"create", "exec", "finish", "beat"} => Good(run[q].seq - 1)'
    BY <2>1, <2>4, SandboxAssumption DEF RunInv, Earning, Own, Good, Accepted, Loop, Total
  <2>6. run[q].pc \in {"phase", "check", "start"} => Good(run[q].seq)'
    BY <2>1, <2>3, <2>4 DEF RunInv, Earning, Loop
  <2>7. run[q].pc = "beat" /\ run[q].seq >= 1 => cmdStatus'[run[q].seq] = run[q].outcome
    BY <2>1, <2>4, SandboxAssumption DEF RunInv, Earning, Own, Loop, Total
  <2>8. Total \in 0..Total
    BY SandboxAssumption DEF Total
  <2>9. Earning(q)'
    BY <2>1, <2>3, <2>4, <2>5, <2>6, <2>7, <2>8 DEF RunInv, Earning
  <2> QED
    BY <2>2, <2>9 DEF RunInv
<1>2. \A p \in Pass : PassInv(p)'
  BY DEF LocalInv, PassInv
<1> QED
  BY <1>1, <1>2 DEF LocalInv, OnlyRun, PassesOK

-----------------------------------------------------------------------------
(* The steps of a run keep the local invariant.                            *)

\* The faults stay within their bound.
LEMMA FaultType ==
  ASSUME faults \in 0..MaxFaults, Fault \/ NoFault PROVE faults' \in 0..MaxFaults
  BY SandboxAssumption DEF Fault, NoFault

\* What is known of the command rows stays while they do.
LEMMA RowsKept ==
  ASSUME UNCHANGED cmdVars, NEW r \in Run
  PROVE  \A k : (Own(r, k) => Own(r, k)') /\ (Good(k) => Good(k)')
  BY DEF cmdVars, Own, Good, Accepted

\* A thrown error keeps the part of the run: its verdict is not conclusive.
LEMMA ThrowsInv ==
  ASSUME LocalInv, NEW r \in Run, run[r].pc \notin Gone, NEW v \in Verdict,
         v.result \notin Conclusive, Throws(r, v)
  PROVE  OnlyRun(r) /\ RunInv(r)'
<1>1. OnlyRun(r) /\ run'[r].pc = "emit" /\ run'[r].at = run[r].at /\ run'[r].verdict = v
  BY ThrowsFields DEF LocalInv
<1> QED
  BY <1>1 DEF LocalInv, RunInv, Counting, Proving, Earning, Loop, Accounted

\* So does the end of the handler.
LEMMA LeaveInv ==
  ASSUME LocalInv, NEW r \in Run, NEW l \in {"done", "failed", "skipped"}, Leave(r, l)
  PROVE  OnlyRun(r) /\ RunInv(r)'
<1>1. OnlyRun(r) /\ run'[r].pc = l /\ run'[r].verdict = Unjudged
  BY LeaveFields DEF LocalInv, Gone
<1> QED
  BY <1>1, Inconclusive DEF LocalInv, RunInv, Counting, Proving, Earning, Loop, Accounted, Gone

LEMMA ClaimInv == ASSUME LocalInv, NEW r \in Run, Claim(r) PROVE LocalInv'
<1>1. OnlyRun(r) /\ RunInv(r)'
  <2>1. CASE Go(r, "preparing")
    BY <2>1, GoFields DEF LocalInv, Claim, RunInv, Counting, Proving, Earning, Loop, Accounted,
                          Gone, Steps, Late
  <2>2. CASE Leave(r, "skipped") \/ Leave(r, "failed")
    BY <2>2, LeaveInv
  <2> QED
    BY <2>1, <2>2 DEF Claim
<1>2. Mine(r) \in Token
  BY DEF LocalInv, RunInv, Claim, Mine, Token, Gone
<1>3. StoreOK'
  BY <1>2, FaultType DEF LocalInv, StoreOK, Claim, ClaimExecution, rowVars, storeVars, cmdVars,
     endVars, envVars, Status, Active, NoFault
<1> QED
  BY <1>1, <1>3, RunFrame DEF Claim, storeVars, cmdVars

LEMMA PreparingInv == ASSUME LocalInv, NEW r \in Run, Preparing(r) PROVE LocalInv'
<1>1. OnlyRun(r) /\ RunInv(r)'
  <2>1. CASE Go(r, "prepare")
    BY <2>1, GoFields DEF LocalInv, Preparing, RunInv, Counting, Proving, Earning, Loop,
                          Accounted, Gone, Steps, Late
  <2>2. CASE Throws(r, InfraFailed)
    BY <2>2, ThrowsInv, VerdictTypes, Inconclusive DEF Preparing, Gone
  <2> QED
    BY <2>1, <2>2 DEF Preparing, StatusChanged
<1>2. StoreOK'
  BY FaultType DEF LocalInv, StoreOK, Preparing, StatusChanged, Refused, UpdateStatus, rowVars,
     storeVars, cmdVars, endVars, envVars, Status, Active
<1> QED
  BY <1>1, <1>2, RunFrame DEF Preparing, storeVars, cmdVars

LEMMA PrepareInv == ASSUME LocalInv, NEW r \in Run, Prepare(r) PROVE LocalInv'
<1>1. OnlyRun(r) /\ RunInv(r)'
  <2>1. CASE Go(r, "beat")
    BY <2>1, GoFields, SandboxAssumption DEF LocalInv, Prepare, RunInv, Counting, Proving, Earning,
       Own, Good, Loop, Accounted, Gone, Steps, Late
  <2>2. CASE Throws(r, InfraFailed) \/ Throws(r, PolicyBlocked)
    BY <2>2, ThrowsInv, VerdictTypes, Inconclusive DEF Prepare, Gone
  <2> QED
    BY <2>1, <2>2 DEF Prepare
<1>2. StoreOK'
  BY FaultType DEF LocalInv, StoreOK, Prepare, rowVars, storeVars, cmdVars, endVars, envVars
<1> QED
  BY <1>1, <1>2, RunFrame DEF Prepare, storeVars, cmdVars

\* Beat: the command that ended is acceptable if the loop goes on.
LEMMA BeatInv == ASSUME LocalInv, NEW r \in Run, Beat(r) PROVE LocalInv'
<1>1. OnlyRun(r) /\ RunInv(r)'
  <2> DEFINE n == run[r].seq
  <2>1. CASE Throws(r, InfraFailed) \/ Throws(r, TimedOut)
             \/ Throws(r, Outcome("COMPLETED", "INCONCLUSIVE"))
    BY <2>1, ThrowsInv, VerdictTypes, Inconclusive DEF Beat, Gone
  <2>2. CASE /\ run' = [run EXCEPT ![r].outcome = "NONE",
                        ![r].pc = IF n \in {0, Installs, Total} THEN "phase" ELSE "check"]
             /\ run[r].outcome # "TIMED_OUT"
             /\ ~(run[r].outcome \in {"FAILED", "CANCELLED"} /\ n \in 1..Installs)
    <3> DEFINE l == IF n \in {0, Installs, Total} THEN "phase" ELSE "check"
    <3>1. "NONE" \in CommandStatus /\ l \in Steps
      BY DEF CommandStatus, Steps
    <3>2. /\ OnlyRun(r)
          /\ run'[r].pc = l
          /\ run'[r].at = run[r].at /\ run'[r].seq = n /\ run'[r].emitted = run[r].emitted
          /\ run'[r].verdict = run[r].verdict
      <4> HIDE DEF l
      <4>1. run' = [run EXCEPT ![r].outcome = "NONE", ![r].pc = l]
        BY <2>2 DEF l
      <4> QED
        BY <4>1, <3>1 DEF LocalInv, RunsOK, RunState, OnlyRun
    <3>3. n \in 0..Total /\ Own(r, n) /\ Good(n - 1)
          /\ (n >= 1 => run[r].outcome \in Ended /\ cmdStatus[n] = run[r].outcome)
      BY Fields DEF LocalInv, RunInv, Earning, Beat, Loop
    <3>4. n >= 1 => cmdStatus[n] \in Accepted(n)
      BY <2>2, <3>3, SandboxAssumption DEF Accepted, Ended, Total
    <3>5. Good(n)
      BY <3>3, <3>4, SandboxAssumption DEF Good, Total
    <3>6. \A k : (Own(r, k) => Own(r, k)') /\ (Good(k) => Good(k)')
      BY RowsKept DEF Beat, storeVars
    <3>7. Counting(r)'
      BY <3>2, <3>3, SandboxAssumption DEF LocalInv, RunInv, Counting, Beat, Loop, Total
    <3>8. Earning(r)' /\ Proving(r)'
      BY <3>2, <3>3, <3>5, <3>6 DEF LocalInv, RunInv, Earning, Proving, Beat, Loop, Accounted, Late
    <3> QED
      BY <3>2, <3>7, <3>8 DEF RunInv, LocalInv, Beat, Gone
  <2> QED
    BY <2>1, <2>2 DEF Beat, AfterCommand
<1>2. StoreOK'
  BY FaultType DEF LocalInv, StoreOK, Beat, Heartbeat, rowVars, storeVars, cmdVars, endVars, envVars
<1> QED
  BY <1>1, <1>2, RunFrame DEF Beat, storeVars, cmdVars

\* Phase: when the plan is done, every command row is the run's and acceptable.
LEMMA PhaseInv == ASSUME LocalInv, NEW r \in Run, Phase(r) PROVE LocalInv'
<1>1. OnlyRun(r) /\ RunInv(r)'
  <2>1. CASE Throws(r, InfraFailed)
    BY <2>1, ThrowsInv, VerdictTypes, Inconclusive DEF Phase, Gone
  <2>2. CASE run[r].seq < Total /\ Go(r, "check")
    <3>1. \A k : (Own(r, k) => Own(r, k)') /\ (Good(k) => Good(k)')
      BY RowsKept DEF Phase, storeVars
    <3> QED
      BY <2>2, <3>1, GoFields DEF LocalInv, Phase, RunInv, Counting, Proving, Earning, Loop,
         Accounted, Gone, Steps, Late
  <2>3. ASSUME run[r].seq = Total, NEW v \in Result,
               run' = [run EXCEPT ![r].verdict.result = v, ![r].pc = "collect"]
        PROVE  OnlyRun(r) /\ RunInv(r)'
    <3>1. "collect" \in Steps /\ run[r] \in RunState
      BY Fields DEF Steps, LocalInv
    <3>2. [run[r].verdict EXCEPT !.result = v] \in Verdict
      BY <3>1 DEF RunState, Verdict
    <3>3. OnlyRun(r) /\ run'[r].pc = "collect" /\ run'[r].at = run[r].at
      BY <2>3, <3>1, <3>2 DEF LocalInv, RunsOK, RunState, OnlyRun
    <3>4. Own(r, Total)' /\ Good(Total)'
      BY <2>3 DEF LocalInv, RunInv, Earning, Own, Good, Accepted, Phase, Loop, storeVars, cmdVars
    <3> QED
      BY <3>3, <3>4 DEF LocalInv, Phase, RunInv, Counting, Proving, Earning, Loop, Accounted, Gone,
         Late
  <2>4. \A v \in Conclusions(r) : v \in Result
    BY DEF Conclusions, Conclusive, Result
  <2> QED
    BY <2>1, <2>2, <2>3, <2>4 DEF Phase, StatusChanged
<1>2. StoreOK'
  BY FaultType DEF LocalInv, StoreOK, Phase, StatusChanged, Refused, UpdateStatus, rowVars,
     storeVars, cmdVars, endVars, envVars, Status, Active
<1> QED
  BY <1>1, <1>2, RunFrame DEF Phase, storeVars, cmdVars

LEMMA CheckInv == ASSUME LocalInv, NEW r \in Run, Check(r) PROVE LocalInv'
<1>1. OnlyRun(r) /\ RunInv(r)'
  <2>1. CASE Go(r, "start")
    <3>1. \A k : (Own(r, k) => Own(r, k)') /\ (Good(k) => Good(k)')
      BY RowsKept DEF Check, storeVars
    <3> QED
      BY <2>1, <3>1, GoFields DEF LocalInv, Check, RunInv, Counting, Proving, Earning, Loop,
         Accounted, Gone, Steps, Late
  <2>2. CASE Throws(r, InfraFailed) \/ Throws(r, AbortVerdict(run[r].abort))
    BY <2>2, ThrowsInv, VerdictTypes, Inconclusive DEF Check, Gone
  <2> QED
    BY <2>1, <2>2 DEF Check
<1>2. StoreOK'
  BY FaultType DEF LocalInv, StoreOK, Check, rowVars, storeVars, cmdVars, endVars, envVars
<1> QED
  BY <1>1, <1>2, RunFrame DEF Check, storeVars, cmdVars

\* CommandStarted: the unique key keeps the rows of other runs.
LEMMA CommandStartedInv == ASSUME LocalInv, NEW r \in Run, CommandStarted(r) PROVE LocalInv'
<1> DEFINE n == run[r].seq + 1
<1>1. n \in 1..Total /\ run[r].seq \in 0..Total
  BY Fields, SandboxAssumption DEF LocalInv, RunInv, Counting, CommandStarted, Total
<1>2. OnlyRun(r) /\ RunInv(r)'
  <2>1. CASE Throws(r, InfraFailed)
    BY <2>1, ThrowsInv, VerdictTypes, Inconclusive DEF CommandStarted, Gone
  <2>2. CASE InsertCommand(r, n) /\ run' = [run EXCEPT ![r].seq = n, ![r].pc = "create"]
    <3>1. "create" \in Steps /\ n \in 0..Total
      BY <1>1 DEF Steps
    <3>2. /\ OnlyRun(r) /\ run'[r].pc = "create" /\ run'[r].at = run[r].at
          /\ run'[r].seq = n /\ run'[r].emitted = run[r].emitted
          /\ run'[r].verdict = run[r].verdict
      BY <2>2, <3>1 DEF LocalInv, RunsOK, RunState, OnlyRun
    <3>3. Own(r, run[r].seq) /\ Good(run[r].seq)
      BY DEF LocalInv, RunInv, Earning, CommandStarted, Loop
    <3>4. \A k \in 1..n : cmdBy'[k] = r
      BY <1>1, <2>2, <3>3 DEF Own, InsertCommand, LocalInv, StoreOK
    <3>5. \A k \in 1..(n - 1) : cmdStatus'[k] \in Accepted(k)
      BY <1>1, <2>2, <3>3 DEF Good, Accepted, InsertCommand, LocalInv, StoreOK
    <3>6. Own(r, run[r].seq)' /\ Good(run[r].seq - 1)'
      BY <3>2, <3>4, <3>5 DEF Own, Good, Accepted
    <3> QED
      BY <1>1, <3>2, <3>6 DEF LocalInv, CommandStarted, RunInv, Counting, Proving, Earning,
         Loop, Accounted, Gone, Late
  <2> QED
    BY <2>1, <2>2 DEF CommandStarted
<1>3. StoreOK'
  <2>1. cmdBy' \in [1..Total -> Run \union {NoOne}] /\ cmdStatus' \in [1..Total -> CommandStatus]
    BY DEF LocalInv, StoreOK, CommandStarted, Refused, InsertCommand, cmdVars, CommandStatus
  <2> QED
    BY <2>1, FaultType DEF LocalInv, StoreOK, CommandStarted, Refused, rowVars, endVars, envVars
<1>4. \A q \in Run \ {r}, k \in 1..Total :
        cmdBy[k] = q => cmdBy'[k] = q /\ cmdStatus'[k] = cmdStatus[k]
  BY <1>1, SandboxAssumption DEF LocalInv, StoreOK, CommandStarted, Refused, InsertCommand, cmdVars
<1> QED
  BY <1>2, <1>3, <1>4, RunFrame DEF CommandStarted

\* AppendChunk keeps the type of the log.
LEMMA ChunkType ==
  ASSUME logs \in [1..(Total + 1) -> Run \union {NoOne}], NEW r \in Run, NEW n,
         AppendChunk(r, n) \/ UNCHANGED logs
  PROVE  logs' \in [1..(Total + 1) -> Run \union {NoOne}]
  BY DEF AppendChunk

LEMMA CreateContainerInv == ASSUME LocalInv, NEW r \in Run, CreateContainer(r) PROVE LocalInv'
<1> DEFINE n == run[r].emitted + 1
<1>0. n \in 0..Total /\ n = run[r].seq /\ run[r].seq \in 0..Total
  BY Fields DEF LocalInv, RunInv, Counting, CreateContainer
<1>1. OnlyRun(r) /\ RunInv(r)'
  <2>0. \A k : (Own(r, k) => Own(r, k)') /\ (Good(k) => Good(k)')
    BY RowsKept DEF CreateContainer
  <2>1. CASE Throws(r, InfraFailed) \/ Throws(r, PolicyBlocked)
    BY <2>1, ThrowsInv, VerdictTypes, Inconclusive DEF CreateContainer, Gone
  <2>2. CASE run' = [run EXCEPT ![r].emitted = n, ![r].pc = "exec"]
    <3>1. "exec" \in Steps
      BY DEF Steps
    <3>2. /\ OnlyRun(r) /\ run'[r].pc = "exec" /\ run'[r].at = run[r].at
          /\ run'[r].seq = run[r].seq /\ run'[r].emitted = n
          /\ run'[r].verdict = run[r].verdict
      BY <1>0, <2>2, <3>1 DEF LocalInv, RunsOK, RunState, OnlyRun
    <3> QED
      BY <1>0, <2>0, <3>2 DEF LocalInv, CreateContainer, RunInv, Counting, Proving, Earning, Loop,
         Accounted, Gone, Late
  <2>3. CASE run' = [run EXCEPT ![r] = [@ EXCEPT !.emitted = n, !.pc = "emit",
                                        !.verdict = InfraFailed, !.seq = 0, !.limited = FALSE]]
    <3>1. "emit" \in Steps /\ 0 \in 0..Total
      BY SandboxAssumption DEF Steps, Total
    <3>2. OnlyRun(r) /\ run'[r].pc = "emit" /\ run'[r].at = run[r].at
          /\ run'[r].verdict = InfraFailed
      BY <1>0, <2>3, <3>1, VerdictTypes DEF LocalInv, RunsOK, RunState, OnlyRun
    <3> QED
      BY <3>2, Inconclusive DEF LocalInv, CreateContainer, RunInv, Counting, Proving, Earning,
         Loop, Accounted, Gone
  <2> QED
    BY <2>1, <2>2, <2>3 DEF CreateContainer
<1>2. StoreOK'
  <2>1. logs' \in [1..(Total + 1) -> Run \union {NoOne}]
    BY ChunkType DEF LocalInv, StoreOK, CreateContainer, Refused
  <2> QED
    BY <2>1, FaultType DEF LocalInv, StoreOK, CreateContainer, Refused, rowVars, cmdVars, endVars,
       envVars
<1> QED
  BY <1>1, <1>2, RunFrame DEF CreateContainer, cmdVars

LEMMA ExecuteInv == ASSUME LocalInv, NEW r \in Run, Execute(r) PROVE LocalInv'
<1>1. OnlyRun(r) /\ RunInv(r)'
  <2>0. \A k : (Own(r, k) => Own(r, k)') /\ (Good(k) => Good(k)')
    BY RowsKept DEF Execute, storeVars
  <2>1. CASE Throws(r, InfraFailed) \/ Throws(r, PolicyBlocked)
    BY <2>1, ThrowsInv, VerdictTypes, Inconclusive DEF Execute, Gone
  <2>2. ASSUME NEW exit \in Exits,
               run' = [run EXCEPT ![r].outcome = ExitStatus(r, exit),
                                  ![r].limited = @ \/ exit = "OOM", ![r].pc = "finish"]
        PROVE  OnlyRun(r) /\ RunInv(r)'
    <3>1. ExitStatus(r, exit) \in Ended /\ ExitStatus(r, exit) \in CommandStatus
      BY DEF ExitStatus, Ended, CommandStatus
    <3> DEFINE b == run[r].limited \/ exit = "OOM"
    <3>2. "finish" \in Steps /\ b \in BOOLEAN
      BY DEF Steps
    <3>3. /\ OnlyRun(r) /\ run'[r].pc = "finish" /\ run'[r].at = run[r].at
          /\ run'[r].seq = run[r].seq /\ run'[r].emitted = run[r].emitted
          /\ run'[r].outcome = ExitStatus(r, exit) /\ run'[r].verdict = run[r].verdict
      <4> DEFINE x == [run[r] EXCEPT !.outcome = ExitStatus(r, exit), !.limited = b,
                                     !.pc = "finish"]
      <4>1. run' = [run EXCEPT ![r] = x]
        BY <2>2
      <4>2. run[r] \in RunState
        BY Fields DEF LocalInv
      <4> HIDE DEF b
      <4>3. x \in RunState
        BY <3>1, <3>2, <4>2 DEF RunState
      <4>4. /\ x.pc = "finish" /\ x.at = run[r].at /\ x.seq = run[r].seq
            /\ x.emitted = run[r].emitted /\ x.outcome = ExitStatus(r, exit)
            /\ x.verdict = run[r].verdict
        BY <4>2 DEF RunState
      <4> HIDE DEF x
      <4> QED
        BY <4>1, <4>3, <4>4, UpdateRun DEF LocalInv
    <3> QED
      BY <2>0, <3>1, <3>3 DEF LocalInv, Execute, RunInv, Counting, Proving, Earning, Loop,
         Accounted, Gone, Late
  <2> QED
    BY <2>1, <2>2 DEF Execute
<1>2. StoreOK'
  BY FaultType DEF LocalInv, StoreOK, Execute, Denied, rowVars, storeVars, cmdVars, endVars, envVars
<1> QED
  BY <1>1, <1>2, RunFrame DEF Execute, storeVars, cmdVars

\* CommandCompleted: the row it updates is the run's own.
LEMMA CommandCompletedInv == ASSUME LocalInv, NEW r \in Run, CommandCompleted(r) PROVE LocalInv'
<1>1. run[r].seq \in 1..Total /\ cmdBy[run[r].seq] = r /\ run[r].outcome \in Ended
  BY Fields, SandboxAssumption DEF LocalInv, RunInv, Counting, Earning, Own, CommandCompleted, Loop,
     Total
<1>2. OnlyRun(r) /\ RunInv(r)'
  <2>1. CASE Throws(r, InfraFailed)
    BY <2>1, ThrowsInv, VerdictTypes, Inconclusive DEF CommandCompleted, Gone
  <2>2. CASE UpdateCommand(r) /\ Go(r, "beat")
    <3>1. /\ OnlyRun(r) /\ run'[r].pc = "beat" /\ run'[r].at = run[r].at
          /\ run'[r].seq = run[r].seq /\ run'[r].emitted = run[r].emitted
          /\ run'[r].outcome = run[r].outcome /\ run'[r].verdict = run[r].verdict
      BY <2>2, GoFields DEF LocalInv, Steps
    <3>2. cmdStatus'[run[r].seq] = run[r].outcome
      BY <1>1, <2>2 DEF UpdateCommand, LocalInv, StoreOK
    <3>3. Own(r, run[r].seq)' /\ Good(run[r].seq - 1)'
      BY <1>1, <2>2, <3>1 DEF UpdateCommand, LocalInv, StoreOK, RunInv, Earning, Own, Good,
         Accepted, CommandCompleted, Loop
    <3> QED
      BY <1>1, <3>1, <3>2, <3>3 DEF LocalInv, CommandCompleted, RunInv, Counting, Proving, Earning,
         Loop, Accounted, Gone, Late
  <2> QED
    BY <2>1, <2>2 DEF CommandCompleted
<1>3. StoreOK'
  <2>1. cmdStatus' \in [1..Total -> CommandStatus]
    BY <1>1 DEF LocalInv, StoreOK, CommandCompleted, Refused, UpdateCommand, Ended, CommandStatus
  <2> QED
    BY <2>1, FaultType DEF LocalInv, StoreOK, CommandCompleted, Refused, rowVars, endVars, envVars
<1>4. \A q \in Run \ {r}, k \in 1..Total :
        cmdBy[k] = q => cmdBy'[k] = q /\ cmdStatus'[k] = cmdStatus[k]
  BY <1>1 DEF LocalInv, StoreOK, CommandCompleted, Refused, UpdateCommand
<1> QED
  BY <1>2, <1>3, <1>4, RunFrame DEF CommandCompleted

LEMMA CollectArtifactsInv == ASSUME LocalInv, NEW r \in Run, CollectArtifacts(r) PROVE LocalInv'
<1>1. OnlyRun(r) /\ RunInv(r)'
  <2>0. \A k : (Own(r, k) => Own(r, k)') /\ (Good(k) => Good(k)')
    BY RowsKept DEF CollectArtifacts, storeVars
  <2>1. CASE Throws(r, InfraFailed)
    BY <2>1, ThrowsInv, VerdictTypes, Inconclusive DEF CollectArtifacts, Gone
  <2>2. CASE run' = [run EXCEPT ![r].verdict.status = "COMPLETED", ![r].pc = "cleaning"]
    <3>1. "cleaning" \in Steps /\ run[r] \in RunState
      BY Fields DEF Steps, LocalInv
    <3>2. [run[r].verdict EXCEPT !.status = "COMPLETED"] \in Verdict
      BY <3>1 DEF RunState, Verdict, Terminal
    <3>3. OnlyRun(r) /\ run'[r].pc = "cleaning" /\ run'[r].at = run[r].at
          /\ run'[r].verdict.result = run[r].verdict.result
      BY <2>2, <3>1, <3>2 DEF LocalInv, RunsOK, RunState, Verdict, OnlyRun
    <3> QED
      BY <2>0, <3>3 DEF LocalInv, CollectArtifacts, RunInv, Counting, Proving, Earning, Loop,
         Accounted, Gone, Late
  <2> QED
    BY <2>1, <2>2 DEF CollectArtifacts
<1>2. StoreOK'
  BY FaultType DEF LocalInv, StoreOK, CollectArtifacts, Denied, rowVars, storeVars, cmdVars, endVars,
     envVars
<1> QED
  BY <1>1, <1>2, RunFrame DEF CollectArtifacts, storeVars, cmdVars

LEMMA EmitErrorInv == ASSUME LocalInv, NEW r \in Run, EmitError(r) PROVE LocalInv'
<1>1. OnlyRun(r) /\ RunInv(r)'
  <2>0. \A k : (Own(r, k) => Own(r, k)') /\ (Good(k) => Good(k)')
    BY RowsKept DEF EmitError
  <2>1. OnlyRun(r) /\ run'[r].pc = "cleaning" /\ run'[r].at = run[r].at
        /\ run'[r].verdict = run[r].verdict
    <3>1. "cleaning" \in Steps
      BY DEF Steps
    <3>2. CASE Go(r, "cleaning")
      BY <3>1, <3>2, GoFields DEF LocalInv
    <3>3. CASE run' = [run EXCEPT ![r].thrown = TRUE, ![r].pc = "cleaning"]
      <4> DEFINE x == [run[r] EXCEPT !.thrown = TRUE, !.pc = "cleaning"]
      <4>1. run[r] \in RunState
        BY Fields DEF LocalInv
      <4>2. x \in RunState
        BY <3>1, <4>1 DEF RunState
      <4>3. x.pc = "cleaning" /\ x.at = run[r].at /\ x.verdict = run[r].verdict
        BY <4>1 DEF RunState
      <4>4. run' = [run EXCEPT ![r] = x]
        BY <3>3
      <4> HIDE DEF x
      <4> QED
        BY <4>2, <4>3, <4>4, UpdateRun DEF LocalInv
    <3> QED
      BY <3>2, <3>3 DEF EmitError
  <2> QED
    BY <2>0, <2>1 DEF LocalInv, EmitError, RunInv, Counting, Proving, Earning, Loop, Accounted,
       Gone, Late
<1>2. StoreOK'
  <2>1. logs' \in [1..(Total + 1) -> Run \union {NoOne}]
    BY ChunkType DEF LocalInv, StoreOK, EmitError, Refused
  <2> QED
    BY <2>1, FaultType DEF LocalInv, StoreOK, EmitError, Refused, rowVars, cmdVars, endVars, envVars
<1> QED
  BY <1>1, <1>2, RunFrame DEF EmitError, cmdVars

\* Moving on among the states that follow the loop.
LEMMA LateGo ==
  ASSUME LocalInv, NEW r \in Run, run[r].pc \notin Gone, NEW l \in Steps, Go(r, l),
         UNCHANGED cmdVars, proofs \subseteq proofs',
         run[r].pc \in Late \union {"emit", "erecord"},
         l \in {"cleanup", "final", "record", "complete", "emergency", "ecomplete"},
         run[r].verdict.result \in Conclusive => l \in Late,
         l \in Accounted => run[r].pc \in Accounted,
         l \in {"complete", "ecomplete"} => run[r].proofOk \in proofs'
  PROVE  OnlyRun(r) /\ RunInv(r)'
<1>1. \A k : (Own(r, k) => Own(r, k)') /\ (Good(k) => Good(k)')
  BY RowsKept
<1>2. /\ OnlyRun(r)
      /\ run'[r].pc = l /\ run'[r].at = run[r].at /\ run'[r].verdict = run[r].verdict
      /\ run'[r].proofOk = run[r].proofOk
  BY GoFields DEF LocalInv
<1>3. Counting(r)' /\ Proving(r)'
  BY <1>2 DEF LocalInv, RunInv, Counting, Proving, Loop
<1>4. Earning(r)'
  BY <1>1, <1>2 DEF LocalInv, RunInv, Earning, Loop
<1> QED
  BY <1>2, <1>3, <1>4 DEF LocalInv, RunInv

LEMMA CleaningInv == ASSUME LocalInv, NEW r \in Run, Cleaning(r) PROVE LocalInv'
<1>1. OnlyRun(r) /\ RunInv(r)'
  BY LateGo DEF Cleaning, storeVars, Gone, Steps, Late, Accounted
<1>2. StoreOK'
  BY FaultType DEF LocalInv, StoreOK, Cleaning, Swallowed, Refused, UpdateStatus, rowVars, storeVars,
     cmdVars, endVars, envVars, Status, Active
<1> QED
  BY <1>1, <1>2, RunFrame DEF Cleaning, storeVars, cmdVars

\* CleanUp: a verdict that leaves the cleanup with proofOk = FALSE says so.
LEMMA CleanUpInv == ASSUME LocalInv, NEW r \in Run, CleanUp(r) PROVE LocalInv'
<1>1. OnlyRun(r) /\ RunInv(r)'
  <2>1. PICK ok \in BOOLEAN :
          run' = [run EXCEPT ![r].proofOk = ok, ![r].pc = "proof",
                             ![r].verdict.status = IF ok THEN @ ELSE "CLEANUP_FAILED"]
    BY DEF CleanUp
  <2> DEFINE w == [run[r].verdict EXCEPT !.status = IF ok THEN @ ELSE "CLEANUP_FAILED"]
             x == [run[r] EXCEPT !.proofOk = ok, !.pc = "proof", !.verdict = w]
  <2>2. run[r] \in RunState /\ run[r].verdict \in Verdict
    BY Fields DEF LocalInv
  <2>3. w \in Verdict /\ w.result = run[r].verdict.result
        /\ (~ok => w.status = "CLEANUP_FAILED")
    BY <2>2 DEF Verdict, Terminal
  <2>4. run' = [run EXCEPT ![r] = x]
    BY <2>1
  <2> HIDE DEF w
  <2>5. "proof" \in Steps
    BY DEF Steps
  <2>6. x \in RunState
    BY <2>2, <2>3, <2>5 DEF RunState
  <2>7. x.pc = "proof" /\ x.at = run[r].at /\ x.verdict = w /\ x.proofOk = ok
    BY <2>2 DEF RunState
  <2> HIDE DEF x
  <2>8. OnlyRun(r) /\ run'[r] = x
    BY <2>4, <2>6, UpdateRun DEF LocalInv
  <2>9. \A k : (Own(r, k) => Own(r, k)') /\ (Good(k) => Good(k)')
    BY RowsKept DEF CleanUp, storeVars
  <2>10. Counting(r)' /\ Proving(r)'
    BY <2>3, <2>7, <2>8 DEF Counting, Proving, Loop, Accounted
  <2>11. Earning(r)'
    BY <2>3, <2>7, <2>8, <2>9 DEF LocalInv, RunInv, Earning, CleanUp, Loop, Late
  <2> QED
    BY <2>7, <2>8, <2>10, <2>11 DEF LocalInv, RunInv, CleanUp, Gone
<1>2. StoreOK'
  BY FaultType DEF LocalInv, StoreOK, CleanUp, DockerCleanup, rowVars, storeVars, cmdVars, endVars,
     envVars
<1> QED
  BY <1>1, <1>2, RunFrame DEF CleanUp, storeVars, cmdVars

LEMMA CleanupCompletedInv == ASSUME LocalInv, NEW r \in Run, CleanupCompleted(r) PROVE LocalInv'
<1>0. run[r].proofOk \in BOOLEAN
  BY Fields DEF LocalInv
<1>1. proofs \subseteq proofs' /\ proofs' \subseteq BOOLEAN
  BY <1>0 DEF CleanupCompleted, Swallowed, Refused, RecordCleanup, LocalInv, StoreOK
<1>2. OnlyRun(r) /\ RunInv(r)'
  BY <1>1, LateGo DEF CleanupCompleted, Gone, Steps, Late, Accounted
<1>3. StoreOK'
  BY <1>1, FaultType DEF LocalInv, StoreOK, CleanupCompleted, Swallowed, Refused, rowVars, cmdVars,
     endVars, envVars
<1> QED
  BY <1>1, <1>2, <1>3, RunFrame DEF CleanupCompleted, cmdVars

LEMMA FinalStatusInv == ASSUME LocalInv, NEW r \in Run, FinalStatus(r) PROVE LocalInv'
<1>0. run[r].verdict.status \in Terminal
  BY Fields DEF LocalInv, Verdict
<1>1. OnlyRun(r) /\ RunInv(r)'
  BY LateGo DEF FinalStatus, storeVars, Gone, Steps, Late, Accounted
<1>2. StoreOK'
  BY <1>0, FaultType DEF LocalInv, StoreOK, FinalStatus, Swallowed, Refused, UpdateStatus, rowVars,
     storeVars, cmdVars, endVars, envVars, Status
<1> QED
  BY <1>1, <1>2, RunFrame DEF FinalStatus, storeVars, cmdVars

\* HandlerRecord: the run goes on to completeExecution with its proof on record.
LEMMA HandlerRecordInv == ASSUME LocalInv, NEW r \in Run, HandlerRecord(r) PROVE LocalInv'
<1>0. run[r].proofOk \in BOOLEAN
  BY Fields DEF LocalInv
<1>1. proofs \subseteq proofs' /\ proofs' \subseteq BOOLEAN
  BY <1>0 DEF HandlerRecord, Refused, RecordCleanup, LocalInv, StoreOK
<1>2. OnlyRun(r) /\ RunInv(r)'
  <2>1. CASE RecordCleanup(Mine(r), run[r].proofOk) /\ Go(r, "complete")
    BY <1>1, <2>1, LateGo DEF HandlerRecord, RecordCleanup, Gone, Steps, Late, Accounted
  <2>2. CASE Go(r, "emergency")
    BY <1>1, <2>2, LateGo DEF HandlerRecord, Gone, Steps, Late, Accounted
  <2> QED
    BY <2>1, <2>2 DEF HandlerRecord
<1>3. StoreOK'
  BY <1>1, FaultType DEF LocalInv, StoreOK, HandlerRecord, Refused, rowVars, cmdVars,
     endVars, envVars
<1> QED
  BY <1>1, <1>2, <1>3, RunFrame DEF HandlerRecord, cmdVars

\* completeExecution keeps the types of the rows.
LEMMA CompleteType ==
  ASSUME StoreOK, NEW t, NEW v \in Verdict, NEW a \in Run \union Pass,
         CompleteExecution(t, v, a) \/ UNCHANGED <<rowVars, endVars>>,
         UNCHANGED <<storeVars, resources, envVars>>, Fault \/ NoFault
  PROVE  StoreOK'
<1>1. v.status \in Status /\ v.result \in Result
  BY DEF Verdict, Status
<1>2. faults' \in 0..MaxFaults
  BY FaultType DEF StoreOK
<1>3. CASE CompleteExecution(t, v, a)
  <2>1. /\ status' \in Status /\ rstatus' \in Status /\ result' \in Result
        /\ completed' = TRUE /\ leaseOwner' = NoOne /\ leaseLive' = FALSE
        /\ finals' \in Nat /\ author' \in Run \union Pass
    BY <1>1, <1>3 DEF StoreOK, CompleteExecution
  <2> QED
    BY <1>2, <2>1 DEF StoreOK, storeVars, cmdVars, envVars
<1>4. CASE UNCHANGED <<rowVars, endVars>>
  BY <1>2, <1>4 DEF StoreOK, rowVars, storeVars, cmdVars, endVars, envVars
<1> QED
  BY <1>3, <1>4

LEMMA HandlerCompleteInv == ASSUME LocalInv, NEW r \in Run, HandlerComplete(r) PROVE LocalInv'
<1>1. OnlyRun(r) /\ RunInv(r)'
  <2>1. CASE Leave(r, "done")
    BY <2>1, LeaveInv
  <2>2. CASE Go(r, "emergency")
    BY <2>2, LateGo DEF HandlerComplete, storeVars, Gone, Steps, Late, Accounted
  <2> QED
    BY <2>1, <2>2 DEF HandlerComplete
<1>2. StoreOK'
  BY Fields, CompleteType DEF LocalInv, HandlerComplete, Refused
<1> QED
  BY <1>1, <1>2, RunFrame DEF HandlerComplete, storeVars, cmdVars

LEMMA EmergencyCleanupInv == ASSUME LocalInv, NEW r \in Run, EmergencyCleanup(r) PROVE LocalInv'
<1>1. OnlyRun(r) /\ RunInv(r)'
  <2>1. PICK ok \in BOOLEAN :
          run' = [run EXCEPT ![r].proofOk = ok, ![r].pc = "erecord", ![r].verdict = ReapVerdict(ok)]
    BY DEF EmergencyCleanup
  <2> DEFINE x == [run[r] EXCEPT !.proofOk = ok, !.pc = "erecord", !.verdict = ReapVerdict(ok)]
  <2>2. run[r] \in RunState /\ ReapVerdict(ok) \in Verdict /\ "erecord" \in Steps
    BY Fields, VerdictTypes DEF LocalInv, Steps
  <2>3. run' = [run EXCEPT ![r] = x]
    BY <2>1
  <2>4. x \in RunState
    BY <2>2 DEF RunState
  <2>5. x.pc = "erecord" /\ x.at = run[r].at /\ x.verdict = ReapVerdict(ok) /\ x.proofOk = ok
    BY <2>2 DEF RunState
  <2> HIDE DEF x
  <2>6. OnlyRun(r) /\ run'[r] = x
    BY <2>3, <2>4, UpdateRun DEF LocalInv
  <2>7. ~ok => ReapVerdict(ok).status = "CLEANUP_FAILED"
    BY DEF ReapVerdict, Outcome
  <2>8. Counting(r)' /\ Proving(r)'
    BY <2>5, <2>6, <2>7 DEF Counting, Proving, Loop, Accounted
  <2>9. Earning(r)'
    BY <2>5, <2>6, Inconclusive DEF Earning, Loop
  <2> QED
    BY <2>5, <2>6, <2>8, <2>9 DEF LocalInv, RunInv, EmergencyCleanup, Gone
<1>2. StoreOK'
  BY FaultType DEF LocalInv, StoreOK, EmergencyCleanup, DockerCleanup, rowVars, storeVars, cmdVars,
     endVars, envVars
<1> QED
  BY <1>1, <1>2, RunFrame DEF EmergencyCleanup, storeVars, cmdVars

LEMMA EmergencyRecordInv == ASSUME LocalInv, NEW r \in Run, EmergencyRecord(r) PROVE LocalInv'
<1>0. run[r].proofOk \in BOOLEAN
  BY Fields DEF LocalInv
<1>1. proofs \subseteq proofs' /\ proofs' \subseteq BOOLEAN
  BY <1>0 DEF EmergencyRecord, Refused, RecordCleanup, LocalInv, StoreOK
<1>2. OnlyRun(r) /\ RunInv(r)'
  <2>1. CASE RecordCleanup(Mine(r), run[r].proofOk) /\ Go(r, "ecomplete")
    <3>1. run[r].verdict.result \notin Conclusive
      BY DEF LocalInv, RunInv, Earning, EmergencyRecord, Late
    <3> QED
      BY <1>1, <2>1, <3>1, LateGo DEF EmergencyRecord, RecordCleanup, Gone, Steps, Late, Accounted
  <2>2. CASE Leave(r, "failed")
    BY <2>2, LeaveInv
  <2> QED
    BY <2>1, <2>2 DEF EmergencyRecord
<1>3. StoreOK'
  BY <1>1, FaultType DEF LocalInv, StoreOK, EmergencyRecord, Refused, rowVars, cmdVars,
     endVars, envVars
<1> QED
  BY <1>1, <1>2, <1>3, RunFrame DEF EmergencyRecord, cmdVars

LEMMA EmergencyCompleteInv == ASSUME LocalInv, NEW r \in Run, EmergencyComplete(r) PROVE LocalInv'
<1>1. OnlyRun(r) /\ RunInv(r)'
  BY LeaveInv DEF EmergencyComplete
<1>2. StoreOK'
  BY Fields, CompleteType DEF LocalInv, EmergencyComplete, Swallowed, Refused
<1> QED
  BY <1>1, <1>2, RunFrame DEF EmergencyComplete, storeVars, cmdVars

\* A timer that aborts the run changes nothing the invariant speaks of.
LEMMA AbortInv ==
  ASSUME LocalInv, NEW r \in Run, NEW reason \in {"timeout", "cancelled", "control-plane-failure"},
         Abort(r, reason), Fault \/ NoFault
  PROVE  LocalInv'
<1>1. \A k : (Own(r, k) => Own(r, k)') /\ (Good(k) => Good(k)')
  BY RowsKept DEF Abort, storeVars
<1>2. /\ OnlyRun(r)
      /\ run'[r].pc = run[r].pc /\ run'[r].at = run[r].at
      /\ run'[r].seq = run[r].seq /\ run'[r].emitted = run[r].emitted
      /\ run'[r].outcome = run[r].outcome /\ run'[r].verdict = run[r].verdict
      /\ run'[r].proofOk = run[r].proofOk
  BY DEF LocalInv, RunsOK, OnlyRun, RunState, Abort
<1>3. Counting(r)' /\ Proving(r)'
  BY <1>2 DEF LocalInv, RunInv, Counting, Proving, Abort, storeVars
<1>4. cmdStatus' = cmdStatus
  BY DEF Abort, storeVars, cmdVars
<1>5. Earning(r)'
  BY <1>1, <1>2, <1>4 DEF LocalInv, RunInv, Earning
<1>6. StoreOK'
  BY FaultType DEF LocalInv, StoreOK, Abort, rowVars, storeVars, cmdVars, endVars, envVars
<1>7. RunInv(r)'
  BY <1>2, <1>3, <1>5 DEF LocalInv, RunInv
<1> QED
  BY <1>2, <1>6, <1>7, RunFrame DEF Abort, storeVars, cmdVars

\* Nothing local changes when only the row, Docker or the environment does.
LEMMA StoreFrame ==
  ASSUME LocalInv, UNCHANGED <<run, pass, cmdVars, proofs>>, StoreOK' PROVE LocalInv'
<1>1. RunsOK' /\ PassesOK'
  BY DEF LocalInv, RunsOK, PassesOK
<1>2. ASSUME NEW r \in Run PROVE RunInv(r)'
  BY DEF LocalInv, RunInv, Counting, Proving, Earning, Own, Good, Accepted, cmdVars
<1>3. ASSUME NEW p \in Pass PROVE PassInv(p)'
  BY DEF LocalInv, PassInv
<1> QED
  BY <1>1, <1>2, <1>3 DEF LocalInv

LEMMA TimerInv == ASSUME LocalInv, NEW r \in Run, Timer(r) PROVE LocalInv'
<1>1. CASE ExecutionTimeout(r)
  BY <1>1, AbortInv DEF ExecutionTimeout
<1>2. CASE CancellationPoll(r)
  BY <1>2, AbortInv DEF CancellationPoll
<1>3. CASE leaseOwner # Mine(r) /\ Abort(r, "control-plane-failure") /\ NoFault
  BY <1>3, AbortInv
<1>4. CASE /\ Heartbeat(Mine(r))
           /\ UNCHANGED <<storeVars, endVars, resources, envVars, run, pass, faults>>
  <2>1. StoreOK'
    BY <1>4 DEF LocalInv, StoreOK, Heartbeat, rowVars, storeVars, cmdVars, endVars, envVars
  <2> QED
    BY <1>4, <2>1, StoreFrame DEF storeVars
<1> QED
  BY <1>1, <1>2, <1>3, <1>4 DEF Timer, HeartbeatTimer

LEMMA DeliverInv == ASSUME LocalInv, NEW r \in Run, NEW w \in Worker, Deliver(r, w) PROVE LocalInv'
<1>1. "claim" \in Steps
  BY DEF Steps
<1>2. /\ OnlyRun(r) /\ run'[r].pc = "claim" /\ run'[r].at = w
      /\ run'[r].seq = run[r].seq /\ run'[r].emitted = run[r].emitted
      /\ run'[r].verdict = run[r].verdict
  BY <1>1 DEF LocalInv, RunsOK, OnlyRun, RunState, Deliver
<1>3. RunInv(r)'
  BY <1>2 DEF LocalInv, RunInv, Counting, Proving, Earning, Deliver, Loop, Accounted, Late
<1>4. StoreOK'
  BY FaultType DEF LocalInv, StoreOK, Deliver, rowVars, storeVars, cmdVars, endVars, envVars
<1> QED
  BY <1>2, <1>3, <1>4, RunFrame DEF Deliver, storeVars, cmdVars

-----------------------------------------------------------------------------
(* The steps of a reconciliation pass keep the local invariant.            *)

\* The counterpart of RunFrame.
LEMMA PassFrame ==
  ASSUME LocalInv, NEW p \in Pass, OnlyPass(p), UNCHANGED <<run, cmdVars>>, proofs \subseteq proofs',
         StoreOK', PassInv(p)'
  PROVE  LocalInv'
<1>1. ASSUME NEW r \in Run PROVE RunInv(r)'
  <2>1. Proving(r)'
    BY DEF LocalInv, RunInv, Proving
  <2>2. Counting(r)' /\ Earning(r)'
    BY DEF LocalInv, RunInv, Counting, Earning, Own, Good, Accepted, cmdVars
  <2> QED
    BY <2>1, <2>2 DEF LocalInv, RunInv
<1>2. ASSUME NEW q \in Pass \ {p} PROVE PassInv(q)'
  BY DEF LocalInv, PassInv, OnlyPass
<1> QED
  BY <1>1, <1>2 DEF LocalInv, RunsOK, OnlyPass

\* What the updates of a pass do.
LEMMA PassFields == ASSUME PassesOK, NEW p \in Pass
  PROVE /\ pass[p] \in PassState /\ pass[p].proofOk \in BOOLEAN
        /\ PLeave(p) => OnlyPass(p) /\ pass'[p] = Resting
        /\ \A l \in {"record", "complete"} : PGo(p, l) =>
             /\ OnlyPass(p) /\ pass'[p].pc = l /\ pass'[p].at = pass[p].at
             /\ pass'[p].proofOk = pass[p].proofOk
<1>1. pass[p] \in PassState /\ pass[p].proofOk \in BOOLEAN
  BY DEF PassesOK, PassState
<1>2. PLeave(p) => OnlyPass(p) /\ pass'[p] = Resting
  BY FreshType DEF PassesOK, OnlyPass, PLeave
<1>3. ASSUME NEW l \in {"record", "complete"}, PGo(p, l)
      PROVE  /\ OnlyPass(p) /\ pass'[p].pc = l /\ pass'[p].at = pass[p].at
             /\ pass'[p].proofOk = pass[p].proofOk
  BY <1>3 DEF PassesOK, OnlyPass, PassState, PGo
<1> QED
  BY <1>1, <1>2, <1>3

LEMMA ReconcileExpiredInv ==
  ASSUME LocalInv, NEW p \in Pass, NEW w \in Worker, ReconcileExpired(p, w) PROVE LocalInv'
<1>1. StoreOK'
  BY FaultType DEF LocalInv, StoreOK, ReconcileExpired, storeVars, cmdVars, endVars, envVars, Token
<1>2. CASE UNCHANGED pass
  BY <1>1, <1>2, StoreFrame DEF ReconcileExpired, storeVars
<1>3. CASE pass' = [pass EXCEPT ![p].at = w, ![p].pc = "cleanup"]
  <2>1. OnlyPass(p) /\ pass'[p].at = w /\ pass'[p].pc = "cleanup"
    BY <1>3 DEF LocalInv, PassesOK, OnlyPass, PassState
  <2> QED
    BY <1>1, <2>1, PassFrame DEF PassInv, ReconcileExpired, storeVars, cmdVars
<1> QED
  BY <1>2, <1>3 DEF ReconcileExpired

LEMMA ReconcileCleanupInv ==
  ASSUME LocalInv, NEW p \in Pass, ReconcileCleanup(p) PROVE LocalInv'
<1>1. StoreOK'
  BY FaultType DEF LocalInv, StoreOK, ReconcileCleanup, DockerCleanup, rowVars, storeVars, cmdVars,
     endVars, envVars
<1>2. OnlyPass(p) /\ PassInv(p)'
  <2>1. CASE PLeave(p)
    BY <2>1, PassFields DEF LocalInv, PassInv, Resting
  <2>2. ASSUME NEW ok \in BOOLEAN, pass' = [pass EXCEPT ![p].proofOk = ok, ![p].pc = "record"]
        PROVE  OnlyPass(p) /\ PassInv(p)'
    BY <2>2 DEF LocalInv, PassesOK, OnlyPass, PassState, PassInv, ReconcileCleanup
  <2> QED
    BY <2>1, <2>2 DEF ReconcileCleanup
<1> QED
  BY <1>1, <1>2, PassFrame DEF ReconcileCleanup, storeVars

LEMMA ReconcileRecordInv ==
  ASSUME LocalInv, NEW p \in Pass, ReconcileRecord(p) PROVE LocalInv'
<1>1. proofs \subseteq proofs' /\ proofs' \subseteq BOOLEAN
  BY PassFields DEF ReconcileRecord, Refused, RecordCleanup, LocalInv, StoreOK
<1>2. StoreOK'
  BY <1>1, FaultType DEF LocalInv, StoreOK, ReconcileRecord, Refused, rowVars, cmdVars, endVars,
     envVars
<1>3. OnlyPass(p) /\ PassInv(p)'
  <2>1. CASE RecordCleanup(PMine(p), pass[p].proofOk) /\ PGo(p, "complete")
    BY <2>1, PassFields DEF LocalInv, PassInv, ReconcileRecord, RecordCleanup
  <2>2. CASE PLeave(p)
    BY <2>2, PassFields DEF LocalInv, PassInv, Resting
  <2> QED
    BY <2>1, <2>2 DEF ReconcileRecord
<1> QED
  BY <1>1, <1>2, <1>3, PassFrame DEF ReconcileRecord

LEMMA ReconcileCompleteInv ==
  ASSUME LocalInv, NEW p \in Pass, ReconcileComplete(p) PROVE LocalInv'
<1>1. StoreOK'
  BY PassFields, VerdictTypes, CompleteType DEF LocalInv, ReconcileComplete, Refused
<1>2. OnlyPass(p) /\ PassInv(p)'
  BY PassFields DEF LocalInv, PassInv, ReconcileComplete, Resting
<1> QED
  BY <1>1, <1>2, PassFrame DEF ReconcileComplete, storeVars

LEMMA ReconcileHeartbeatInv ==
  ASSUME LocalInv, NEW p \in Pass, ReconcileHeartbeat(p) PROVE LocalInv'
<1>1. StoreOK'
  BY FaultType DEF LocalInv, StoreOK, ReconcileHeartbeat, Heartbeat, NoFault, rowVars, storeVars,
     cmdVars, endVars, envVars
<1>2. CASE UNCHANGED pass
  BY <1>1, <1>2, StoreFrame DEF ReconcileHeartbeat, storeVars
<1>3. CASE pass' = [pass EXCEPT ![p].healthy = FALSE]
  <2>1. OnlyPass(p) /\ pass'[p].pc = pass[p].pc /\ pass'[p].at = pass[p].at
        /\ pass'[p].proofOk = pass[p].proofOk
    BY <1>3 DEF LocalInv, PassesOK, OnlyPass, PassState
  <2>2. PassInv(p)'
    BY <2>1 DEF LocalInv, PassInv, ReconcileHeartbeat, storeVars
  <2> QED
    BY <1>1, <2>1, <2>2, PassFrame DEF ReconcileHeartbeat, storeVars
<1> QED
  BY <1>2, <1>3 DEF ReconcileHeartbeat

\* A crash forgets the local variables of the runs and passes of a process.
LEMMA CrashInv == ASSUME LocalInv, NEW w \in Worker, Crash(w) PROVE LocalInv'
<1>1. StoreOK'
  BY FaultType DEF LocalInv, StoreOK, Crash, rowVars, storeVars, cmdVars, endVars
<1> DEFINE d == [Fresh EXCEPT !.pc = "dead"]
<1>2. d \in RunState /\ d.pc = "dead" /\ d.verdict = Unjudged
  BY FreshType DEF RunState, Fresh, Gone
<1>3. run' = [r \in Run |-> IF run[r].at = w THEN d ELSE run[r]]
  BY DEF Crash
<1> HIDE DEF d
<1>4. RunsOK' /\ PassesOK'
  BY <1>2, <1>3, FreshType DEF LocalInv, RunsOK, PassesOK, Crash
<1>5. ASSUME NEW r \in Run PROVE RunInv(r)'
  <2>1. CASE run'[r] = d
    BY <1>2, <2>1, Inconclusive DEF RunInv, Counting, Proving, Earning, Loop, Accounted, Gone
  <2>2. CASE run'[r] = run[r]
    <3>1. \A k : (Own(r, k) => Own(r, k)') /\ (Good(k) => Good(k)')
      BY RowsKept DEF Crash, storeVars
    <3>2. proofs' = proofs
      BY DEF Crash, storeVars
    <3>5. Counting(r)' /\ Proving(r)'
      BY <2>2, <3>2 DEF LocalInv, RunInv, Counting, Proving
    <3>3. cmdStatus' = cmdStatus
      BY DEF Crash, storeVars, cmdVars
    <3>4. Earning(r)'
      BY <2>2, <3>1, <3>3 DEF LocalInv, RunInv, Earning
    <3> QED
      BY <2>2, <3>4, <3>5 DEF LocalInv, RunInv
  <2> QED
    BY <1>3, <2>1, <2>2
<1>6. ASSUME NEW p \in Pass PROVE PassInv(p)'
  BY DEF LocalInv, PassInv, Crash, Resting, storeVars
<1> QED
  BY <1>1, <1>4, <1>5, <1>6 DEF LocalInv

-----------------------------------------------------------------------------
(* The local invariant is inductive, and so is the type invariant.         *)

LEMMA LocalInit == Init => LocalInv
<1> SUFFICES ASSUME Init PROVE LocalInv
  OBVIOUS
<1>1. RunsOK /\ PassesOK
  BY FreshType DEF Init, RunsOK, PassesOK
<1>2. StoreOK
  <2>1. "NONE" \in Status /\ "NONE" \in Result /\ "NONE" \in CommandStatus /\ 0 \in 0..MaxFaults
    BY SandboxAssumption DEF Status, Result, CommandStatus
  <2>2. /\ cmdBy \in [1..Total -> Run \union {NoOne}]
        /\ cmdStatus \in [1..Total -> CommandStatus]
        /\ logs \in [1..(Total + 1) -> Run \union {NoOne}]
    BY <2>1 DEF Init
  <2> QED
    BY <2>1, <2>2 DEF Init, StoreOK
<1>3. ASSUME NEW r \in Run PROVE RunInv(r)
  <2>1. run[r] = Fresh
    BY DEF Init
  <2> QED
    BY <2>1, Inconclusive DEF Fresh, RunInv, Counting, Proving, Earning, Loop, Accounted, Gone
<1>4. ASSUME NEW p \in Pass PROVE PassInv(p)
  BY DEF Init, PassInv, Resting
<1> QED
  BY <1>1, <1>2, <1>3, <1>4 DEF LocalInv

LEMMA LocalNext == ASSUME LocalInv, [Next]_vars PROVE LocalInv'
<1>1. ASSUME NEW r \in Run, RunStep(r) PROVE LocalInv'
  BY <1>1, ClaimInv, PreparingInv, PrepareInv, BeatInv, PhaseInv, CheckInv, CommandStartedInv,
     CreateContainerInv, ExecuteInv, CommandCompletedInv, CollectArtifactsInv, EmitErrorInv,
     CleaningInv, CleanUpInv, CleanupCompletedInv, FinalStatusInv, HandlerRecordInv,
     HandlerCompleteInv, EmergencyCleanupInv, EmergencyRecordInv, EmergencyCompleteInv
  DEF RunStep
<1>2. ASSUME NEW p \in Pass, PassStep(p) PROVE LocalInv'
  BY <1>2, ReconcileCleanupInv, ReconcileRecordInv, ReconcileCompleteInv DEF PassStep
<1>3. ASSUME NEW allowed \in BOOLEAN, CreateReproduction(allowed) PROVE LocalInv'
  <2>1. StoreOK'
    BY <1>3 DEF LocalInv, StoreOK, CreateReproduction, storeVars, cmdVars, endVars, Status, Result,
       Terminal
  <2> QED
    BY <1>3, <2>1, StoreFrame DEF CreateReproduction, storeVars
<1>4. CASE RequestCancellation
  <2>1. StoreOK'
    BY <1>4 DEF LocalInv, StoreOK, RequestCancellation, rowVars, storeVars, cmdVars, endVars
  <2> QED
    BY <1>4, <2>1, StoreFrame DEF RequestCancellation, storeVars
<1>5. CASE OrphanSweep
  <2>1. StoreOK'
    BY <1>5, FaultType DEF LocalInv, StoreOK, OrphanSweep, rowVars, storeVars, cmdVars, endVars,
       envVars
  <2> QED
    BY <1>5, <2>1, StoreFrame DEF OrphanSweep, storeVars
<1>6. CASE LeaseExpires
  <2>1. StoreOK'
    BY <1>6, FaultType DEF LocalInv, StoreOK, LeaseExpires, storeVars, cmdVars, endVars, envVars
  <2> QED
    BY <1>6, <2>1, StoreFrame DEF LeaseExpires, storeVars
<1>7. CASE UNCHANGED vars
  <2>1. StoreOK'
    BY <1>7 DEF LocalInv, StoreOK, vars, rowVars, storeVars, cmdVars, endVars, envVars
  <2> QED
    BY <1>7, <2>1, StoreFrame DEF vars, storeVars
<1> QED
  BY <1>1, <1>2, <1>3, <1>4, <1>5, <1>6, <1>7, TimerInv, DeliverInv, ReconcileHeartbeatInv,
     ReconcileExpiredInv, CrashInv DEF Next

\* The execution, its runs and its passes always have the types declared for
\* them: no run leaves the plan of commands, whatever the interleaving.
THEOREM TypeCorrect == Spec => []TypeOK
<1>1. LocalInv => TypeOK
  BY DEF LocalInv, RunsOK, PassesOK, StoreOK, TypeOK
<1> QED
  BY <1>1, LocalInit, LocalNext, PTL DEF Spec

-----------------------------------------------------------------------------
(* What any step does to the row: it decides the execution, it creates the *)
(* rows, or it leaves an execution that is decided as it is.               *)

Decides ==
  /\ ~completed
  /\ \E v \in Verdict, a \in Run \union Pass :
       /\ status' = v.status /\ rstatus' = v.status /\ result' = v.result
       /\ completed' = TRUE /\ leaseOwner' = NoOne /\ leaseLive' = FALSE
       /\ author' = a /\ finals' = finals + 1
       /\ proofs # {} /\ (TRUE \in proofs \/ v.status = "CLEANUP_FAILED")
       /\ v.result \in Conclusive => a \in Run /\ Own(a, Total) /\ Good(Total)
  /\ UNCHANGED <<cmdVars, proofs>>

Keeps ==
  /\ UNCHANGED <<result, completed, endVars>>
  /\ completed => UNCHANGED <<status, rstatus, leaseOwner, leaseLive, proofs, cmdVars>>
  /\ leaseOwner' = NoOne => ~leaseLive'
  /\ proofs' = proofs \/ \E ok \in BOOLEAN : proofs' = proofs \union {ok}
  /\ status = "NONE" => UNCHANGED <<status, leaseOwner, proofs>>
  /\ status' = "NONE" => status = "NONE"

Creates == /\ \E allowed \in BOOLEAN : CreateReproduction(allowed)
           /\ UNCHANGED <<cmdVars, proofs>>

RowStep == Decides \/ Keeps \/ Creates

\* A live lease belongs to an execution that is open and has been claimed.
LEMMA LiveLease == ASSUME Ledger, leaseLive PROVE ~completed /\ status # "NONE" /\ leaseOwner # NoOne
  BY DEF Ledger

\* A lease token is an owner.
LEMMA TokenIsOwner == ASSUME NEW t \in Token PROVE t # NoOne
  BY SandboxAssumption

\* The five ways in which a step that decides nothing uses the row.
LEMMA KeepsIdle ==
  ASSUME Ledger, UNCHANGED <<rowVars, endVars, cmdVars, proofs>> PROVE Keeps
  BY DEF Ledger, Keeps, rowVars, endVars

LEMMA KeepsStatus ==
  ASSUME Ledger, NEW r, NEW s \in Active \union Terminal, UpdateStatus(r, s),
         UNCHANGED <<endVars, proofs>>
  PROVE  Keeps
<1>1. s # "NONE"
  BY DEF Active, Terminal
<1> QED
  BY <1>1, LiveLease DEF Ledger, Keeps, UpdateStatus, HoldsLease

LEMMA KeepsHeartbeat ==
  ASSUME Ledger, NEW t \in Token, Heartbeat(t), UNCHANGED <<endVars, proofs>> PROVE Keeps
<1>1. leaseOwner # NoOne /\ ~completed /\ status # "NONE"
  BY TokenIsOwner DEF Heartbeat, Ledger
<1> QED
  BY <1>1 DEF Keeps, Heartbeat

LEMMA KeepsProof ==
  ASSUME Ledger, NEW t, NEW ok \in BOOLEAN, RecordCleanup(t, ok), UNCHANGED <<rowVars, endVars>>
  PROVE  Keeps
  BY LiveLease DEF Ledger, Keeps, RecordCleanup, HoldsLease, rowVars, endVars

LEMMA KeepsCommand ==
  ASSUME Ledger, leaseLive, UNCHANGED <<rowVars, endVars, proofs>> PROVE Keeps
  BY LiveLease DEF Ledger, Keeps, rowVars, endVars

\* completeExecution decides, with a proof on record.
LEMMA CompleteDecides ==
  ASSUME Ledger, NEW t, NEW v \in Verdict, NEW a \in Run \union Pass, CompleteExecution(t, v, a),
         UNCHANGED <<cmdVars, proofs>>, NEW ok \in proofs, ok \in BOOLEAN,
         ~ok => v.status = "CLEANUP_FAILED",
         v.result \in Conclusive => a \in Run /\ Own(a, Total) /\ Good(Total)
  PROVE  Decides
<1>1. ~completed
  BY LiveLease DEF CompleteExecution, HoldsLease
<1>2. proofs # {} /\ (TRUE \in proofs \/ v.status = "CLEANUP_FAILED")
  OBVIOUS
<1> QED
  BY <1>1, <1>2 DEF Decides, CompleteExecution

\* The token of a run or pass that works.
LEMMA Tokens ==
  ASSUME LocalInv
  PROVE  /\ \A r \in Run : run[r].pc \notin Gone => Mine(r) \in Token
         /\ \A p \in Pass : pass[p].pc # "idle" => PMine(p) \in Token
  BY DEF LocalInv, RunInv, PassInv, Mine, PMine, Token

LEMMA RunRowStep == ASSUME LocalInv, Ledger, NEW r \in Run, RunStep(r) PROVE RowStep
<1> USE DEF RowStep
<1>1. CASE Claim(r)
  <2>1. Mine(r) # NoOne
    BY <1>1, Tokens, TokenIsOwner DEF Claim, Gone
  <2>2. CASE ClaimExecution(r)
    <3>1. ~completed /\ status # "NONE"
      BY <2>2 DEF ClaimExecution, Claimable, Ledger, Active, Terminal
    <3> QED
      BY <1>1, <2>1, <2>2, <3>1 DEF Keeps, Claim, ClaimExecution, storeVars
  <2>3. CASE UNCHANGED rowVars
    BY <1>1, <2>3, KeepsIdle DEF Claim, storeVars
  <2> QED
    BY <1>1, <2>2, <2>3 DEF Claim
<1>2. CASE Preparing(r) \/ Phase(r) \/ Cleaning(r)
  <2>1. UNCHANGED <<endVars, storeVars>>
    BY <1>2 DEF Preparing, Phase, Cleaning
  <2>2. \/ UNCHANGED rowVars
        \/ \E st \in Active : UpdateStatus(r, st)
    BY <1>2 DEF Preparing, Phase, Cleaning, StatusChanged, Swallowed, Refused, Active
  <2> QED
    BY <2>1, <2>2, KeepsIdle, KeepsStatus DEF storeVars
<1>3. CASE FinalStatus(r)
  <2>1. run[r].verdict.status \in Terminal
    BY Fields DEF LocalInv, Verdict
  <2> QED
    BY <1>3, <2>1, KeepsIdle, KeepsStatus DEF FinalStatus, Swallowed, Refused, storeVars
<1>4. CASE Beat(r)
  <2>1. Mine(r) \in Token
    BY <1>4, Tokens DEF Beat, Gone
  <2> QED
    BY <1>4, <2>1, KeepsIdle, KeepsHeartbeat DEF Beat, storeVars
<1>5. CASE Prepare(r) \/ Check(r) \/ CreateContainer(r) \/ Execute(r) \/ CollectArtifacts(r)
           \/ EmitError(r) \/ CleanUp(r) \/ EmergencyCleanup(r)
  BY <1>5, KeepsIdle DEF Prepare, Check, CreateContainer, Execute, CollectArtifacts, EmitError,
     CleanUp, EmergencyCleanup, storeVars
<1>6. CASE CommandStarted(r) \/ CommandCompleted(r)
  <2>1. UNCHANGED <<rowVars, endVars, proofs>> /\ (leaseLive \/ UNCHANGED cmdVars)
    BY <1>6 DEF CommandStarted, CommandCompleted, Refused, InsertCommand, UpdateCommand, HoldsLease,
       cmdVars
  <2> QED
    BY <2>1, KeepsIdle, KeepsCommand
<1>7. CASE CleanupCompleted(r) \/ HandlerRecord(r) \/ EmergencyRecord(r)
  <2>1. /\ UNCHANGED <<rowVars, endVars, cmdVars>>
        /\ UNCHANGED proofs \/ RecordCleanup(Mine(r), run[r].proofOk)
    BY <1>7 DEF CleanupCompleted, HandlerRecord, EmergencyRecord, Swallowed, Refused
  <2>2. run[r].proofOk \in BOOLEAN
    BY Fields DEF LocalInv
  <2> QED
    BY <2>1, <2>2, KeepsIdle, KeepsProof
<1>8. CASE HandlerComplete(r) \/ EmergencyComplete(r)
  <2>1. /\ UNCHANGED <<cmdVars, proofs>>
        /\ UNCHANGED <<rowVars, endVars>> \/ CompleteExecution(Mine(r), run[r].verdict, r)
    BY <1>8 DEF HandlerComplete, EmergencyComplete, Swallowed, Refused, storeVars
  <2>2. /\ run[r].verdict \in Verdict /\ run[r].proofOk \in BOOLEAN /\ run[r].proofOk \in proofs
        /\ ~run[r].proofOk => run[r].verdict.status = "CLEANUP_FAILED"
        /\ run[r].verdict.result \in Conclusive => Own(r, Total) /\ Good(Total)
    BY <1>8, Fields DEF LocalInv, RunInv, Proving, Earning, Accounted, HandlerComplete,
       EmergencyComplete
  <2> QED
    BY <2>1, <2>2, KeepsIdle, CompleteDecides
<1> QED
  BY <1>1, <1>2, <1>3, <1>4, <1>5, <1>6, <1>7, <1>8 DEF RunStep

LEMMA AnyRowStep == ASSUME LocalInv, Ledger, [Next]_vars PROVE RowStep
<1> USE DEF RowStep
<1>1. ASSUME NEW r \in Run, Timer(r) PROVE RowStep
  <2>1. UNCHANGED <<storeVars, endVars>> /\ (UNCHANGED rowVars \/ Heartbeat(Mine(r)))
    BY <1>1 DEF Timer, ExecutionTimeout, CancellationPoll, HeartbeatTimer, Abort
  <2>2. Mine(r) \in Token
    BY <1>1, Tokens DEF Timer, ExecutionTimeout, CancellationPoll, HeartbeatTimer, Abort, Running
  <2> QED
    BY <2>1, <2>2, KeepsIdle, KeepsHeartbeat DEF storeVars
<1>2. ASSUME NEW r \in Run, NEW w \in Worker, Deliver(r, w) PROVE RowStep
  BY <1>2, KeepsIdle DEF Deliver, storeVars
<1>3. ASSUME NEW p \in Pass, ReconcileCleanup(p) \/ ReconcileRecord(p) PROVE RowStep
  <2>1. /\ UNCHANGED <<rowVars, endVars, cmdVars>>
        /\ UNCHANGED proofs \/ RecordCleanup(PMine(p), pass[p].proofOk)
    BY <1>3 DEF ReconcileCleanup, ReconcileRecord, Refused, storeVars
  <2> QED
    BY <2>1, PassFields, KeepsIdle, KeepsProof DEF LocalInv
<1>4. ASSUME NEW p \in Pass, ReconcileComplete(p) PROVE RowStep
  <2> DEFINE v == ReapVerdict(pass[p].proofOk)
  <2>1. /\ UNCHANGED <<cmdVars, proofs>>
        /\ UNCHANGED <<rowVars, endVars>> \/ CompleteExecution(PMine(p), v, p)
    BY <1>4 DEF ReconcileComplete, Refused, storeVars
  <2>2. pass[p].proofOk \in BOOLEAN /\ pass[p].proofOk \in proofs
    BY <1>4, PassFields DEF LocalInv, PassInv, ReconcileComplete
  <2>3. v \in Verdict /\ v.result \notin Conclusive
        /\ (~pass[p].proofOk => v.status = "CLEANUP_FAILED")
    BY <2>2, VerdictTypes, Inconclusive DEF ReapVerdict, Outcome
  <2> HIDE DEF v
  <2> QED
    BY <2>1, <2>2, <2>3, KeepsIdle, CompleteDecides
<1>5. ASSUME NEW p \in Pass, ReconcileHeartbeat(p) PROVE RowStep
  <2>1. PMine(p) \in Token
    BY <1>5, Tokens DEF ReconcileHeartbeat
  <2> QED
    BY <1>5, <2>1, KeepsIdle, KeepsHeartbeat DEF ReconcileHeartbeat, storeVars
<1>6. ASSUME NEW p \in Pass, NEW w \in Worker, ReconcileExpired(p, w) PROVE RowStep
  <2>1. <<"reconciler", w>> # NoOne
    BY TokenIsOwner DEF Token
  <2>2. ~completed /\ status # "NONE"
    BY <1>6 DEF ReconcileExpired, Ledger
  <2> QED
    BY <1>6, <2>1, <2>2 DEF Keeps, ReconcileExpired, storeVars
<1>7. CASE LeaseExpires
  BY <1>7, LiveLease DEF Keeps, LeaseExpires, storeVars
<1>8. CASE RequestCancellation \/ OrphanSweep \/ UNCHANGED vars
  BY <1>8, KeepsIdle DEF RequestCancellation, OrphanSweep, vars, storeVars
<1>9. ASSUME NEW w \in Worker, Crash(w) PROVE RowStep
  BY <1>9, KeepsIdle DEF Crash, storeVars
<1>10. CASE \E allowed \in BOOLEAN : CreateReproduction(allowed)
  BY <1>10 DEF Creates, CreateReproduction, storeVars
<1> QED
  BY <1>1, <1>2, <1>3, <1>4, <1>5, <1>6, <1>7, <1>8, <1>9, <1>10, RunRowStep DEF Next, PassStep

\* The invariant is inductive.
LEMMA IInvInit == Init => IInv
<1> SUFFICES ASSUME Init PROVE IInv
  OBVIOUS
<1>1. Ledger /\ ConclusiveIsEarned
  BY DEF Init, Ledger, ConclusiveIsEarned, Conclusive
<1> QED
  BY <1>1, LocalInit DEF IInv

LEMMA IInvNext == ASSUME IInv, [Next]_vars PROVE IInv'
<1>1. LocalInv'
  BY LocalNext DEF IInv
<1>2. Ledger /\ LocalInv /\ ConclusiveIsEarned
  BY DEF IInv
<1>3. CASE Decides
  <2>1. PICK v \in Verdict, a \in Run \union Pass :
          /\ status' = v.status /\ rstatus' = v.status /\ result' = v.result
          /\ completed' = TRUE /\ leaseOwner' = NoOne /\ leaseLive' = FALSE
          /\ author' = a
          /\ v.result \in Conclusive => a \in Run /\ Own(a, Total) /\ Good(Total)
    BY <1>3 DEF Decides
  <2>2. v.status \in Terminal /\ v.status # "NONE"
    BY DEF Verdict, Terminal
  <2>3. Ledger'
    BY <2>1, <2>2 DEF Ledger
  <2>4. ConclusiveIsEarned'
    BY <1>3, <2>1 DEF ConclusiveIsEarned, Decides, Own, Good, Accepted, cmdVars
  <2> QED
    BY <1>1, <2>3, <2>4 DEF IInv
<1>4. CASE Keeps
  <2>1. Ledger'
    BY <1>2, <1>4 DEF Ledger, Keeps, endVars
  <2>2. result \in Conclusive => completed
    BY <1>2 DEF Ledger, Conclusive
  <2>3. ConclusiveIsEarned'
    BY <1>2, <1>4, <2>2 DEF ConclusiveIsEarned, Keeps, Accepted, cmdVars, endVars
  <2> QED
    BY <1>1, <2>1, <2>3 DEF IInv
<1>5. CASE Creates
  <2>1. CreateReproduction(TRUE) \/ CreateReproduction(FALSE)
    BY <1>5 DEF Creates
  <2>2. /\ leaseOwner = NoOne /\ ~leaseLive /\ author = NoOne /\ finals = 0
        /\ UNCHANGED <<leaseOwner, leaseLive, author, finals>>
    BY <1>2, <2>1 DEF Ledger, CreateReproduction, endVars
  <2>3. ASSUME CreateReproduction(TRUE) PROVE Ledger'
    <3>1. status' = "REQUESTED" /\ result' = "NONE" /\ ~completed'
      BY <2>3 DEF CreateReproduction
    <3> QED
      BY <2>2, <3>1 DEF Ledger
  <2>4. ASSUME CreateReproduction(FALSE) PROVE Ledger'
    <3>1. status' = "POLICY_BLOCKED" /\ rstatus' = status' /\ completed'
      BY <2>4 DEF CreateReproduction
    <3> QED
      BY <2>2, <3>1 DEF Ledger, Terminal
  <2>5. ConclusiveIsEarned'
    BY <1>5 DEF ConclusiveIsEarned, Creates, CreateReproduction, Conclusive
  <2>6. Ledger'
    BY <2>1, <2>3, <2>4
  <2> QED
    BY <1>1, <2>5, <2>6 DEF IInv
<1> QED
  BY <1>2, <1>3, <1>4, <1>5, AnyRowStep DEF RowStep

\* Every conclusive reproduction result was earned by one run that started
\* every command itself, for any number of competing deliveries of the job,
\* reconciliation passes and faults, and although runs share lease tokens.
THEOREM Earned == Spec => []ConclusiveIsEarned
<1>1. IInv => ConclusiveIsEarned
  BY DEF IInv
<1> QED
  BY <1>1, IInvInit, IInvNext, PTL DEF Spec

\* The worker, its retries, the reconciler and the store together implement
\* the contract: an execution is decided once, on a recorded cleanup proof,
\* and is never touched again.
THEOREM ImplementsContract == Spec => ContractSpec
<1>1. Init => Contract!Init
  BY DEF Init, Contract!Init, Decided
<1>2. ASSUME IInv, [Next]_vars PROVE [Contract!Next]_<<Decided, proofs>>
  <2>1. Ledger /\ LocalInv
    BY <1>2 DEF IInv
  <2>2. CASE Keeps
    <3>1. Decided' = Decided
      BY <2>2 DEF Keeps, Decided, endVars
    <3>2. completed => proofs' = proofs
      BY <2>2 DEF Keeps
    <3>3. ASSUME NEW ok \in BOOLEAN, proofs' = proofs \union {ok}, ~completed
          PROVE  Contract!Prove(ok)
      BY <3>1, <3>3 DEF Contract!Prove, Decided
    <3> QED
      BY <2>2, <3>1, <3>2, <3>3 DEF Keeps, Contract!Next
  <2>3. CASE Decides
    <3>1. PICK v \in Verdict, a \in Run \union Pass :
            /\ status' = v.status /\ rstatus' = v.status /\ result' = v.result
            /\ completed' = TRUE /\ author' = a /\ finals' = finals + 1
            /\ proofs # {} /\ (TRUE \in proofs \/ v.status = "CLEANUP_FAILED")
      BY <2>3 DEF Decides
    <3>2. v.status \in Terminal /\ v.result \in Result
      BY DEF Verdict
    <3>3. Decided = [status |-> "open"] /\ finals' = 1 /\ proofs' = proofs
      BY <2>1, <2>3, <3>1 DEF Decides, Decided, Ledger
    <3>4. /\ Decided' = [status |-> v.status, rstatus |-> v.status, result |-> v.result,
                         author |-> a, events |-> 1]
          /\ Decided' \in DecidedOutcomes
      BY <3>1, <3>2, <3>3 DEF Decided, DecidedOutcomes
    <3>5. Decided'.rstatus = Decided'.status /\ Decided'.status = v.status
      BY <3>4
    <3>6. Contract!Conclude
      BY <3>1, <3>3, <3>4, <3>5 DEF Contract!Conclude
    <3> QED
      BY <3>6 DEF Contract!Next
  <2>4. CASE Creates
    <3>1. PICK allowed \in BOOLEAN : CreateReproduction(allowed)
      BY <2>4 DEF Creates
    <3>2. proofs = {} /\ proofs' = proofs /\ Decided = [status |-> "open"]
          /\ author = NoOne /\ finals = 0 /\ UNCHANGED <<author, finals>>
      BY <2>1, <2>4, <3>1 DEF Creates, CreateReproduction, Ledger, Decided, endVars
    <3>3. CASE allowed
      BY <3>1, <3>2, <3>3 DEF CreateReproduction, Decided
    <3>4. CASE ~allowed
      <4>1. Decided' = [status |-> "POLICY_BLOCKED", rstatus |-> "POLICY_BLOCKED",
                        result |-> "POLICY_BLOCKED", author |-> NoOne, events |-> 0]
        BY <3>1, <3>2, <3>4 DEF CreateReproduction, Decided
      <4> QED
        BY <3>2, <4>1 DEF Contract!Refuse, Contract!Next
    <3> QED
      BY <3>3, <3>4
  <2> QED
    BY <1>2, <2>1, <2>2, <2>3, <2>4, AnyRowStep DEF RowStep
<1> QED
  BY <1>1, <1>2, IInvInit, IInvNext, PTL DEF Spec, ContractSpec, Contract!Spec
=============================================================================
