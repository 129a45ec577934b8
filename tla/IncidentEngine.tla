--------------------------- MODULE IncidentEngine ---------------------------
(***************************************************************************)
(* One incident: its row, the clients that read it and change it through   *)
(* the API, and the triage jobs that the worker processes                  *)
(* (packages/database/src/incident-store.ts, packages/incidents).          *)
(*                                                                         *)
(* Every store method is one SERIALIZABLE transaction that locks the row,  *)
(* hence one step.  A job reaches its queue through the outbox (module     *)
(* Outbox) and is handled at least once: jobs holds the messages that are  *)
(* committed and not finished.                                             *)
(*                                                                         *)
(* A severity is represented by what assessSeverity took it from: the      *)
(* reporter's override or the failure signals.  Evidence, health snapshots *)
(* and hash chains are left out, except for the version they consume.      *)
(***************************************************************************)
EXTENDS Integers, FiniteSets

CONSTANTS
  Client,       \* users and services that call the API
  Signals,      \* failure signals a reporter can send
  NoSignals,    \* none were sent
  Override,     \* the severity the reporter set by hand
  MaxAttempts,  \* attempts of the triage queue
  MaxStalls,    \* how often BullMQ hands out a stalled job again
  MaxVersion,   \* bound: clients change the incident below this version only
  MaxRequests,  \* bound on the triage requests
  MaxFaults     \* bound on the faults of the environment (see Fault)

ASSUME IncidentAssumption ==
  /\ NoSignals \notin Signals /\ Override \notin Signals \union {NoSignals}
  /\ MaxAttempts \in Nat \ {0} /\ MaxStalls \in Nat
  /\ MaxVersion \in Nat /\ MaxRequests \in Nat /\ MaxFaults \in Nat

VARIABLES
  incident,     \* the Incident row
  response,     \* the response kept in the IdempotencyRecord of its creation
  assessments,  \* the severities of the SeverityAssessment rows
  keys,         \* versions that deduplication keys of outbox messages name
  jobs,         \* triage jobs that are committed and not finished
  seen,         \* what each client knows of the incident
  requests,     \* observer: number of TRIAGE_REQUESTED events
  served,       \* observer: the keys of the jobs that were processed
  faults        \* observer: the faults so far

vars == <<incident, response, assessments, keys, jobs, seen, requests, served, faults>>

Status == {"ADMITTED", "TRIAGING", "INVESTIGATING", "AWAITING_APPROVAL", "RECOVERING",
           "VERIFYING", "VERIFIED", "FAILED", "CANCELLED"}

\* The transitions table of packages/incidents.
Transitions ==
  [s \in Status |->
     CASE s = "ADMITTED"          -> {"TRIAGING", "CANCELLED", "FAILED"}
       [] s = "TRIAGING"          -> {"INVESTIGATING", "FAILED", "CANCELLED"}
       [] s = "INVESTIGATING"     -> {"AWAITING_APPROVAL", "RECOVERING", "FAILED", "CANCELLED"}
       [] s = "AWAITING_APPROVAL" -> {"RECOVERING", "CANCELLED", "FAILED"}
       [] s = "RECOVERING"        -> {"VERIFYING", "FAILED", "CANCELLED"}
       [] s = "VERIFYING"         -> {"VERIFIED", "RECOVERING", "FAILED"}
       [] s = "FAILED"            -> {"TRIAGING", "CANCELLED"}
       [] OTHER                   -> {}]

\* stageByStatus
StageOf ==
  [s \in Status |->
     CASE s \in {"ADMITTED", "CANCELLED"}                          -> "ADMIT"
       [] s = "TRIAGING"                                           -> "TRIAGE"
       [] s \in {"INVESTIGATING", "AWAITING_APPROVAL", "FAILED"}   -> "DIAGNOSE"
       [] s = "RECOVERING"                                         -> "RECOVER"
       [] s \in {"VERIFYING", "VERIFIED"}                          -> "VERIFY"]

Closed == {"VERIFIED", "CANCELLED"}

Sent     == Signals \union {NoSignals}
Severity == Sent \union {Override}

\* acknowledged and resolved: acknowledgedAt and resolvedAt are set.
Row == [status : Status \union {"NONE"},
        stage : {"NONE", "ADMIT", "TRIAGE", "DIAGNOSE", "RECOVER", "VERIFY"},
        version : Nat, signals : Sent, severity : Severity,
        acknowledged : BOOLEAN, resolved : BOOLEAN]

Job == [key : Nat, signals : Sent, tries : Nat, stalls : Nat]

TypeOK ==
  /\ incident \in Row /\ response \in Row
  /\ assessments \subseteq Severity
  /\ keys \subseteq Nat /\ served \subseteq keys
  /\ jobs \subseteq Job /\ \A j \in jobs : j.key \in keys
  /\ seen \in [Client -> Row]
  /\ requests \in Nat
  /\ faults \in 0..MaxFaults

NoIncident == [status |-> "NONE", stage |-> "NONE", version |-> 0, signals |-> NoSignals,
               severity |-> NoSignals, acknowledged |-> FALSE, resolved |-> FALSE]

Init ==
  /\ incident = NoIncident /\ response = NoIncident
  /\ assessments = {}
  /\ keys = {} /\ jobs = {}
  /\ seen = [c \in Client |-> NoIncident]
  /\ requests = 0 /\ served = {} /\ faults = 0

\* The answer of a store call is lost or the call fails; a worker crashes.
Fault   == faults < MaxFaults /\ faults' = faults + 1
NoFault == UNCHANGED faults

Exists  == incident.status # "NONE"
Bounded == incident.version < MaxVersion

-----------------------------------------------------------------------------

\* Mutant: the deduplication key is not stored.
InsertOutboxUnkeyed(key, signals) ==
  /\ jobs' = jobs \union {[key |-> key, signals |-> signals, tries |-> 0, stalls |-> 0]}
  /\ UNCHANGED keys

\* insertOutbox: a message with a key that was used before is dropped.
InsertOutbox(key, signals) ==
  /\ keys' = keys \union {key}
  /\ jobs' = IF key \in keys
             THEN jobs
             ELSE jobs \union {[key |-> key, signals |-> signals, tries |-> 0, stalls |-> 0]}

\* The client learns of row, or its answer is lost.
Answer(c, row) ==
  \/ seen' = [seen EXCEPT ![c] = row] /\ NoFault
  \/ UNCHANGED seen /\ Fault

\* assessSeverity
Assessed(overridden, signals) == IF overridden THEN Override ELSE signals

CreateIncident(c, signals, overridden) ==
  LET severity == Assessed(overridden, signals)
      row == [status |-> "ADMITTED", stage |-> "ADMIT", version |-> 1, signals |-> signals,
              severity |-> severity, acknowledged |-> FALSE, resolved |-> FALSE]
  IN  /\ ~Exists
      /\ incident' = row /\ response' = row
      /\ assessments' = {severity}
      /\ InsertOutbox(1, signals) /\ requests' = requests + 1
      /\ Answer(c, row)
      /\ UNCHANGED served

\* createIncident again under the same idempotency key: the first response.
ReplayCreation(c) ==
  /\ Exists
  /\ seen' = [seen EXCEPT ![c] = response]
  /\ UNCHANGED <<incident, response, assessments, keys, jobs, requests, served, faults>>

GetIncident(c) ==
  /\ Exists
  /\ seen' = [seen EXCEPT ![c] = incident]
  /\ UNCHANGED <<incident, response, assessments, keys, jobs, requests, served, faults>>

\* Evidence is accepted in every status; evidence that is already there is
\* not inserted again, and takes a version all the same.
AddEvidence ==
  /\ Exists /\ Bounded
  /\ incident' = [incident EXCEPT !.version = @ + 1]
  /\ UNCHANGED <<response, assessments, keys, jobs, seen, requests, served, faults>>

\* Mutant: acknowledgedAt is forgotten.
MovedUnacknowledged(row, to) ==
  [row EXCEPT !.status = to, !.stage = StageOf[to], !.version = @ + 1,
              !.resolved = @ \/ to = "VERIFIED"]

\* The row after UPDATE "Incident" SET status in transitionIncident.
Moved(row, to) ==
  [row EXCEPT !.status = to, !.stage = StageOf[to], !.version = @ + 1,
              !.acknowledged = @ \/ to = "INVESTIGATING",
              !.resolved = @ \/ to = "VERIFIED"]

TransitionIncident(c, to) ==
  /\ Exists /\ Bounded
  /\ incident.version = seen[c].version     \* expectedVersion
  /\ to \in Transitions[incident.status]
  /\ incident' = Moved(incident, to)
  /\ Answer(c, incident')
  /\ UNCHANGED <<response, assessments, keys, jobs, requests, served>>

\* Mutant: the key names the version the request found.
TriageKeyCurrent(row) == row.version

TriageKey(row) == row.version + 1

\* Mutant: the request leaves the version alone.
RequestedSilently(row, signals) ==
  [row EXCEPT !.signals = IF signals = NoSignals THEN @ ELSE signals]

Requested(row, signals) ==
  [row EXCEPT !.version = @ + 1,
              !.signals = IF signals = NoSignals THEN @ ELSE signals]

\* Returns the row as it is when triage is under way, unless forced.
RequestTriage(c, signals, force) ==
  /\ Exists
  /\ IF ~force /\ incident.status \in {"TRIAGING", "INVESTIGATING"}
     THEN /\ Answer(c, incident)
          /\ UNCHANGED <<incident, keys, jobs, requests>>
     ELSE /\ incident.status \notin Closed /\ Bounded /\ requests < MaxRequests
          /\ InsertOutbox(TriageKey(incident), signals) /\ requests' = requests + 1
          /\ incident' = Requested(incident, signals)
          /\ Answer(c, incident')
  /\ UNCHANGED <<response, assessments, served>>

-----------------------------------------------------------------------------
(* The triage worker.                                                      *)

\* Mutant: triage of a closed incident is not refused.
TriageableAlways(row) == row.status # "NONE"

Triageable(row) == row.status \notin Closed

\* Mutant: the severity is always assessed from the signals.
TriageSeverityFromSignals(previous, signals) == Assessed(FALSE, signals)

\* An override carries over from the assessment before.
TriageSeverity(previous, signals) == Assessed(previous = Override, signals)

\* Both updates of processTriage: to TRIAGING, and on to INVESTIGATING.
Triaged(row, severity) ==
  [row EXCEPT !.severity = severity, !.status = "INVESTIGATING", !.stage = "DIAGNOSE",
              !.acknowledged = TRUE, !.version = @ + 2]

\* The transaction of processTriage.  The latest assessment is the one whose
\* transaction began last, which need not be the one that committed last.
ProcessTriage(j) ==
  LET signals == IF j.signals = NoSignals THEN incident.signals ELSE j.signals
  IN  /\ Triageable(incident)
      /\ \E previous \in assessments :
           LET severity == TriageSeverity(previous, signals)
           IN  /\ incident' = Triaged(incident, severity)
               /\ assessments' = assessments \union {severity}
      /\ served' = served \union {j.key}

NotProcessed == UNCHANGED <<incident, assessments, served>>

\* Mutant: the queue has no retries.
TryAgainNever(j) == jobs' = jobs \ {j}

\* The attempt failed: BullMQ tries the job again, up to MaxAttempts times.
TryAgain(j) ==
  jobs' = (jobs \ {j}) \union {k \in {[j EXCEPT !.tries = @ + 1]} : k.tries < MaxAttempts}

\* The worker died with the job: BullMQ finds it stalled.
Stalled(j) ==
  jobs' = (jobs \ {j}) \union {k \in {[j EXCEPT !.stalls = @ + 1]} : k.stalls <= MaxStalls}

\* One delivery of the job.
HandleTriageJob(j) ==
  /\ j \in jobs
  /\ \/ ProcessTriage(j) /\ jobs' = jobs \ {j} /\ NoFault
     \/ ~Triageable(incident) /\ NotProcessed /\ TryAgain(j) /\ NoFault
     \/ (ProcessTriage(j) \/ NotProcessed) /\ (TryAgain(j) \/ Stalled(j)) /\ Fault
  /\ UNCHANGED <<response, keys, seen, requests>>

ClientStep(c) ==
  \/ \E signals \in Sent, b \in BOOLEAN :
       CreateIncident(c, signals, b) \/ RequestTriage(c, signals, b)
  \/ ReplayCreation(c) \/ GetIncident(c)
  \/ \E to \in Status : TransitionIncident(c, to)

Next ==
  \/ \E c \in Client : ClientStep(c)
  \/ AddEvidence
  \/ \E j \in jobs : HandleTriageJob(j)

Spec == Init /\ [][Next]_vars

-----------------------------------------------------------------------------

\* SPRINT_3_ENTERPRISE_INCIDENT_ENGINE.md:140, "Competing writes therefore fail
\* with a conflict instead of silently overwriting each other": the version is
\* a name for the contents of the row, so a client whose expectedVersion is
\* accepted decides on the very row it has read, whatever triage jobs and other
\* clients did in between.
VersionNamesContent ==
  \A c \in Client : seen[c].version = incident.version => seen[c] = incident

\* Every TRIAGE_REQUESTED event has an outbox message of its own: no request
\* is taken for a duplicate of an earlier one.
RequestsAreQueued == IsFiniteSet(keys) /\ Cardinality(keys) = requests

\* The derived columns agree with the history of the status: the stage is the
\* one of the status, whoever wrote it, a status beyond triage has been
\* acknowledged, and an incident is resolved exactly when it is VERIFIED.
Milestones ==
  Exists =>
    /\ incident.stage = StageOf[incident.status]
    /\ incident.status \in Status \ {"ADMITTED", "TRIAGING", "FAILED", "CANCELLED"}
         => incident.acknowledged
    /\ incident.resolved <=> incident.status = "VERIFIED"

\* A severity the reporter set by hand survives every triage, and none appears
\* that nobody set.
OverrideIsKept == incident.severity = Override <=> response.severity = Override

\* A VERIFIED or CANCELLED incident never changes again, although jobs that
\* were requested before still run; only evidence may take new versions.
ClosedIsFinal ==
  [][incident.status \in Closed =>
       /\ incident' = [incident EXCEPT !.version = incident'.version]
       /\ UNCHANGED <<assessments, keys>>]_vars

-----------------------------------------------------------------------------
(* Fairness: a committed job is handed out and its handler returns.        *)
(* Clients owe nothing, and nothing forces a fault.                        *)

Fairness == WF_vars(NoFault /\ \E j \in jobs : HandleTriageJob(j))

FairSpec == Spec /\ Fairness

\* ADR 0001, "Redis outages delay but do not lose work": every triage request
\* is served, unless the incident is closed first or more workers die than
\* BullMQ forgives.
RequestIsServed ==
  \A k \in 1..(MaxVersion + 1) :
    k \in keys ~> (k \in served \/ incident.status \in Closed \/ faults > MaxStalls)
=============================================================================
