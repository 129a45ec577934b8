----------------------- MODULE IncidentEngine_proofs -----------------------
(***************************************************************************)
(* What holds of an incident for any number of clients, requests, retries  *)
(* and faults.                                                             *)
(***************************************************************************)
EXTENDS IncidentEngine, FiniteSetTheorems, TLAPS

\* Before the creation there is nothing; afterwards the version is positive.
Beginning ==
  /\ ~Exists => /\ incident = NoIncident /\ response = NoIncident
                /\ keys = {} /\ requests = 0 /\ jobs = {} /\ assessments = {}
                /\ \A c \in Client : seen[c] = NoIncident
  /\ Exists => incident.version >= 1

\* A row that was known at the version of the incident is the incident.
Dated(row) ==
  /\ row.version <= incident.version
  /\ row.version = incident.version => row = incident

\* Nobody knows a version that is still to come, and no key names one.
Versions ==
  /\ Dated(response)
  /\ \A c \in Client : Dated(seen[c])
  /\ \A k \in keys : k <= incident.version

\* Every assessment was overridden, or none.
Overrides ==
  \A a \in assessments : a = Override <=> response.severity = Override

\* The inductive invariant.
IInv ==
  /\ TypeOK /\ Beginning /\ Versions /\ RequestsAreQueued /\ Milestones
  /\ Overrides /\ OverrideIsKept

-----------------------------------------------------------------------------
(* The rows that the store writes.                                         *)

\* transitionIncident writes a row of the next version.
LEMMA MovedRow ==
  ASSUME NEW row \in Row, NEW to \in Status
  PROVE  /\ Moved(row, to) \in Row
         /\ Moved(row, to).version = row.version + 1
         /\ Moved(row, to).severity = row.severity
         /\ Moved(row, to).status = to /\ Moved(row, to).stage = StageOf[to]
         /\ Moved(row, to).acknowledged = (row.acknowledged \/ to = "INVESTIGATING")
         /\ Moved(row, to).resolved = (row.resolved \/ to = "VERIFIED")
<1>0. StageOf[to] \in {"NONE", "ADMIT", "TRIAGE", "DIAGNOSE", "RECOVER", "VERIFY"}
  BY DEF StageOf, Status
<1>1. to \in Status \union {"NONE"} /\ row.version + 1 \in Nat  BY DEF Row
<1>. DEFINE stage == StageOf[to]
<1>. DEFINE acknowledged == row.acknowledged \/ to = "INVESTIGATING"
            resolved == row.resolved \/ to = "VERIFIED"
            new == [row EXCEPT !.status = to, !.stage = stage, !.version = @ + 1,
                               !.acknowledged = acknowledged, !.resolved = resolved]
<1>2. acknowledged \in BOOLEAN /\ resolved \in BOOLEAN  OBVIOUS
<1>3. Moved(row, to) = new  BY DEF Moved
<1>. HIDE DEF acknowledged, resolved, stage
<1>4. new \in Row  BY <1>0, <1>1, <1>2 DEF Row, stage
<1>5. /\ new.version = row.version + 1 /\ new.severity = row.severity
      /\ new.status = to /\ new.stage = stage
  BY DEF Row
<1>6. new.acknowledged = acknowledged  BY DEF Row
<1>7. new.resolved = resolved  BY DEF Row
<1>. QED  BY <1>3, <1>4, <1>5, <1>6, <1>7 DEF acknowledged, resolved, stage

\* requestTriage writes a row of the next version and leaves the rest alone.
LEMMA RequestedRow ==
  ASSUME NEW row \in Row, NEW signals \in Sent
  PROVE  /\ Requested(row, signals) \in Row
         /\ Requested(row, signals).version = row.version + 1
         /\ Requested(row, signals).severity = row.severity
         /\ Requested(row, signals).status = row.status
         /\ Requested(row, signals).stage = row.stage
         /\ Requested(row, signals).acknowledged = row.acknowledged
         /\ Requested(row, signals).resolved = row.resolved
<1>. DEFINE sent == IF signals = NoSignals THEN row.signals ELSE signals
            new == [row EXCEPT !.version = @ + 1, !.signals = sent]
<1>1. sent \in Sent /\ row.version + 1 \in Nat  BY DEF Row
<1>2. Requested(row, signals) = new  BY DEF Requested
<1>. HIDE DEF sent
<1>3. new \in Row  BY <1>1 DEF Row
<1>4. /\ new.version = row.version + 1 /\ new.severity = row.severity
      /\ new.status = row.status /\ new.stage = row.stage
  BY DEF Row
<1>5. new.acknowledged = row.acknowledged  BY DEF Row
<1>6. new.resolved = row.resolved  BY DEF Row
<1>. QED  BY <1>2, <1>3, <1>4, <1>5, <1>6

\* processTriage writes an acknowledged row two versions later.
LEMMA TriagedRow ==
  ASSUME NEW row \in Row, NEW severity \in Severity
  PROVE  /\ Triaged(row, severity) \in Row
         /\ Triaged(row, severity).version = row.version + 2
         /\ Triaged(row, severity).severity = severity
         /\ Triaged(row, severity).status = "INVESTIGATING"
         /\ Triaged(row, severity).stage = "DIAGNOSE"
         /\ Triaged(row, severity).acknowledged
         /\ Triaged(row, severity).resolved = row.resolved
<1>. DEFINE new == Triaged(row, severity)
<1>1. /\ row.version + 2 \in Nat /\ "INVESTIGATING" \in Status \union {"NONE"}
      /\ "DIAGNOSE" \in {"NONE", "ADMIT", "TRIAGE", "DIAGNOSE", "RECOVER", "VERIFY"}
  BY DEF Row, Status
<1>2. new \in Row  BY <1>1 DEF Triaged, Row
<1>3. /\ new.version = row.version + 2 /\ new.severity = severity
      /\ new.status = "INVESTIGATING" /\ new.stage = "DIAGNOSE"
  BY DEF Triaged, Row
<1>4. new.acknowledged  BY DEF Triaged, Row
<1>5. new.resolved = row.resolved  BY DEF Triaged, Row
<1>. QED  BY <1>2, <1>3, <1>4, <1>5

\* addEvidence writes a row of the next version.
LEMMA EvidencedRow ==
  ASSUME NEW row \in Row
  PROVE  LET new == [row EXCEPT !.version = @ + 1]
         IN  /\ new \in Row
             /\ new.version = row.version + 1
             /\ new.severity = row.severity /\ new.status = row.status
             /\ new.stage = row.stage /\ new.acknowledged = row.acknowledged
             /\ new.resolved = row.resolved
BY DEF Row

\* A status of the row is in the table's domain when the incident exists.
LEMMA StatusKnown ==
  ASSUME TypeOK, Exists
  PROVE  incident.status \in Status
BY DEF TypeOK, Row, Exists

\* A new key makes one more message.
LEMMA NewKey ==
  ASSUME NEW key \in Nat, NEW signals \in Sent, RequestsAreQueued,
         \A k \in keys : k < key, requests \in Nat,
         keys \subseteq Nat, jobs \subseteq Job, \A j \in jobs : j.key \in keys,
         InsertOutbox(key, signals), requests' = requests + 1
  PROVE  /\ RequestsAreQueued'
         /\ keys' = keys \union {key} /\ keys' \subseteq Nat
         /\ jobs' \subseteq Job /\ \A j \in jobs' : j.key \in keys'
<1>1. key \notin keys  OBVIOUS
<1>2. keys' = keys \union {key}  BY DEF InsertOutbox
<1>3. IsFiniteSet(keys') /\ Cardinality(keys') = Cardinality(keys) + 1
  BY <1>1, <1>2, FS_AddElement DEF RequestsAreQueued
<1>4. RequestsAreQueued'  BY <1>3 DEF RequestsAreQueued
<1>5. jobs' = jobs \union {[key |-> key, signals |-> signals, tries |-> 0, stalls |-> 0]}
  BY <1>1 DEF InsertOutbox
<1>6. [key |-> key, signals |-> signals, tries |-> 0, stalls |-> 0] \in Job  BY DEF Job
<1>. QED  BY <1>2, <1>4, <1>5, <1>6

\* A fault, or none, keeps the count of faults.
LEMMA FaultType ==
  ASSUME faults \in 0..MaxFaults, Fault \/ NoFault
  PROVE  faults' \in 0..MaxFaults
BY IncidentAssumption DEF Fault, NoFault

\* A client learns the row it is answered, or nothing.
LEMMA AnswerKnown ==
  ASSUME NEW c \in Client, NEW row \in Row, seen \in [Client -> Row],
         faults \in 0..MaxFaults, Answer(c, row)
  PROVE  /\ seen' \in [Client -> Row]
         /\ \A d \in Client : seen'[d] = seen[d] \/ seen'[d] = row
         /\ faults' \in 0..MaxFaults
<1>1. faults' \in 0..MaxFaults  BY FaultType DEF Answer
<1>. QED  BY <1>1 DEF Answer

\* A row of a later version, known to nobody who was not told, keeps the dates.
LEMMA Advance ==
  ASSUME TypeOK, Versions, incident' \in Row, incident'.version > incident.version,
         response' = response,
         \A d \in Client : seen'[d] = seen[d] \/ seen'[d] = incident',
         \A k \in keys' : k \in keys \/ k <= incident'.version
  PROVE  Versions'
<1>1. /\ incident.version \in Nat /\ incident'.version \in Nat /\ response.version \in Nat
      /\ \A d \in Client : seen[d].version \in Nat
      /\ \A k \in keys : k \in Nat
  BY DEF TypeOK, Row
<1>2. Dated(response)'  BY <1>1 DEF Versions, Dated
<1>3. ASSUME NEW d \in Client  PROVE Dated(seen[d])'
  BY <1>1, <1>3 DEF Versions, Dated
<1>4. ASSUME NEW k \in keys'  PROVE k <= incident'.version
  BY <1>1, <1>4 DEF Versions
<1>. QED  BY <1>2, <1>3, <1>4 DEF Versions

\* Nothing has happened before the incident exists.
LEMMA InitInv == Init => IInv
<1>. SUFFICES ASSUME Init PROVE IInv  OBVIOUS
<1>1. NoIncident \in Row  BY DEF NoIncident, Row, Sent, Severity
<1>2. TypeOK  BY <1>1, IncidentAssumption DEF Init, TypeOK
<1>3. ~Exists /\ NoIncident.version = 0  BY DEF Init, Exists, NoIncident
<1>4. Beginning  BY <1>3 DEF Init, Beginning
<1>5. Versions  BY <1>3 DEF Init, Versions, Dated
<1>6. RequestsAreQueued  BY FS_EmptySet DEF Init, RequestsAreQueued
<1>7. Milestones  BY <1>3 DEF Milestones
<1>8. Overrides /\ OverrideIsKept  BY DEF Init, Overrides, OverrideIsKept
<1>. QED  BY <1>2, <1>4, <1>5, <1>6, <1>7, <1>8 DEF IInv

\* createIncident establishes the invariant for the new incident.
LEMMA CreateInv ==
  ASSUME IInv, NEW c \in Client, NEW signals \in Sent, NEW overridden \in BOOLEAN,
         CreateIncident(c, signals, overridden)
  PROVE  IInv'
<1>. DEFINE severity == Assessed(overridden, signals)
            row == [status |-> "ADMITTED", stage |-> "ADMIT", version |-> 1,
                    signals |-> signals, severity |-> severity,
                    acknowledged |-> FALSE, resolved |-> FALSE]
<1>0. /\ ~Exists /\ incident' = row /\ response' = row /\ assessments' = {severity}
      /\ InsertOutbox(1, signals) /\ requests' = requests + 1 /\ Answer(c, row)
      /\ served' = served
  BY DEF CreateIncident
<1>1. severity \in Severity  BY DEF Assessed, Severity
<1>. HIDE DEF severity
<1>2. row \in Row  BY <1>1 DEF Row, Status
<1>3. /\ row.version = 1 /\ row.severity = severity /\ row.status = "ADMITTED"
      /\ row.stage = "ADMIT" /\ row.resolved = FALSE
  OBVIOUS
<1>. HIDE DEF row
<1>4. keys = {} /\ jobs = {} /\ \A d \in Client : seen[d] = NoIncident
  BY <1>0 DEF IInv, Beginning
<1>5. NoIncident.version = 0  BY DEF NoIncident
<1>6. /\ RequestsAreQueued' /\ keys' = {1} /\ jobs' \subseteq Job
      /\ \A j \in jobs' : j.key \in keys'
  BY <1>0, <1>4, NewKey DEF IInv, TypeOK
<1>7. /\ seen' \in [Client -> Row] /\ faults' \in 0..MaxFaults
      /\ \A d \in Client : seen'[d] = seen[d] \/ seen'[d] = row
  BY <1>0, <1>2, AnswerKnown DEF IInv, TypeOK
<1>8. TypeOK'
  BY <1>0, <1>1, <1>2, <1>4, <1>6, <1>7 DEF IInv, TypeOK
<1>9. Exists'  BY <1>0, <1>3 DEF Exists
<1>10. Beginning'  BY <1>0, <1>3, <1>9 DEF Beginning
<1>11. Versions'
  BY <1>0, <1>3, <1>4, <1>5, <1>6, <1>7 DEF Versions, Dated
<1>12. Milestones'
  BY <1>0, <1>3 DEF Milestones, StageOf, Status
<1>13. Overrides' /\ OverrideIsKept'  BY <1>0, <1>3 DEF Overrides, OverrideIsKept
<1>. QED  BY <1>6, <1>8, <1>10, <1>11, <1>12, <1>13 DEF IInv

\* Reading the incident, or the response of its creation, tells a dated row.
LEMMA ReadInv ==
  ASSUME IInv, NEW c \in Client, ReplayCreation(c) \/ GetIncident(c)
  PROVE  IInv'
<1>1. /\ Exists
      /\ UNCHANGED <<incident, response, assessments, keys, jobs, requests, served, faults>>
      /\ \/ seen' = [seen EXCEPT ![c] = response]
         \/ seen' = [seen EXCEPT ![c] = incident]
  BY DEF ReplayCreation, GetIncident
<1>2. TypeOK'  BY <1>1 DEF IInv, TypeOK
<1>3. Beginning'  BY <1>1 DEF IInv, Beginning, Exists
<1>4. incident.version \in Nat /\ seen \in [Client -> Row]  BY DEF IInv, TypeOK, Row
<1>5. Versions'
  BY <1>1, <1>4 DEF IInv, Versions, Dated
<1>6. (RequestsAreQueued /\ Milestones /\ Overrides /\ OverrideIsKept)'
  BY <1>1 DEF IInv, RequestsAreQueued, Milestones, Overrides, OverrideIsKept, Exists
<1>. QED  BY <1>2, <1>3, <1>5, <1>6 DEF IInv

\* Evidence takes a version and changes nothing else.
LEMMA EvidenceInv ==
  ASSUME IInv, AddEvidence
  PROVE  IInv'
<1>. DEFINE new == [incident EXCEPT !.version = @ + 1]
<1>0. /\ Exists /\ incident' = new
      /\ UNCHANGED <<response, assessments, keys, jobs, seen, requests, served, faults>>
  BY DEF AddEvidence
<1>1. /\ new \in Row /\ new.version = incident.version + 1 /\ incident.version \in Nat
      /\ new.severity = incident.severity /\ new.status = incident.status
      /\ new.stage = incident.stage /\ new.acknowledged = incident.acknowledged
      /\ new.resolved = incident.resolved
  BY EvidencedRow DEF IInv, TypeOK, Row
<1>. HIDE DEF new
<1>2. TypeOK'  BY <1>0, <1>1 DEF IInv, TypeOK
<1>3. Beginning'  BY <1>0, <1>1 DEF IInv, Beginning, Exists
<1>4. Versions'
  <2>1. incident'.version > incident.version  BY <1>0, <1>1
  <2>. QED  BY <1>0, <1>1, <2>1, Advance DEF IInv
<1>5. (RequestsAreQueued /\ Milestones /\ Overrides /\ OverrideIsKept)'
  BY <1>0, <1>1 DEF IInv, RequestsAreQueued, Milestones, Overrides, OverrideIsKept, Exists
<1>. QED  BY <1>2, <1>3, <1>4, <1>5 DEF IInv

\* A transition of the table keeps the milestones.
LEMMA TransitionInv ==
  ASSUME IInv, NEW c \in Client, NEW to \in Status, TransitionIncident(c, to)
  PROVE  IInv'
<1>. DEFINE new == Moved(incident, to)
<1>0. /\ Exists /\ to \in Transitions[incident.status] /\ incident' = new /\ Answer(c, new)
      /\ UNCHANGED <<response, assessments, keys, jobs, requests, served>>
  BY DEF TransitionIncident
<1>1. /\ new \in Row /\ new.version = incident.version + 1 /\ incident.version \in Nat
      /\ new.severity = incident.severity /\ new.status = to /\ new.stage = StageOf[to]
      /\ new.acknowledged = (incident.acknowledged \/ to = "INVESTIGATING")
      /\ new.resolved = (incident.resolved \/ to = "VERIFIED")
  BY MovedRow DEF IInv, TypeOK, Row
<1>. HIDE DEF new
<1>2. /\ seen' \in [Client -> Row] /\ faults' \in 0..MaxFaults
      /\ \A d \in Client : seen'[d] = seen[d] \/ seen'[d] = new
  BY <1>0, <1>1, AnswerKnown DEF IInv, TypeOK
<1>3. TypeOK'  BY <1>0, <1>1, <1>2 DEF IInv, TypeOK
<1>4. Exists'  BY <1>0, <1>1 DEF Exists, Status
<1>5. Beginning'  BY <1>0, <1>1, <1>4 DEF Beginning
<1>6. Versions'
  <2>1. incident'.version > incident.version  BY <1>0, <1>1
  <2>. QED  BY <1>0, <1>1, <1>2, <2>1, Advance DEF IInv
<1>7. Milestones'
  <2>1. incident.status \in Status  BY <1>0, StatusKnown DEF IInv
  <2>2. incident.status # "VERIFIED"  BY <1>0, <2>1 DEF Transitions, Status
  <2>3. incident'.resolved <=> to = "VERIFIED"
    BY <1>0, <1>1, <2>2 DEF IInv, Milestones
  <2>4. /\ to \in {"AWAITING_APPROVAL", "RECOVERING", "VERIFYING", "VERIFIED"}
        => incident.status \in Status \ {"ADMITTED", "TRIAGING", "FAILED", "CANCELLED"}
    BY <1>0, <2>1 DEF Transitions, Status
  <2>5. to \in Status \ {"ADMITTED", "TRIAGING", "FAILED", "CANCELLED"} => incident'.acknowledged
    BY <1>0, <1>1, <2>4 DEF IInv, Milestones, Status
  <2>. QED  BY <1>0, <1>1, <2>3, <2>5 DEF Milestones
<1>8. (RequestsAreQueued /\ Overrides /\ OverrideIsKept)'
  BY <1>0, <1>1 DEF IInv, RequestsAreQueued, Overrides, OverrideIsKept
<1>. QED  BY <1>3, <1>5, <1>6, <1>7, <1>8 DEF IInv

\* A triage request uses a key that is new, because keys are past versions.
LEMMA RequestInv ==
  ASSUME IInv, NEW c \in Client, NEW signals \in Sent, NEW force \in BOOLEAN,
         RequestTriage(c, signals, force)
  PROVE  IInv'
<1>1. CASE UNCHANGED <<incident, keys, jobs, requests>> /\ Answer(c, incident)
  <2>1. UNCHANGED <<response, assessments, served>>  BY DEF RequestTriage
  <2>2. /\ seen' \in [Client -> Row] /\ faults' \in 0..MaxFaults
        /\ \A d \in Client : seen'[d] = seen[d] \/ seen'[d] = incident
    BY <1>1, AnswerKnown DEF IInv, TypeOK
  <2>3. TypeOK'  BY <1>1, <2>1, <2>2 DEF IInv, TypeOK
  <2>4. Beginning'  BY <1>1, <2>1, <2>2 DEF IInv, Beginning, Exists
  <2>5. Versions'
    <3>1. incident.version \in Nat  BY DEF IInv, TypeOK, Row
    <3>. QED  BY <1>1, <2>1, <2>2, <3>1 DEF IInv, Versions, Dated
  <2>6. (RequestsAreQueued /\ Milestones /\ Overrides /\ OverrideIsKept)'
    BY <1>1, <2>1 DEF IInv, RequestsAreQueued, Milestones, Overrides, OverrideIsKept, Exists
  <2>. QED  BY <2>3, <2>4, <2>5, <2>6 DEF IInv
<1>2. CASE ~(UNCHANGED <<incident, keys, jobs, requests>> /\ Answer(c, incident))
  <2>. DEFINE new == Requested(incident, signals)
  <2>0. /\ Exists /\ incident' = new /\ Answer(c, new)
        /\ InsertOutbox(TriageKey(incident), signals) /\ requests' = requests + 1
        /\ UNCHANGED <<response, assessments, served>>
    BY <1>2 DEF RequestTriage
  <2>1. /\ new \in Row /\ new.version = incident.version + 1 /\ incident.version \in Nat
        /\ new.severity = incident.severity /\ new.status = incident.status
        /\ new.stage = incident.stage /\ new.acknowledged = incident.acknowledged
        /\ new.resolved = incident.resolved
    BY RequestedRow DEF IInv, TypeOK, Row
  <2>. HIDE DEF new
  <2>2. /\ seen' \in [Client -> Row] /\ faults' \in 0..MaxFaults
        /\ \A d \in Client : seen'[d] = seen[d] \/ seen'[d] = new
    BY <2>0, <2>1, AnswerKnown DEF IInv, TypeOK
  <2>3. TriageKey(incident) \in Nat /\ \A k \in keys : k < TriageKey(incident)
    BY <2>1 DEF TriageKey, IInv, TypeOK, Versions
  <2>4. /\ RequestsAreQueued' /\ keys' = keys \union {TriageKey(incident)}
        /\ keys' \subseteq Nat /\ jobs' \subseteq Job /\ \A j \in jobs' : j.key \in keys'
    BY <2>0, <2>3, NewKey DEF IInv, TypeOK
  <2>5. TypeOK'  BY <2>0, <2>1, <2>2, <2>4 DEF IInv, TypeOK
  <2>6. Beginning'  BY <2>0, <2>1 DEF IInv, Beginning, Exists
  <2>7. Versions'
    <3>1. incident'.version > incident.version  BY <2>0, <2>1
    <3>2. \A k \in keys' : k \in keys \/ k <= incident'.version
      BY <2>0, <2>1, <2>4 DEF TriageKey
    <3>. QED  BY <2>0, <2>1, <2>2, <3>1, <3>2, Advance DEF IInv
  <2>8. (Milestones /\ Overrides /\ OverrideIsKept)'
    BY <2>0, <2>1 DEF IInv, Milestones, Overrides, OverrideIsKept, Exists
  <2>. QED  BY <2>4, <2>5, <2>6, <2>7, <2>8 DEF IInv
<1>. QED  BY <1>1, <1>2

\* A job that is finished or tried again leaves jobs with known keys.
LEMMA JobsKept ==
  ASSUME jobs \subseteq Job, \A i \in jobs : i.key \in keys, keys' = keys, NEW j \in jobs,
         jobs' = jobs \ {j} \/ TryAgain(j) \/ Stalled(j)
  PROVE  jobs' \subseteq Job /\ \A i \in jobs' : i.key \in keys'
<1>1. /\ [j EXCEPT !.tries = @ + 1] \in Job /\ [j EXCEPT !.tries = @ + 1].key = j.key
      /\ [j EXCEPT !.stalls = @ + 1] \in Job /\ [j EXCEPT !.stalls = @ + 1].key = j.key
  BY DEF Job
<1>2. CASE jobs' = jobs \ {j}  BY <1>2
<1>3. CASE TryAgain(j)  BY <1>1, <1>3 DEF TryAgain
<1>4. CASE Stalled(j)  BY <1>1, <1>4 DEF Stalled
<1>. QED  BY <1>2, <1>3, <1>4

\* A job, processed or not, keeps the invariant.
LEMMA TriageInv ==
  ASSUME IInv, NEW j \in jobs, HandleTriageJob(j)
  PROVE  IInv'
<1>0. UNCHANGED <<response, keys, seen, requests>>  BY DEF HandleTriageJob
<1>1. Exists  BY DEF IInv, Beginning
<1>2. /\ jobs' = jobs \ {j} \/ TryAgain(j) \/ Stalled(j)
      /\ Fault \/ NoFault
      /\ ProcessTriage(j) \/ NotProcessed
  BY DEF HandleTriageJob
<1>3. jobs' \subseteq Job /\ \A i \in jobs' : i.key \in keys'
  BY <1>0, <1>2, JobsKept DEF IInv, TypeOK
<1>4. faults' \in 0..MaxFaults  BY <1>2, FaultType DEF IInv, TypeOK
<1>5. RequestsAreQueued'  BY <1>0 DEF IInv, RequestsAreQueued
<1>6. CASE NotProcessed
  <2>1. TypeOK'  BY <1>0, <1>3, <1>4, <1>6 DEF IInv, TypeOK, NotProcessed
  <2>2. Beginning'  BY <1>0, <1>1, <1>6 DEF IInv, Beginning, Exists, NotProcessed
  <2>3. (Versions /\ Milestones /\ Overrides /\ OverrideIsKept)'
    BY <1>0, <1>6 DEF IInv, Versions, Dated, Milestones, Overrides, OverrideIsKept, Exists,
                      NotProcessed
  <2>. QED  BY <1>5, <2>1, <2>2, <2>3 DEF IInv
<1>7. CASE ProcessTriage(j)
  <2>. DEFINE signals == IF j.signals = NoSignals THEN incident.signals ELSE j.signals
  <2>1. signals \in Sent  BY DEF IInv, TypeOK, Row, Job
  <2>2. PICK previous \in assessments :
          /\ incident' = Triaged(incident, TriageSeverity(previous, signals))
          /\ assessments' = assessments \union {TriageSeverity(previous, signals)}
    BY <1>7 DEF ProcessTriage
  <2>3. Triageable(incident) /\ served' = served \union {j.key}
    BY <1>7 DEF ProcessTriage
  <2>. DEFINE severity == TriageSeverity(previous, signals)
              new == Triaged(incident, severity)
  <2>4. severity \in Severity /\ (severity = Override <=> previous = Override)
    BY <2>1, IncidentAssumption DEF TriageSeverity, Assessed, Severity, Sent
  <2>. HIDE DEF signals, severity
  <2>5. /\ new \in Row /\ new.version = incident.version + 2 /\ incident.version \in Nat
        /\ new.severity = severity /\ new.status = "INVESTIGATING" /\ new.stage = "DIAGNOSE"
        /\ new.acknowledged /\ new.resolved = incident.resolved
    BY <2>4, TriagedRow DEF IInv, TypeOK, Row
  <2>6. incident' = new /\ assessments' = assessments \union {severity}
    BY <2>2 DEF severity
  <2>. HIDE DEF new
  <2>7. TypeOK'
    BY <1>0, <1>3, <1>4, <2>3, <2>4, <2>5, <2>6 DEF IInv, TypeOK
  <2>8. Beginning'  BY <2>5, <2>6 DEF Beginning, Exists
  <2>9. Versions'
    <3>1. incident'.version > incident.version  BY <2>5, <2>6
    <3>. QED  BY <1>0, <2>5, <2>6, <3>1, Advance DEF IInv
  <2>10. Milestones'
    <3>1. ~incident.resolved
      BY <1>1, <2>3 DEF IInv, Milestones, Triageable, Closed
    <3>2. StageOf["INVESTIGATING"] = "DIAGNOSE"  BY DEF StageOf, Status
    <3>. QED  BY <2>5, <2>6, <3>1, <3>2 DEF Milestones
  <2>11. (previous = Override <=> response.severity = Override)
    BY <2>2 DEF IInv, Overrides
  <2>12. Overrides' /\ OverrideIsKept'
    BY <1>0, <2>4, <2>5, <2>6, <2>11 DEF IInv, Overrides, OverrideIsKept
  <2>. QED  BY <1>5, <2>7, <2>8, <2>9, <2>10, <2>12 DEF IInv
<1>. QED  BY <1>2, <1>6, <1>7

\* Every step keeps the invariant.
LEMMA NextInv == IInv /\ [Next]_vars => IInv'
<1>. SUFFICES ASSUME IInv, [Next]_vars PROVE IInv'  OBVIOUS
<1>1. CASE UNCHANGED vars
  BY <1>1 DEF vars, IInv, TypeOK, Beginning, Versions, Dated, RequestsAreQueued, Milestones,
              Overrides, OverrideIsKept, Exists
<1>2. ASSUME NEW c \in Client, ClientStep(c)  PROVE IInv'
  BY <1>2, CreateInv, RequestInv, ReadInv, TransitionInv DEF ClientStep
<1>3. CASE AddEvidence  BY <1>3, EvidenceInv
<1>4. ASSUME NEW j \in jobs, HandleTriageJob(j)  PROVE IInv'  BY <1>4, TriageInv
<1>. QED  BY <1>1, <1>2, <1>3, <1>4 DEF Next

\* The invariant holds in every reachable state.
THEOREM Invariant == Spec => []IInv
BY InitInv, NextInv, PTL DEF Spec

-----------------------------------------------------------------------------

\* The variables of the incident engine keep their types, and no job carries a
\* key that was not stored.
THEOREM IncidentTypes == Spec => []TypeOK
<1>1. IInv => TypeOK  BY DEF IInv
<1>. QED  BY <1>1, Invariant, PTL

\* An accepted expectedVersion means that the client has read this very row:
\* every store method that changes the row takes a new version.
THEOREM VersionsNameContents == Spec => []VersionNamesContent
<1>1. IInv => VersionNamesContent  BY DEF IInv, Versions, Dated, VersionNamesContent
<1>. QED  BY <1>1, Invariant, PTL

\* No triage request is lost to the deduplication of outbox keys.
THEOREM RequestsQueued == Spec => []RequestsAreQueued
<1>1. IInv => RequestsAreQueued  BY DEF IInv
<1>. QED  BY <1>1, Invariant, PTL

\* Stage, acknowledgement and resolution follow the status, although two
\* methods write them in different ways.
THEOREM MilestonesHold == Spec => []Milestones
<1>1. IInv => Milestones  BY DEF IInv
<1>. QED  BY <1>1, Invariant, PTL

\* A severity set by hand survives every triage.
THEOREM OverrideKept == Spec => []OverrideIsKept
<1>1. IInv => OverrideIsKept  BY DEF IInv
<1>. QED  BY <1>1, Invariant, PTL

\* Nothing but evidence changes a closed incident.
THEOREM ClosedStaysClosed == Spec => ClosedIsFinal
<1>. DEFINE Final == incident.status \in Closed =>
                       /\ incident' = [incident EXCEPT !.version = incident'.version]
                       /\ UNCHANGED <<assessments, keys>>
<1>1. ASSUME IInv, [Next]_vars  PROVE [Final]_vars
  <2>. SUFFICES ASSUME incident.status \in Closed, Next  PROVE Final
    BY <1>1
  <2>0. incident \in Row /\ Exists /\ incident.status \in {"VERIFIED", "CANCELLED"}
    BY <1>1 DEF IInv, TypeOK, Exists, Closed
  <2>1. UNCHANGED <<incident, assessments, keys>> => Final  BY <2>0 DEF Row
  <2>2. ASSUME NEW c \in Client, ClientStep(c)  PROVE Final
    <3>1. Transitions[incident.status] = {}  BY <2>0 DEF Transitions, Status
    <3>2. UNCHANGED <<incident, assessments, keys>>
      BY <2>0, <2>2, <3>1 DEF ClientStep, CreateIncident, RequestTriage, ReplayCreation,
                             GetIncident, TransitionIncident, Closed
    <3>. QED  BY <2>1, <3>2
  <2>3. CASE AddEvidence  BY <2>0, <2>3 DEF AddEvidence, Row
  <2>4. ASSUME NEW j \in jobs, HandleTriageJob(j)  PROVE Final
    <3>1. UNCHANGED <<incident, assessments, keys>>
      BY <2>0, <2>4 DEF HandleTriageJob, ProcessTriage, Triageable, NotProcessed, Closed
    <3>. QED  BY <2>1, <3>1
  <2>. QED  BY <2>2, <2>3, <2>4 DEF Next
<1>. QED  BY <1>1, Invariant, PTL DEF Spec, ClosedIsFinal
=============================================================================
