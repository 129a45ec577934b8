---------------------------- MODULE WebhookClosure ----------------------------
(***************************************************************************)
(* GitHub's webhook deliveries about the pull request of one publication:  *)
(* the ingress that reserves and queues them (apps/api                     *)
(* github-webhook.controller.ts), the jobs that apply them (apps/worker    *)
(* github-webhook-worker.ts, packages/database github-webhook-store.ts),   *)
(* the merge-readiness decisions and the closure after a merge             *)
(* (merge-closure-store.ts, packages/publication checks.ts,                *)
(* merge-closure.ts), and the human who marks the publication ready.       *)
(*                                                                         *)
(* Every event GitHub sends is of one repository and one pull request; it  *)
(* carries what was true when it was sent.  Deliveries arrive and jobs run *)
(* in any order.  A delivery that arrives again is answered as a duplicate *)
(* of the reserved row and changes nothing, so it is no action.            *)
(***************************************************************************)
EXTENDS Integers, Sequences, FiniteSets, PublicationLifecycle

CONSTANTS
  Reviewer,
  Raw,            \* what check runs report
  RequiredApprovals,
  MaxAttempts,    \* attempts of a job of the queue github-webhook-process
  MaxDeliveries,  \* bound: events GitHub sends
  MaxFaults       \* bound: failed attempts and crashes of the ingress

ASSUME WebhookAssumption ==
  /\ Raw \subseteq {"queued", "in_progress", "success", "failure", "cancelled", "timed_out", "neutral", "stale"}
  /\ RequiredApprovals \in Nat /\ MaxAttempts \in Nat \ {0}
  /\ MaxDeliveries \in Nat /\ MaxFaults \in Nat

VARIABLES
  hub,          \* the pull request as GitHub has it
  delivery,     \* the deliveries sent: the row, the request handling it, its job
  publication,  \* PublicationRun, PullRequestRecord, PublicationCheck, PublicationReview
  decisions,    \* the MergeReadinessDecision rows by evaluatedAt
  faults

vars == <<hub, delivery, publication, decisions, faults>>

CheckStatus == {"QUEUED", "RUNNING", "PASSED", "FAILED", "CANCELLED", "TIMED_OUT", "NEUTRAL", "STALE"}
ReviewState == {"APPROVED", "CHANGES_REQUESTED", "DISMISSED"}
NoCheck == "no check"
NoReview == "no review"
NotMerged == -1

(* normalizeGithubCheck on what a check run reports. *)
normalizeGithubCheck(raw) ==
  CASE raw = "queued" -> "QUEUED"
    [] raw = "success" -> "PASSED"
    [] raw = "failure" -> "FAILED"
    [] raw = "cancelled" -> "CANCELLED"
    [] raw = "timed_out" -> "TIMED_OUT"
    [] raw = "neutral" -> "NEUTRAL"
    [] raw = "stale" -> "STALE"
    [] OTHER -> "RUNNING"

(* What the ingress keeps of an event (extractIngressContext and the three   *)
(* mappings): whether it names an installation that is registered, and, of a *)
(* kind that is supported and has the fields it needs, what it says.         *)
Event == [kind : {"check", "review", "pull_request", "unsupported"},
          known : BOOLEAN, raw : Raw \cup {NoCheck}, id : Nat, state : ReviewState \cup {NoReview},
          head : Nat, moved : BOOLEAN, merged : BOOLEAN]

Base == [kind |-> "unsupported", known |-> TRUE, raw |-> NoCheck, id |-> 0, state |-> NoReview,
         head |-> 0, moved |-> FALSE, merged |-> FALSE]

mapPullRequestEvent(h) ==
  [Base EXCEPT !.kind = "pull_request", !.head = h.head, !.moved = h.moved, !.merged = h.merged]
mapReviewEvent(h, id, state) ==
  [Base EXCEPT !.kind = "review", !.id = id, !.state = state]
mapCheckEvent(h, raw) == [Base EXCEPT !.kind = "check", !.raw = raw, !.head = h.head]

isSupportedWebhookEvent(e) == e.kind # "unsupported"
-----------------------------------------------------------------------------
(* toMergeReadinessInput.  Of the checks of one name the query reads the row *)
(* updated last, so that status is all that is kept of them.                 *)
toMergeReadinessInput(pub) == [current |-> pub.current, check |-> pub.check, reviews |-> pub.reviews]

(* The reviews are read in the order in which they were submitted, which is  *)
(* the order of their numbers; those that never arrived are missing.         *)
Arrived(reviews) == {i \in DOMAIN reviews : reviews[i].state # NoReview}

(* Mutant of latestReviewStates: the first review of a person counts. *)
firstReviewStates(reviews) ==
  [u \in Reviewer |->
     LET mine == {i \in Arrived(reviews) : reviews[i].by = u} IN
     IF mine = {} THEN NoReview ELSE reviews[CHOOSE i \in mine : \A j \in mine : j >= i].state]

latestReviewStates(reviews) ==
  [u \in Reviewer |->
     LET mine == {i \in Arrived(reviews) : reviews[i].by = u} IN
     IF mine = {} THEN NoReview ELSE reviews[CHOOSE i \in mine : \A j \in mine : j <= i].state]

(* evaluateMergeReadiness with one required check; code owners, threads and  *)
(* security findings are never recorded.                                     *)
evaluateMergeReadiness(input) ==
  LET states == latestReviewStates(input.reviews) IN
  /\ input.current
  /\ input.check \in {"PASSED", "NEUTRAL"}
  /\ Cardinality({u \in Reviewer : states[u] = "APPROVED"}) >= RequiredApprovals
  /\ \A u \in Reviewer : states[u] # "CHANGES_REQUESTED"

latestMergeReadiness == IF decisions = <<>> THEN FALSE ELSE decisions[Len(decisions)].ready
-----------------------------------------------------------------------------
Init ==
  /\ hub = [head |-> 0, moved |-> FALSE, merged |-> FALSE, reviews |-> <<>>]
  /\ delivery = <<>>
  /\ publication = [status |-> "DRAFT_PR_CREATING", recorded |-> FALSE, head |-> 0, current |-> TRUE,
                    check |-> NoCheck, reviews |-> <<>>, observed |-> NotMerged]
  /\ decisions = <<>>
  /\ faults = 0

(* reserveWebhookDelivery.  An event is sent with every change of the pull  *)
(* request, of its checks and of its reviews, and with things the ingress   *)
(* does not know; from its reservation on, deliveries overtake each other.  *)
reserveWebhookDelivery(e) ==
  /\ Len(delivery) < MaxDeliveries
  /\ delivery' = Append(delivery, [event |-> e, status |-> "RECEIVED", ingress |-> "resolve",
                                   job |-> "none", attempts |-> 0])
  /\ UNCHANGED <<publication, decisions, faults>>

checkRuns(raw) == reserveWebhookDelivery(mapCheckEvent(hub, raw)) /\ UNCHANGED hub

submitReview(u, state) ==
  /\ state # "DISMISSED"
  /\ hub' = [hub EXCEPT !.reviews = Append(@, [by |-> u, state |-> state])]
  /\ reserveWebhookDelivery(mapReviewEvent(hub, Len(hub.reviews) + 1, state))

dismissReview(i) ==
  /\ hub.reviews[i].state # "DISMISSED"
  /\ hub' = [hub EXCEPT !.reviews[i].state = "DISMISSED"]
  /\ reserveWebhookDelivery(mapReviewEvent(hub, i, "DISMISSED"))

pullRequestChanges ==
  /\ ~hub.merged
  /\ \/ hub' = [hub EXCEPT !.head = @ + 1]
     \/ ~hub.moved /\ hub' = [hub EXCEPT !.moved = TRUE]
     \/ hub' = [hub EXCEPT !.merged = TRUE]
  /\ reserveWebhookDelivery(mapPullRequestEvent(hub'))

sendForeign(known) == reserveWebhookDelivery([Base EXCEPT !.known = known]) /\ UNCHANGED hub
-----------------------------------------------------------------------------
(* Of an event that was dealt with, only that it was a review is remembered. *)

Settle(d, status) ==
  delivery' = [delivery EXCEPT ![d] =
    [event |-> IF delivery[d].event.kind = "review" THEN [Base EXCEPT !.kind = "review"] ELSE Base,
     status |-> status, ingress |-> "none", job |-> "none", attempts |-> 0]]

(* resolveAndAssignTenant: no installation or one that is not registered is  *)
(* rejected, what is not supported or not understood is ignored, and the     *)
(* rest is queued.  Only this request touches the row between the three      *)
(* transactions, so they are one step, which a crash may prevent.            *)
resolveAndAssignTenant(e) == IF ~e.known THEN "REJECTED" ELSE IF isSupportedWebhookEvent(e) THEN "QUEUE" ELSE "IGNORED"

enqueueWebhookProcessMessage(d) == delivery' = [delivery EXCEPT ![d].job = "apply", ![d].ingress = "none"]

receive(d) ==
  /\ delivery[d].ingress = "resolve"
  /\ LET verdict == resolveAndAssignTenant(delivery[d].event) IN
     IF verdict = "QUEUE" THEN enqueueWebhookProcessMessage(d) ELSE Settle(d, verdict)
  /\ UNCHANGED <<hub, publication, decisions, faults>>
-----------------------------------------------------------------------------
(* The job of a delivery. *)

Job(d, step) == delivery[d].job = step
Go(d, step) == delivery' = [delivery EXCEPT ![d].job = step]

(* Mutant of FailAttempt: the queue's default of one attempt. *)
failOnlyAttempt(d) ==
  delivery' = [delivery EXCEPT ![d].attempts = @ + 1, ![d].job = "failed"]

(* An attempt that throws is repeated from the beginning. *)
FailAttempt(d) ==
  delivery' = [delivery EXCEPT ![d].attempts = @ + 1,
                               ![d].job = IF delivery[d].attempts + 1 < MaxAttempts THEN "apply" ELSE "failed"]

(* A check finds its publication by the commit it ran on, reviews and pull   *)
(* requests by the number of the pull request.                               *)
findPublicationIdByHeadSha(e) == publication.recorded /\ publication.head = e.head
findPublicationIdByPullRequestNumber == publication.recorded
resolvePublication(e) ==
  IF e.kind = "check" THEN findPublicationIdByHeadSha(e) ELSE findPublicationIdByPullRequestNumber

(* The row of a review is found by its number and updated in place. *)
upsertPublicationReview(pub, e) ==
  [pub EXCEPT !.reviews = [i \in 1 .. IF e.id > Len(@) THEN e.id ELSE Len(@) |->
     IF i = e.id THEN [by |-> hub.reviews[i].by, state |-> e.state]
     ELSE IF i <= Len(@) THEN @[i] ELSE [by |-> hub.reviews[i].by, state |-> NoReview]]]

upsertPublicationCheck(pub, e) == [pub EXCEPT !.check = normalizeGithubCheck(e.raw)]

(* applyPullRequestUpdate: the first merge observed is kept; a status from   *)
(* which MERGED cannot be reached stays as it is.                            *)
applyPullRequestUpdate(pub, e) ==
  [pub EXCEPT !.head = e.head, !.current = ~e.moved,
              !.observed = IF e.merged /\ @ = NotMerged THEN e.head ELSE @,
              !.status = IF e.merged /\ assertPublicationTransition(@, "MERGED") THEN "MERGED" ELSE @]

(* The first transaction of applyWebhookEvent. *)
applyWebhookEvent(d) ==
  /\ Job(d, "apply")
  /\ LET e == delivery[d].event
         new == CASE e.kind = "review" -> upsertPublicationReview(publication, e)
                  [] e.kind = "check" -> upsertPublicationCheck(publication, e)
                  [] OTHER -> applyPullRequestUpdate(publication, e)
     IN IF ~resolvePublication(e) THEN Go(d, "ignore") /\ UNCHANGED publication
        ELSE /\ publication' = new
             /\ Go(d, CASE e.kind # "pull_request" -> "evaluate"
                        [] new.status = "MERGED" /\ publication.status # "MERGED" -> "close"
                        [] OTHER -> "mark")
  /\ UNCHANGED <<hub, decisions, faults>>

(* Mutant of evaluateAndPersistMergeReadiness: only green decisions are kept. *)
evaluateAndPersistGreen(d) ==
  /\ Job(d, "evaluate")
  /\ LET input == toMergeReadinessInput(publication)
         row == [input |-> input, ready |-> evaluateMergeReadiness(input)]
     IN decisions' = IF ~row.ready \/ \E i \in DOMAIN decisions : decisions[i].input = input THEN decisions
                     ELSE Append(decisions, row)
  /\ Go(d, "mark")
  /\ UNCHANGED <<hub, publication, faults>>

(* evaluateAndPersistMergeReadiness: a decision with the same input is       *)
(* already there, with the time of its first evaluation, and stays.          *)
evaluateAndPersistMergeReadiness(d) ==
  /\ Job(d, "evaluate")
  /\ LET input == toMergeReadinessInput(publication)
         row == [input |-> input, ready |-> evaluateMergeReadiness(input)]
     IN decisions' = IF \E i \in DOMAIN decisions : decisions[i].input = input THEN decisions
                     ELSE Append(decisions, row)
  /\ Go(d, "mark")
  /\ UNCHANGED <<hub, publication, faults>>

(* applyPostMergeVerification: its first INSERT names ten parameters and     *)
(* passes nine, so the transaction always rolls back and the attempt fails.  *)
applyPostMergeVerification(d) ==
  /\ Job(d, "close")
  /\ FailAttempt(d)
  /\ UNCHANGED <<hub, publication, decisions, faults>>

markWebhookDeliveryStatus(d) ==
  /\ \/ Job(d, "mark") /\ Settle(d, "PROCESSED")
     \/ Job(d, "ignore") /\ Settle(d, "IGNORED")
  /\ UNCHANGED <<hub, publication, decisions, faults>>
-----------------------------------------------------------------------------
(* The publication worker records the pull request, which exists already. *)
recordPullRequest ==
  /\ ~publication.recorded
  /\ publication' = [publication EXCEPT !.recorded = TRUE, !.status = "CI_MONITORING"]
  /\ UNCHANGED <<hub, delivery, decisions, faults>>

(* No code moves a publication on from CI_MONITORING; somebody has to do it  *)
(* in the database for the rest of the lifecycle to be reached.              *)
operatorAwaitsReview ==
  /\ publication.status = "CI_MONITORING"
  /\ publication' = [publication EXCEPT !.status = "AWAITING_REVIEW"]
  /\ UNCHANGED <<hub, delivery, decisions, faults>>

(* Mutant of markReady: a missing decision does not stop it. *)
markReadyUnlessRed ==
  /\ publication.status = "AWAITING_REVIEW"
  /\ decisions = <<>> \/ latestMergeReadiness
  /\ publication' = [publication EXCEPT !.status = "READY_FOR_HUMAN_MERGE"]
  /\ UNCHANGED <<hub, delivery, decisions, faults>>

markReady ==
  /\ publication.status = "AWAITING_REVIEW"
  /\ latestMergeReadiness
  /\ publication' = [publication EXCEPT !.status = "READY_FOR_HUMAN_MERGE"]
  /\ UNCHANGED <<hub, delivery, decisions, faults>>

(* An attempt fails at one of its transactions; the ingress dies after the   *)
(* reservation, and nothing takes the delivery up again.                     *)
AttemptFails(d) ==
  /\ delivery[d].job \in {"apply", "evaluate", "mark", "ignore"}
  /\ faults < MaxFaults
  /\ faults' = faults + 1
  /\ FailAttempt(d)
  /\ UNCHANGED <<hub, publication, decisions>>

IngressCrashes(d) ==
  /\ delivery[d].ingress = "resolve"
  /\ faults < MaxFaults
  /\ faults' = faults + 1
  /\ delivery' = [delivery EXCEPT ![d].ingress = "lost"]
  /\ UNCHANGED <<hub, publication, decisions>>

Process(d) ==
  applyWebhookEvent(d) \/ evaluateAndPersistMergeReadiness(d) \/ applyPostMergeVerification(d)
  \/ markWebhookDeliveryStatus(d)

Next ==
  \/ \E raw \in Raw : checkRuns(raw)
  \/ \E u \in Reviewer, state \in ReviewState : submitReview(u, state)
  \/ \E i \in DOMAIN hub.reviews : dismissReview(i)
  \/ pullRequestChanges \/ \E known \in BOOLEAN : sendForeign(known)
  \/ \E d \in DOMAIN delivery : receive(d) \/ Process(d) \/ AttemptFails(d) \/ IngressCrashes(d)
  \/ recordPullRequest \/ operatorAwaitsReview \/ markReady

Spec == Init /\ [][Next]_vars

(* A request and a job that were started go on; nothing is assumed of GitHub, *)
(* of people or of faults.                                                   *)
Fairness ==
  \A d \in 1 .. MaxDeliveries :
    /\ WF_vars(d \in DOMAIN delivery /\ receive(d))
    /\ WF_vars(d \in DOMAIN delivery /\ Process(d))

FairSpec == Spec /\ Fairness
-----------------------------------------------------------------------------
Review == [by : Reviewer, state : ReviewState \cup {NoReview}]
Input == [current : BOOLEAN, check : CheckStatus \cup {NoCheck}, reviews : Seq(Review)]

(* The types of the rows. *)
TypeOK ==
  /\ hub \in [head : Nat, moved : BOOLEAN, merged : BOOLEAN, reviews : Seq(Review)]
  /\ delivery \in Seq([event : Event, status : {"RECEIVED", "PROCESSED", "IGNORED", "REJECTED"},
                       ingress : {"none", "resolve", "lost"},
                       job : {"none", "apply", "evaluate", "close", "mark", "ignore", "failed"},
                       attempts : 0 .. MaxAttempts])
  /\ publication \in [status : Status, recorded : BOOLEAN, head : Nat, current : BOOLEAN,
                      check : CheckStatus \cup {NoCheck}, reviews : Seq(Review), observed : Nat \cup {NotMerged}]
  /\ decisions \in Seq([input : Input, ready : BOOLEAN])
  /\ faults \in 0 .. MaxFaults

Settled == \A d \in DOMAIN delivery : delivery[d].status # "RECEIVED" \/ delivery[d].ingress = "lost"

(* Once the jobs have ended, the reviews that are stored have been evaluated, *)
(* whatever the order in which jobs wrote and evaluated and whichever of      *)
(* their attempts failed: no change went unnoticed.  The same goes for the    *)
(* check, unless an attempt failed (its repetition may no longer find the     *)
(* publication, when the head has moved meanwhile).                           *)
ChangesAreEvaluated ==
  Settled /\ (publication.check # NoCheck \/ publication.reviews # <<>>) /\ (faults > 0 => publication.reviews # <<>>) =>
    \E i \in DOMAIN decisions :
      /\ decisions[i].input.reviews = publication.reviews
      /\ faults > 0 \/ decisions[i].input.check = publication.check

(* Reviews may arrive in any order: once every review event was processed,    *)
(* what counts for a person who had no review dismissed is the review they    *)
(* submitted last.                                                            *)
ReviewsConverge ==
  (\A d \in DOMAIN delivery : delivery[d].event.kind = "review" => delivery[d].status = "PROCESSED") =>
    \A u \in Reviewer :
      LET mine == {i \in DOMAIN hub.reviews : hub.reviews[i].by = u} IN
      (mine # {} /\ \A i \in mine : hub.reviews[i].state # "DISMISSED") =>
        \E i \in mine :
          /\ \A j \in mine : j <= i
          /\ latestReviewStates(publication.reviews)[u] = hub.reviews[i].state

(* A publication is handed to a human for merging, and counts as merged, only *)
(* when some evaluation of it was green.                                      *)
ReadyWasGreen ==
  publication.status \in {"READY_FOR_HUMAN_MERGE", "MERGED"} => \E i \in DOMAIN decisions : decisions[i].ready

(* The conjunction the run checks: the types, and that nobody is asked to     *)
(* merge what was never green.                                                *)
ClosureInv == TypeOK /\ ReadyWasGreen

(* Every delivery is settled in the end: only a crash of the ingress, or as   *)
(* many failures as a job has attempts, leaves one RECEIVED for good.         *)
DeliveriesSettle ==
  <>[](\A d \in DOMAIN delivery : \/ delivery[d].status # "RECEIVED" \/ delivery[d].ingress = "lost"
                                   \/ delivery[d].attempts = MaxAttempts)

(* Once the jobs have ended, the decision markReady reads is the one about    *)
(* what is stored.                                                            *)
LatestDecisionIsCurrent ==
  Settled /\ decisions # <<>> =>
    latestMergeReadiness = evaluateMergeReadiness([toMergeReadinessInput(publication)
                                                     EXCEPT !.current = decisions[Len(decisions)].input.current])
=============================================================================
