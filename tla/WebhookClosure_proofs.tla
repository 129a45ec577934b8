------------------------ MODULE WebhookClosure_proofs ------------------------
(***************************************************************************)
(* The webhook deliveries of a publication, for any number of deliveries,  *)
(* reviewers, attempts and faults: what is handed to a human was green,    *)
(* no stored change goes unevaluated, and reviews that arrive in any order *)
(* converge.                                                               *)
(***************************************************************************)
EXTENDS WebhookClosure, SequenceTheorems, TLAPS

Delivery == [event : Event, status : {"RECEIVED", "PROCESSED", "IGNORED", "REJECTED"},
             ingress : {"none", "resolve", "lost"},
             job : {"none", "apply", "evaluate", "close", "mark", "ignore", "failed"},
             attempts : 0 .. MaxAttempts]
Publication == [status : Status, recorded : BOOLEAN, head : Nat, current : BOOLEAN,
                check : CheckStatus \cup {NoCheck}, reviews : Seq(Review), observed : Nat \cup {NotMerged}]
PullRequest == [head : Nat, moved : BOOLEAN, merged : BOOLEAN, reviews : Seq(Review)]
Decision == [input : Input, ready : BOOLEAN]

\* The review i is stored as GitHub has it.
Stored(i, theirs, ours) == i \in DOMAIN ours /\ ours[i].state = theirs[i].state

\* GitHub's reviews, of which each person who has any has a last one.
Submitted(theirs) ==
  /\ \A i \in DOMAIN theirs : theirs[i].state # NoReview
  /\ \A u \in Reviewer : LET mine == {i \in DOMAIN theirs : theirs[i].by = u} IN
       mine # {} => \E i \in mine : \A j \in mine : j <= i

\* The stored reviews have the numbers and the authors GitHub gave them.
Numbered(theirs, ours) == \A i \in DOMAIN ours : i \in DOMAIN theirs /\ ours[i].by = theirs[i].by

\* A delivery that is being handled.
Handled(row) ==
  /\ row \in Delivery
  /\ row.job # "failed" => row.attempts < MaxAttempts
  /\ row.status # "RECEIVED" => row.ingress = "none" /\ row.job = "none"
  /\ row.ingress # "none" => row.job = "none"

\* A delivery of a review carries the state the review has, until it is dismissed,
\* and has stored it once it has been applied.
Carries(row, theirs, ours) ==
  row.event.kind = "review" /\ row.status = "RECEIVED" =>
    /\ row.event.id \in DOMAIN theirs
    /\ theirs[row.event.id].state # "DISMISSED" =>
         /\ row.event.state = theirs[row.event.id].state
         /\ row.job \in {"evaluate", "mark"} => Stored(row.event.id, theirs, ours)

Awaited(i, rows) ==
  \E d \in DOMAIN rows : rows[d].event.kind = "review" /\ rows[d].status = "RECEIVED" /\ rows[d].event.id = i
Dropped(rows) == \E d \in DOMAIN rows : rows[d].event.kind = "review" /\ rows[d].status \in {"IGNORED", "REJECTED"}

\* A review that was not dismissed is stored, or on its way, or a review was dropped.
Converging(theirs, ours, rows) ==
  \A i \in DOMAIN theirs :
    theirs[i].state # "DISMISSED" => Stored(i, theirs, ours) \/ Awaited(i, rows) \/ Dropped(rows)

\* A delivery whose job has yet to evaluate.
Waiting(row, kinds, steps) ==
  row.event.kind \in kinds /\ row.status = "RECEIVED" /\ row.ingress = "none" /\ row.job \in steps
Waits(rows, kinds, steps) == \E d \in DOMAIN rows : Waiting(rows[d], kinds, steps)
Kinds == {"check", "review", "pull_request", "unsupported"}
Pending == {"apply", "evaluate", "failed"}

\* The decisions about what is stored.
OfReviews(pub, log) == \E i \in DOMAIN log : log[i].input.reviews = pub.reviews
OfBoth(pub, log) == \E i \in DOMAIN log : log[i].input.reviews = pub.reviews /\ log[i].input.check = pub.check

\* What is stored has been evaluated or some job will do so; after a failed attempt
\* this is known of the reviews alone.
Watched(pub, rows, log, n) ==
  /\ pub.reviews # <<>> => OfReviews(pub, log) \/ Waits(rows, {"review"}, Pending)
  /\ n = 0 /\ (pub.check # NoCheck \/ pub.reviews # <<>>) => OfBoth(pub, log) \/ Waits(rows, Kinds, {"evaluate"})

Green(pub, log) == pub.status \in {"READY_FOR_HUMAN_MERGE", "MERGED"} => \E i \in DOMAIN log : log[i].ready

\* The inductive invariant.
IInv ==
  /\ hub \in PullRequest /\ publication \in Publication /\ faults \in 0 .. MaxFaults
  /\ delivery \in Seq(Delivery) /\ decisions \in Seq(Decision)
  /\ Submitted(hub.reviews) /\ Numbered(hub.reviews, publication.reviews)
  /\ publication.reviews # <<>> => publication.recorded
  /\ \A d \in DOMAIN delivery : Handled(delivery[d])
  /\ \A d \in DOMAIN delivery : Carries(delivery[d], hub.reviews, publication.reviews)
  /\ Converging(hub.reviews, publication.reviews, delivery)
  /\ Watched(publication, delivery, decisions, faults)
  /\ Green(publication, decisions)


-----------------------------------------------------------------------------
(* Rows and logs.                                                          *)

LEMMA OneRow ==
  ASSUME NEW rows \in Seq(Delivery), NEW d \in DOMAIN rows, NEW row \in Delivery, NEW new,
         new = [rows EXCEPT ![d] = row]
  PROVE  /\ new \in Seq(Delivery) /\ DOMAIN new = DOMAIN rows /\ new[d] = row
         /\ \A c \in DOMAIN rows : c # d => new[c] = rows[c]
OBVIOUS

LEMMA AnotherRow ==
  ASSUME NEW rows \in Seq(Delivery), NEW row \in Delivery, NEW new, new = Append(rows, row)
  PROVE  /\ new \in Seq(Delivery) /\ \A c \in DOMAIN rows : c \in DOMAIN new /\ new[c] = rows[c]
         /\ \E d \in DOMAIN new : new[d] = row /\ \A c \in DOMAIN new : c # d => c \in DOMAIN rows
<1>. DEFINE m == Len(rows)
<1>1. m \in Nat /\ DOMAIN rows = 1 .. m /\ DOMAIN new = 1 .. m + 1 /\ new \in Seq(Delivery)  OBVIOUS
<1>2. new[m + 1] = row /\ \A c \in 1 .. m : new[c] = rows[c]  OBVIOUS
<1>. HIDE DEF m
<1>3. m + 1 \in 1 .. m + 1 /\ (\A c \in 1 .. m : c \in 1 .. m + 1) /\ \A c \in 1 .. m + 1 : c # m + 1 => c \in 1 .. m
  BY <1>1
<1>. QED  BY <1>1, <1>2, <1>3

LEMMA WaitsKept ==
  ASSUME NEW rows \in Seq(Delivery), NEW d \in DOMAIN rows, NEW row \in Delivery, NEW new,
         new = [rows EXCEPT ![d] = row], NEW kinds, NEW steps, Waits(rows, kinds, steps),
         Waiting(rows[d], kinds, steps) => Waiting(row, kinds, steps)
  PROVE  Waits(new, kinds, steps)
<1>1. PICK c \in DOMAIN rows : Waiting(rows[c], kinds, steps)  BY DEF Waits
<1>2. c \in DOMAIN new /\ (c # d => new[c] = rows[c]) /\ new[d] = row  BY OneRow
<1>. QED  BY <1>1, <1>2 DEF Waits

LEMMA WaitsNow ==
  ASSUME NEW rows \in Seq(Delivery), NEW d \in DOMAIN rows, NEW row \in Delivery, NEW new,
         new = [rows EXCEPT ![d] = row], NEW kinds, NEW steps, Waiting(row, kinds, steps)
  PROVE  Waits(new, kinds, steps)
<1>1. d \in DOMAIN new /\ new[d] = row  BY OneRow
<1>. QED  BY <1>1 DEF Waits

\* The decisions only grow.
Grows(old, new) == \A i \in DOMAIN old : i \in DOMAIN new /\ new[i] = old[i]

LEMMA DecisionsKept ==
  ASSUME NEW pub, NEW old, NEW new, Grows(old, new)
  PROVE  /\ OfReviews(pub, old) => OfReviews(pub, new)
         /\ OfBoth(pub, old) => OfBoth(pub, new)
         /\ Green(pub, old) => Green(pub, new)
BY DEF Grows, OfReviews, OfBoth, Green

-----------------------------------------------------------------------------
(* Steps of a delivery that store nothing.                                 *)

\* A delivery whose review was not stored stays on its way, or is dropped.
Keeps(old, row, theirs, ours) ==
  old.event.kind = "review" /\ theirs[old.event.id].state # "DISMISSED" =>
    \/ row.event.kind = "review" /\ row.status = "RECEIVED" /\ row.event.id = old.event.id
    \/ Stored(old.event.id, theirs, ours)
    \/ row.event.kind = "review" /\ row.status \in {"IGNORED", "REJECTED"}

LEMMA ConvergingKept ==
  ASSUME NEW rows \in Seq(Delivery), NEW d \in DOMAIN rows, NEW row \in Delivery, NEW new,
         new = [rows EXCEPT ![d] = row], NEW theirs, NEW ours, NEW stored,
         Converging(theirs, ours, rows), rows[d].status = "RECEIVED", Keeps(rows[d], row, theirs, stored),
         \A i \in DOMAIN theirs : theirs[i].state # "DISMISSED" /\ Stored(i, theirs, ours) => Stored(i, theirs, stored)
  PROVE  Converging(theirs, stored, new)
<1>1. DOMAIN new = DOMAIN rows /\ new[d] = row /\ \A c \in DOMAIN rows : c # d => new[c] = rows[c]  BY OneRow
<1>2. SUFFICES ASSUME NEW i \in DOMAIN theirs, theirs[i].state # "DISMISSED"
               PROVE  Stored(i, theirs, stored) \/ Awaited(i, new) \/ Dropped(new)
  BY DEF Converging
<1>3. CASE Stored(i, theirs, ours)  BY <1>2, <1>3
<1>4. CASE Awaited(i, rows)
  <2>1. PICK c \in DOMAIN rows : rows[c].event.kind = "review" /\ rows[c].status = "RECEIVED" /\ rows[c].event.id = i
    BY <1>4 DEF Awaited
  <2>2. CASE c # d  BY <1>1, <2>1, <2>2 DEF Awaited
  <2>3. CASE c = d
    <3>1. \/ row.event.kind = "review" /\ row.status = "RECEIVED" /\ row.event.id = i
          \/ Stored(i, theirs, stored)
          \/ row.event.kind = "review" /\ row.status \in {"IGNORED", "REJECTED"}
      BY <1>2, <2>1, <2>3 DEF Keeps
    <3>. QED  BY <1>1, <3>1 DEF Awaited, Dropped
  <2>. QED  BY <2>2, <2>3
<1>5. CASE Dropped(rows)
  <2>1. PICK c \in DOMAIN rows : rows[c].event.kind = "review" /\ rows[c].status \in {"IGNORED", "REJECTED"}
    BY <1>5 DEF Dropped
  <2>2. c # d  BY <2>1
  <2>. QED  BY <1>1, <2>1, <2>2 DEF Dropped
<1>. QED  BY <1>2, <1>3, <1>4, <1>5 DEF Converging

\* One delivery moves on, and the decisions may grow.
LEMMA MovesOn ==
  ASSUME IInv, NEW d \in DOMAIN delivery, NEW row, delivery' = [delivery EXCEPT ![d] = row],
         UNCHANGED <<hub, publication>>, decisions' \in Seq(Decision), Grows(decisions, decisions'),
         faults' \in 0 .. MaxFaults, faults' = 0 => faults = 0,
         Handled(row), Carries(row, hub.reviews, publication.reviews), delivery[d].status = "RECEIVED",
         Keeps(delivery[d], row, hub.reviews, publication.reviews),
         Waiting(delivery[d], {"review"}, Pending) =>
           Waiting(row, {"review"}, Pending) \/ publication.reviews = <<>> \/ OfReviews(publication, decisions'),
         Waiting(delivery[d], Kinds, {"evaluate"}) => faults' # 0 \/ OfBoth(publication, decisions')
  PROVE  IInv'
<1>1. row \in Delivery /\ delivery \in Seq(Delivery)  BY DEF Handled, IInv
<1>2. /\ delivery' \in Seq(Delivery) /\ DOMAIN delivery' = DOMAIN delivery /\ delivery'[d] = row
      /\ \A c \in DOMAIN delivery : c # d => delivery'[c] = delivery[c]
  BY <1>1, OneRow
<1>3. hub' = hub /\ publication' = publication  OBVIOUS
<1>4. \A c \in DOMAIN delivery' : Handled(delivery'[c])  BY <1>2 DEF IInv
<1>5. \A c \in DOMAIN delivery' : Carries(delivery'[c], hub.reviews, publication.reviews)  BY <1>2 DEF IInv
<1>6. Converging(hub.reviews, publication.reviews, delivery')
  <2>1. Converging(hub.reviews, publication.reviews, delivery)  BY DEF IInv
  <2>2. \A i \in DOMAIN hub.reviews : hub.reviews[i].state # "DISMISSED" /\ Stored(i, hub.reviews, publication.reviews) =>
          Stored(i, hub.reviews, publication.reviews)
    OBVIOUS
  <2>. QED  BY <1>1, <2>1, <2>2, ConvergingKept
<1>7. /\ publication.reviews # <<>> => OfReviews(publication, decisions) \/ Waits(delivery, {"review"}, Pending)
      /\ faults = 0 /\ (publication.check # NoCheck \/ publication.reviews # <<>>) =>
           OfBoth(publication, decisions) \/ Waits(delivery, Kinds, {"evaluate"})
  BY DEF IInv, Watched
<1>8. publication.reviews # <<>> => OfReviews(publication, decisions') \/ Waits(delivery', {"review"}, Pending)
  <2>1. SUFFICES ASSUME publication.reviews # <<>>, ~OfReviews(publication, decisions')
                 PROVE  Waits(delivery', {"review"}, Pending)
    OBVIOUS
  <2>2. Waits(delivery, {"review"}, Pending)  BY <1>7, <2>1, DecisionsKept
  <2>3. Waiting(delivery[d], {"review"}, Pending) => Waiting(row, {"review"}, Pending)  BY <2>1
  <2>. QED  BY <1>1, <2>2, <2>3, WaitsKept
<1>9. faults' = 0 /\ (publication.check # NoCheck \/ publication.reviews # <<>>) =>
        OfBoth(publication, decisions') \/ Waits(delivery', Kinds, {"evaluate"})
  <2>1. SUFFICES ASSUME faults' = 0, publication.check # NoCheck \/ publication.reviews # <<>>,
                        ~OfBoth(publication, decisions')
                 PROVE  Waits(delivery', Kinds, {"evaluate"})
    OBVIOUS
  <2>2. Waits(delivery, Kinds, {"evaluate"})  BY <1>7, <2>1, DecisionsKept
  <2>3. Waiting(delivery[d], Kinds, {"evaluate"}) => Waiting(row, Kinds, {"evaluate"})  BY <2>1
  <2>. QED  BY <1>1, <2>2, <2>3, WaitsKept
<1>10. Watched(publication, delivery', decisions', faults')  BY <1>8, <1>9 DEF Watched
<1>11. Green(publication, decisions')  BY DecisionsKept DEF IInv
<1>. QED  BY <1>2, <1>3, <1>4, <1>5, <1>6, <1>10, <1>11 DEF IInv


\* A delivery that has a job or is in the ingress was received and not settled.
LEMMA UnderWay ==
  ASSUME IInv, NEW d \in DOMAIN delivery
  PROVE  /\ delivery[d] \in Delivery /\ Handled(delivery[d]) /\ Carries(delivery[d], hub.reviews, publication.reviews)
         /\ delivery[d].job # "none" => delivery[d].status = "RECEIVED" /\ delivery[d].ingress = "none"
         /\ delivery[d].ingress # "none" => delivery[d].status = "RECEIVED" /\ delivery[d].job = "none"
BY DEF IInv, Handled

LEMMA BaseFields ==
  /\ Base \in Event /\ Base.kind = "unsupported" /\ Base.id = 0
  /\ \A kind \in Kinds : [Base EXCEPT !.kind = kind] \in Event /\ [Base EXCEPT !.kind = kind].kind = kind
BY DEF Base, Event, Kinds

\* The row of a delivery that was dealt with.
SettledRow(e, status) ==
  [event |-> IF e.kind = "review" THEN [Base EXCEPT !.kind = "review"] ELSE Base,
   status |-> status, ingress |-> "none", job |-> "none", attempts |-> 0]

LEMMA SettledFields ==
  ASSUME NEW e, NEW status \in {"PROCESSED", "IGNORED", "REJECTED"}
  PROVE  /\ Handled(SettledRow(e, status)) /\ SettledRow(e, status).status = status
         /\ e.kind = "review" => SettledRow(e, status).event.kind = "review"
<1>. DEFINE event == IF e.kind = "review" THEN [Base EXCEPT !.kind = "review"] ELSE Base
<1>1. "review" \in Kinds  BY DEF Kinds
<1>2. event \in Event /\ (e.kind = "review" => event.kind = "review")  BY <1>1, BaseFields
<1>3. 0 \in 0 .. MaxAttempts /\ 0 < MaxAttempts  BY WebhookAssumption
<1>4. SettledRow(e, status) = [event |-> event, status |-> status, ingress |-> "none", job |-> "none", attempts |-> 0]
  BY DEF SettledRow
<1>. HIDE DEF event
<1>. QED  BY <1>2, <1>3, <1>4 DEF Handled, Delivery

LEMMA SettleStep ==
  ASSUME IInv, NEW d \in DOMAIN delivery, NEW status \in {"PROCESSED", "IGNORED", "REJECTED"}, Settle(d, status),
         UNCHANGED <<hub, publication, decisions, faults>>, delivery[d].status = "RECEIVED",
         delivery[d].job \notin Pending, status = "PROCESSED" => delivery[d].job = "mark"
  PROVE  IInv'
<1>. DEFINE row == SettledRow(delivery[d].event, status)
<1>1. delivery' = [delivery EXCEPT ![d] = row]  BY DEF Settle, SettledRow
<1>2. Handled(row) /\ row.status = status /\ (delivery[d].event.kind = "review" => row.event.kind = "review")
  BY SettledFields
<1>. HIDE DEF row
<1>3. Carries(row, hub.reviews, publication.reviews)  BY <1>2 DEF Carries
<1>4. Keeps(delivery[d], row, hub.reviews, publication.reviews)
  BY <1>2, UnderWay DEF Keeps, Carries
<1>5. ~Waiting(delivery[d], {"review"}, Pending)  BY DEF Waiting
<1>6. ~Waiting(delivery[d], Kinds, {"evaluate"})  BY DEF Waiting, Pending
<1>7. decisions' \in Seq(Decision) /\ Grows(decisions, decisions') /\ faults' = faults /\ faults \in 0 .. MaxFaults
  BY DEF IInv, Grows
<1>8. UNCHANGED <<hub, publication>>  OBVIOUS
<1>. QED  BY <1>1, <1>2, <1>3, <1>4, <1>5, <1>6, <1>7, <1>8, MovesOn

\* One step of the queue or of the ingress.
Placed(row, job, ingress) == [row EXCEPT !.job = job, !.ingress = ingress]

LEMMA PlacedFields ==
  ASSUME NEW row, Handled(row), row.status = "RECEIVED", row.job # "failed",
         NEW job \in {"none", "apply", "evaluate", "close", "mark", "ignore"}, NEW ingress \in {"none", "lost"},
         ingress # "none" => job = "none"
  PROVE  /\ Handled(Placed(row, job, ingress)) /\ Placed(row, job, ingress).event = row.event
         /\ Placed(row, job, ingress).status = "RECEIVED" /\ Placed(row, job, ingress).job = job
         /\ Placed(row, job, ingress).ingress = ingress
<1>. DEFINE new == Placed(row, job, ingress)
<1>1. row \in Delivery /\ row.attempts < MaxAttempts  BY DEF Handled
<1>2. new \in Delivery /\ new.event = row.event /\ new.status = row.status /\ new.job = job /\ new.ingress = ingress
      /\ new.attempts = row.attempts
  BY <1>1 DEF Delivery, Placed
<1>. HIDE DEF new
<1>3. Handled(new)  BY <1>1, <1>2 DEF Handled
<1>. QED  BY <1>2, <1>3 DEF new

LEMMA Receive ==
  ASSUME IInv, NEW d \in DOMAIN delivery, receive(d)
  PROVE  IInv'
<1>1. delivery[d].ingress = "resolve" /\ UNCHANGED <<hub, publication, decisions, faults>>  BY DEF receive
<1>2. Handled(delivery[d]) /\ delivery[d].status = "RECEIVED" /\ delivery[d].job = "none" /\ delivery[d] \in Delivery
  BY <1>1, UnderWay
<1>3. CASE resolveAndAssignTenant(delivery[d].event) = "QUEUE"
  <2>. DEFINE row == Placed(delivery[d], "apply", "none")
  <2>1. delivery' = [delivery EXCEPT ![d] = row]
    <3>1. delivery' = [delivery EXCEPT ![d].job = "apply", ![d].ingress = "none"]
      BY <1>3 DEF receive, enqueueWebhookProcessMessage
    <3>2. delivery \in Seq(Delivery)  BY DEF IInv
    <3>. QED  BY <3>1, <3>2 DEF Placed
  <2>2. Handled(row) /\ row.event = delivery[d].event /\ row.status = "RECEIVED" /\ row.job = "apply"
    BY <1>2, PlacedFields
  <2>. HIDE DEF row
  <2>3. Carries(row, hub.reviews, publication.reviews)  BY <1>2, <2>2, UnderWay DEF Carries
  <2>4. Keeps(delivery[d], row, hub.reviews, publication.reviews)  BY <2>2 DEF Keeps
  <2>5. ~Waiting(delivery[d], {"review"}, Pending) /\ ~Waiting(delivery[d], Kinds, {"evaluate"})  BY <1>1 DEF Waiting
  <2>6. decisions' \in Seq(Decision) /\ Grows(decisions, decisions') /\ faults' = faults /\ faults \in 0 .. MaxFaults
    BY <1>1 DEF IInv, Grows
  <2>7. UNCHANGED <<hub, publication>>  BY <1>1
  <2>. QED  BY <1>2, <2>1, <2>2, <2>3, <2>4, <2>5, <2>6, <2>7, MovesOn
<1>4. CASE resolveAndAssignTenant(delivery[d].event) # "QUEUE"
  <2>. DEFINE status == resolveAndAssignTenant(delivery[d].event)
  <2>1. status \in {"REJECTED", "IGNORED"}  BY <1>4 DEF resolveAndAssignTenant
  <2>2. Settle(d, status)  BY <1>4 DEF receive
  <2>3. delivery[d].job \notin Pending  BY <1>2 DEF Pending
  <2>. HIDE DEF status
  <2>. QED  BY <1>1, <1>2, <2>1, <2>2, <2>3, SettleStep
<1>. QED  BY <1>3, <1>4

LEMMA Mark ==
  ASSUME IInv, NEW d \in DOMAIN delivery, markWebhookDeliveryStatus(d)
  PROVE  IInv'
<1>1. UNCHANGED <<hub, publication, decisions, faults>>  BY DEF markWebhookDeliveryStatus
<1>2. delivery[d].job \in {"mark", "ignore"}  BY DEF markWebhookDeliveryStatus, Job
<1>3. delivery[d].status = "RECEIVED" /\ delivery[d].job \notin Pending  BY <1>2, UnderWay DEF Pending
<1>4. CASE Job(d, "mark") /\ Settle(d, "PROCESSED")
  <2>1. delivery[d].job = "mark"  BY <1>4 DEF Job
  <2>. QED  BY <1>1, <1>3, <1>4, <2>1, SettleStep
<1>5. CASE Settle(d, "IGNORED")  BY <1>1, <1>3, <1>5, SettleStep
<1>. QED  BY <1>4, <1>5 DEF markWebhookDeliveryStatus

\* An attempt that fails.
FailedRow(row) ==
  [row EXCEPT !.attempts = row.attempts + 1, !.job = IF row.attempts + 1 < MaxAttempts THEN "apply" ELSE "failed"]

LEMMA FailedFields ==
  ASSUME NEW row, Handled(row), row.status = "RECEIVED", row.ingress = "none", row.job # "failed"
  PROVE  /\ Handled(FailedRow(row)) /\ FailedRow(row).event = row.event /\ FailedRow(row).status = "RECEIVED"
         /\ FailedRow(row).ingress = "none" /\ FailedRow(row).job \in {"apply", "failed"}
<1>. DEFINE attempts == row.attempts + 1
            job == IF attempts < MaxAttempts THEN "apply" ELSE "failed"
            new == [row EXCEPT !.attempts = attempts, !.job = job]
<1>1. row \in Delivery /\ row.attempts < MaxAttempts /\ row.attempts \in 0 .. MaxAttempts  BY DEF Handled, Delivery
<1>2. attempts \in 0 .. MaxAttempts  BY <1>1, WebhookAssumption
<1>3. job # "failed" => attempts < MaxAttempts  OBVIOUS
<1>4. job \in {"apply", "failed"}  OBVIOUS
<1>. HIDE DEF attempts, job
<1>5. new \in Delivery /\ new.event = row.event /\ new.status = row.status /\ new.ingress = row.ingress /\ new.job = job
      /\ new.attempts = attempts
  BY <1>1, <1>2, <1>4 DEF Delivery
<1>. HIDE DEF new
<1>6. Handled(new)  BY <1>3, <1>5 DEF Handled
<1>7. FailedRow(row) = new  BY DEF FailedRow, new, job, attempts
<1>. QED  BY <1>4, <1>5, <1>6, <1>7

LEMMA FailStep ==
  ASSUME IInv, NEW d \in DOMAIN delivery, FailAttempt(d), UNCHANGED <<hub, publication, decisions>>,
         delivery[d].job \in {"apply", "evaluate", "mark", "ignore", "close"},
         faults' \in 0 .. MaxFaults, faults' = 0 => faults = 0, faults' # 0 \/ delivery[d].job # "evaluate"
  PROVE  IInv'
<1>. DEFINE row == FailedRow(delivery[d])
<1>1. Handled(delivery[d]) /\ delivery[d].status = "RECEIVED" /\ delivery[d].ingress = "none" /\ delivery[d].job # "failed"
  BY UnderWay
<1>2. delivery' = [delivery EXCEPT ![d] = row]
  <2>1. delivery \in Seq(Delivery) /\ delivery[d] \in Delivery  BY UnderWay DEF IInv
  <2>. QED  BY <2>1 DEF FailAttempt, FailedRow
<1>3. Handled(row) /\ row.event = delivery[d].event /\ row.status = "RECEIVED" /\ row.ingress = "none"
      /\ row.job \in {"apply", "failed"}
  BY <1>1, FailedFields
<1>. HIDE DEF row
<1>4. Carries(row, hub.reviews, publication.reviews)  BY <1>1, <1>3, UnderWay DEF Carries
<1>5. Keeps(delivery[d], row, hub.reviews, publication.reviews)  BY <1>3 DEF Keeps
<1>6. Waiting(delivery[d], {"review"}, Pending) => Waiting(row, {"review"}, Pending)  BY <1>3 DEF Waiting, Pending
<1>7. Waiting(delivery[d], Kinds, {"evaluate"}) => faults' # 0  BY DEF Waiting
<1>8. decisions' \in Seq(Decision) /\ Grows(decisions, decisions')  BY DEF IInv, Grows
<1>9. UNCHANGED <<hub, publication>>  OBVIOUS
<1>. QED  BY <1>1, <1>2, <1>3, <1>4, <1>5, <1>6, <1>7, <1>8, <1>9, MovesOn

LEMMA Fails ==
  ASSUME IInv, NEW d \in DOMAIN delivery, AttemptFails(d) \/ applyPostMergeVerification(d)
  PROVE  IInv'
<1>1. faults \in 0 .. MaxFaults /\ MaxFaults \in Nat  BY WebhookAssumption DEF IInv
<1>2. CASE AttemptFails(d)
  <2>1. faults' \in 0 .. MaxFaults /\ faults' # 0  BY <1>1, <1>2 DEF AttemptFails
  <2>2. delivery[d].job \in {"apply", "evaluate", "mark", "ignore", "close"} /\ FailAttempt(d)
        /\ UNCHANGED <<hub, publication, decisions>>
    BY <1>2 DEF AttemptFails
  <2>. QED  BY <2>1, <2>2, FailStep
<1>3. CASE applyPostMergeVerification(d)
  <2>1. delivery[d].job = "close" /\ FailAttempt(d) /\ UNCHANGED <<hub, publication, decisions>> /\ faults' = faults
    BY <1>3 DEF applyPostMergeVerification, Job
  <2>. QED  BY <1>1, <2>1, FailStep
<1>. QED  BY <1>2, <1>3

LEMMA Crashes ==
  ASSUME IInv, NEW d \in DOMAIN delivery, IngressCrashes(d)
  PROVE  IInv'
<1>. DEFINE row == Placed(delivery[d], "none", "lost")
<1>1. delivery[d].ingress = "resolve" /\ UNCHANGED <<hub, publication, decisions>>  BY DEF IngressCrashes
<1>2. Handled(delivery[d]) /\ delivery[d].status = "RECEIVED" /\ delivery[d].job = "none" /\ delivery[d] \in Delivery
  BY <1>1, UnderWay
<1>3. delivery' = [delivery EXCEPT ![d] = row]
  <2>1. delivery' = [delivery EXCEPT ![d].ingress = "lost"] /\ delivery \in Seq(Delivery)  BY DEF IngressCrashes, IInv
  <2>2. [delivery[d] EXCEPT !.ingress = "lost"] = row  BY <1>2 DEF Placed, Delivery
  <2>. HIDE DEF row
  <2>. QED  BY <2>1, <2>2
<1>4. Handled(row) /\ row.event = delivery[d].event /\ row.status = "RECEIVED" /\ row.job = "none"
  BY <1>2, PlacedFields
<1>. HIDE DEF row
<1>5. Carries(row, hub.reviews, publication.reviews)  BY <1>2, <1>4, UnderWay DEF Carries
<1>6. Keeps(delivery[d], row, hub.reviews, publication.reviews)  BY <1>4 DEF Keeps
<1>7. ~Waiting(delivery[d], {"review"}, Pending) /\ ~Waiting(delivery[d], Kinds, {"evaluate"})  BY <1>1 DEF Waiting
<1>8. decisions' \in Seq(Decision) /\ Grows(decisions, decisions')  BY <1>1 DEF IInv, Grows
<1>9. faults' \in 0 .. MaxFaults /\ faults' # 0
  <2>1. faults \in 0 .. MaxFaults /\ MaxFaults \in Nat  BY WebhookAssumption DEF IInv
  <2>. QED  BY <2>1 DEF IngressCrashes
<1>10. UNCHANGED <<hub, publication>>  BY <1>1
<1>. QED  BY <1>2, <1>3, <1>4, <1>5, <1>6, <1>7, <1>8, <1>9, <1>10, MovesOn


-----------------------------------------------------------------------------
(* The transactions of a job.                                              *)

LEMMA Evaluate ==
  ASSUME IInv, NEW d \in DOMAIN delivery, evaluateAndPersistMergeReadiness(d)
  PROVE  IInv'
<1>. DEFINE input == toMergeReadinessInput(publication)
            decision == [input |-> input, ready |-> evaluateMergeReadiness(input)]
            row == Placed(delivery[d], "mark", "none")
<1>1. delivery[d].job = "evaluate" /\ UNCHANGED <<hub, publication, faults>>  BY DEF evaluateAndPersistMergeReadiness, Job
<1>2. decisions' = IF \E i \in DOMAIN decisions : decisions[i].input = input THEN decisions ELSE Append(decisions, decision)
  BY DEF evaluateAndPersistMergeReadiness
<1>3. publication \in Publication /\ decisions \in Seq(Decision)  BY DEF IInv
<1>4. input \in Input /\ input.reviews = publication.reviews /\ input.check = publication.check
  BY <1>3 DEF toMergeReadinessInput, Input, Publication
<1>. HIDE DEF input
<1>5. evaluateMergeReadiness(input) \in BOOLEAN  BY <1>4 DEF evaluateMergeReadiness, Input
<1>6. decision \in Decision /\ decision.input = input  BY <1>4, <1>5 DEF Decision
<1>. HIDE DEF decision
<1>7. decisions' \in Seq(Decision) /\ Grows(decisions, decisions') /\ \E i \in DOMAIN decisions' : decisions'[i].input = input
  <2>1. CASE \E i \in DOMAIN decisions : decisions[i].input = input  BY <1>2, <1>3, <2>1 DEF Grows
  <2>2. CASE ~\E i \in DOMAIN decisions : decisions[i].input = input
    <3>. DEFINE m == Len(decisions)
                new == Append(decisions, decision)
    <3>1. decisions' = new  BY <1>2, <2>2
    <3>2. m \in Nat /\ DOMAIN decisions = 1 .. m /\ DOMAIN new = 1 .. m + 1 /\ new \in Seq(Decision)  BY <1>3, <1>6
    <3>3. new[m + 1] = decision /\ \A i \in 1 .. m : new[i] = decisions[i]  BY <1>3
    <3>. HIDE DEF m, new
    <3>4. m + 1 \in 1 .. m + 1 /\ \A i \in 1 .. m : i \in 1 .. m + 1  BY <3>2
    <3>. QED  BY <1>6, <3>1, <3>2, <3>3, <3>4 DEF Grows
  <2>. QED  BY <2>1, <2>2
<1>8. OfReviews(publication, decisions') /\ OfBoth(publication, decisions')  BY <1>4, <1>7 DEF OfReviews, OfBoth
<1>9. Handled(delivery[d]) /\ delivery[d] \in Delivery /\ delivery[d].status = "RECEIVED" /\ delivery[d].ingress = "none"
  BY <1>1, UnderWay
<1>10. delivery' = [delivery EXCEPT ![d] = row]
  <2>1. delivery' = [delivery EXCEPT ![d].job = "mark"] /\ delivery \in Seq(Delivery)
    BY DEF evaluateAndPersistMergeReadiness, Go, IInv
  <2>2. [delivery[d] EXCEPT !.job = "mark"] = row  BY <1>9 DEF Placed, Delivery
  <2>. HIDE DEF row
  <2>. QED  BY <2>1, <2>2
<1>11. Handled(row) /\ row.event = delivery[d].event /\ row.status = "RECEIVED" /\ row.job = "mark"
  BY <1>1, <1>9, PlacedFields
<1>. HIDE DEF row
<1>12. Carries(row, hub.reviews, publication.reviews)  BY <1>1, <1>9, <1>11, UnderWay DEF Carries
<1>13. Keeps(delivery[d], row, hub.reviews, publication.reviews)  BY <1>11 DEF Keeps
<1>14. UNCHANGED <<hub, publication>> /\ faults' = faults /\ faults \in 0 .. MaxFaults  BY <1>1 DEF IInv
<1>. QED  BY <1>7, <1>8, <1>9, <1>10, <1>11, <1>12, <1>13, <1>14, MovesOn

LEMMA GoesTo ==
  ASSUME IInv, NEW d \in DOMAIN delivery, delivery[d].job = "apply",
         NEW step \in {"evaluate", "close", "mark", "ignore"}, Go(d, step)
  PROVE  /\ delivery' = [delivery EXCEPT ![d] = Placed(delivery[d], step, "none")]
         /\ Handled(Placed(delivery[d], step, "none")) /\ Placed(delivery[d], step, "none").event = delivery[d].event
         /\ Placed(delivery[d], step, "none").status = "RECEIVED" /\ Placed(delivery[d], step, "none").job = step
         /\ Placed(delivery[d], step, "none").ingress = "none"
<1>1. Handled(delivery[d]) /\ delivery[d] \in Delivery /\ delivery[d].status = "RECEIVED" /\ delivery[d].ingress = "none"
  BY UnderWay
<1>2. delivery' = [delivery EXCEPT ![d].job = step] /\ delivery \in Seq(Delivery)  BY DEF Go, IInv
<1>3. [delivery[d] EXCEPT !.job = step] = Placed(delivery[d], step, "none")  BY <1>1 DEF Placed, Delivery
<1>4. delivery' = [delivery EXCEPT ![d] = Placed(delivery[d], step, "none")]  BY <1>2, <1>3
<1>. QED  BY <1>1, <1>4, PlacedFields

\* The first transaction stores something.
LEMMA Applies ==
  ASSUME IInv, NEW d \in DOMAIN delivery, delivery[d].job = "apply", NEW step \in {"evaluate", "close", "mark"},
         Go(d, step), UNCHANGED <<hub, decisions, faults>>, publication' \in Publication,
         Numbered(hub.reviews, publication'.reviews), publication'.reviews # <<>> => publication'.recorded,
         \A i \in DOMAIN hub.reviews :
           hub.reviews[i].state # "DISMISSED" /\ Stored(i, hub.reviews, publication.reviews) =>
             Stored(i, hub.reviews, publication'.reviews),
         delivery[d].event.kind = "review" =>
           /\ step = "evaluate"
           /\ hub.reviews[delivery[d].event.id].state # "DISMISSED" =>
                Stored(delivery[d].event.id, hub.reviews, publication'.reviews),
         delivery[d].event.kind = "review" \/ publication'.reviews = publication.reviews,
         step = "evaluate" \/ publication'.check = publication.check,
         Green(publication', decisions)
  PROVE  IInv'
<1>. DEFINE row == Placed(delivery[d], step, "none")
<1>1. delivery' = [delivery EXCEPT ![d] = row] /\ Handled(row) /\ row.event = delivery[d].event
      /\ row.status = "RECEIVED" /\ row.job = step /\ row.ingress = "none"
  BY GoesTo
<1>. HIDE DEF row
<1>2. row \in Delivery /\ delivery \in Seq(Delivery) /\ delivery[d].status = "RECEIVED" /\ delivery[d].event.kind \in Kinds
  BY <1>1, UnderWay DEF Handled, IInv, Delivery, Event, Kinds
<1>3. /\ delivery' \in Seq(Delivery) /\ DOMAIN delivery' = DOMAIN delivery /\ delivery'[d] = row
      /\ \A c \in DOMAIN delivery : c # d => delivery'[c] = delivery[c]
  BY <1>1, <1>2, OneRow
<1>4. \A c \in DOMAIN delivery' : Handled(delivery'[c])  BY <1>1, <1>3 DEF IInv
<1>5. \A c \in DOMAIN delivery' : Carries(delivery'[c], hub.reviews, publication'.reviews)
  <2>1. Carries(row, hub.reviews, publication'.reviews)  BY <1>1, <1>2, UnderWay DEF Carries
  <2>2. ASSUME NEW c \in DOMAIN delivery, c # d  PROVE Carries(delivery[c], hub.reviews, publication'.reviews)
    BY UnderWay DEF Carries
  <2>. QED  BY <1>3, <2>1, <2>2
<1>6. Converging(hub.reviews, publication'.reviews, delivery')
  <2>1. Converging(hub.reviews, publication.reviews, delivery)  BY DEF IInv
  <2>2. Keeps(delivery[d], row, hub.reviews, publication'.reviews)  BY <1>1 DEF Keeps
  <2>. QED  BY <1>1, <1>2, <2>1, <2>2, ConvergingKept
<1>7. /\ publication.reviews # <<>> => OfReviews(publication, decisions) \/ Waits(delivery, {"review"}, Pending)
      /\ faults = 0 /\ (publication.check # NoCheck \/ publication.reviews # <<>>) =>
           OfBoth(publication, decisions) \/ Waits(delivery, Kinds, {"evaluate"})
  BY DEF IInv, Watched
<1>8. publication'.reviews # <<>> => OfReviews(publication', decisions) \/ Waits(delivery', {"review"}, Pending)
  <2>1. CASE delivery[d].event.kind = "review"
    <3>1. Waiting(row, {"review"}, Pending)  BY <1>1, <2>1 DEF Waiting, Pending
    <3>. QED  BY <1>1, <1>2, <3>1, WaitsNow
  <2>2. CASE delivery[d].event.kind # "review"
    <3>1. publication'.reviews = publication.reviews  BY <2>2
    <3>2. OfReviews(publication, decisions) => OfReviews(publication', decisions)  BY <3>1 DEF OfReviews
    <3>3. ~Waiting(delivery[d], {"review"}, Pending)  BY <2>2 DEF Waiting
    <3>4. Waits(delivery, {"review"}, Pending) => Waits(delivery', {"review"}, Pending)  BY <1>1, <1>2, <3>3, WaitsKept
    <3>. QED  BY <1>7, <3>1, <3>2, <3>4
  <2>. QED  BY <2>1, <2>2
<1>9. faults = 0 /\ (publication'.check # NoCheck \/ publication'.reviews # <<>>) =>
        OfBoth(publication', decisions) \/ Waits(delivery', Kinds, {"evaluate"})
  <2>1. CASE step = "evaluate"
    <3>1. Waiting(row, Kinds, {"evaluate"})  BY <1>1, <1>2, <2>1 DEF Waiting
    <3>. QED  BY <1>1, <1>2, <3>1, WaitsNow
  <2>2. CASE step # "evaluate"
    <3>1. publication'.reviews = publication.reviews /\ publication'.check = publication.check  BY <2>2
    <3>2. OfBoth(publication, decisions) => OfBoth(publication', decisions)  BY <3>1 DEF OfBoth
    <3>3. ~Waiting(delivery[d], Kinds, {"evaluate"})  BY DEF Waiting
    <3>4. Waits(delivery, Kinds, {"evaluate"}) => Waits(delivery', Kinds, {"evaluate"})  BY <1>1, <1>2, <3>3, WaitsKept
    <3>. QED  BY <1>7, <3>1, <3>2, <3>4
  <2>. QED  BY <2>1, <2>2
<1>10. Watched(publication', delivery', decisions, faults)  BY <1>8, <1>9 DEF Watched
<1>11. hub' = hub /\ decisions' = decisions /\ faults' = faults  OBVIOUS
<1>. QED  BY <1>3, <1>4, <1>5, <1>6, <1>10, <1>11 DEF IInv


\* The stored reviews after the review id of GitHub was stored as state.
Upserted(theirs, ours, id, state) ==
  [i \in 1 .. IF id > Len(ours) THEN id ELSE Len(ours) |->
     IF i = id THEN [by |-> theirs[i].by, state |-> state]
     ELSE IF i <= Len(ours) THEN ours[i] ELSE [by |-> theirs[i].by, state |-> NoReview]]

LEMMA UpsertedFields ==
  ASSUME NEW theirs \in Seq(Review), NEW ours \in Seq(Review), Numbered(theirs, ours), NEW id \in DOMAIN theirs,
         NEW state \in ReviewState \cup {NoReview}
  PROVE  /\ Upserted(theirs, ours, id, state) \in Seq(Review) /\ Numbered(theirs, Upserted(theirs, ours, id, state))
         /\ id \in DOMAIN Upserted(theirs, ours, id, state) /\ Upserted(theirs, ours, id, state)[id].state = state
         /\ \A i \in DOMAIN ours : i # id =>
              i \in DOMAIN Upserted(theirs, ours, id, state) /\ Upserted(theirs, ours, id, state)[i] = ours[i]
<1>. DEFINE m == Len(ours)
            n == IF id > m THEN id ELSE m
            h == Len(theirs)
            new == Upserted(theirs, ours, id, state)
<1>1. m \in Nat /\ h \in Nat /\ DOMAIN ours = 1 .. m /\ DOMAIN theirs = 1 .. h /\ id \in 1 .. h  OBVIOUS
<1>2. \A i \in 1 .. m : ours[i] \in Review /\ i \in 1 .. h /\ ours[i].by = theirs[i].by
  <2>1. \A i \in 1 .. m : ours[i] \in Review  OBVIOUS
  <2>. HIDE DEF m, h
  <2>. QED  BY <1>1, <2>1 DEF Numbered
<1>3. \A i \in 1 .. h : theirs[i].by \in Reviewer
  <2>1. \A i \in 1 .. h : theirs[i] \in Review  OBVIOUS
  <2>. HIDE DEF h
  <2>. QED  BY <2>1 DEF Review
<1>4. new = [i \in 1 .. n |-> IF i = id THEN [by |-> theirs[i].by, state |-> state]
                              ELSE IF i <= m THEN ours[i] ELSE [by |-> theirs[i].by, state |-> NoReview]]
  BY DEF Upserted
<1>. HIDE DEF m, h, new
<1>5. m <= h
  <2>1. CASE m = 0  BY <1>1, <2>1
  <2>2. CASE m # 0
    <3>1. m \in 1 .. m  BY <1>1, <2>2
    <3>2. m \in 1 .. h  BY <1>2, <3>1
    <3>. QED  BY <1>1, <3>2
  <2>. QED  BY <2>1, <2>2
<1>6. n \in Nat /\ n <= h /\ id \in 1 .. n /\ \A i \in 1 .. m : i \in 1 .. n  BY <1>1, <1>5
<1>. HIDE DEF n
<1>7. \A i \in 1 .. n : i \in 1 .. h /\ (i <= m => i \in 1 .. m)  BY <1>1, <1>6
<1>8. \A i \in 1 .. m : i <= m  BY <1>1
<1>9. DOMAIN new = 1 .. n /\ new[id] = [by |-> theirs[id].by, state |-> state]  BY <1>4, <1>6
<1>10. \A i \in 1 .. n : i # id /\ i <= m => new[i] = ours[i]  BY <1>4
<1>11. \A i \in 1 .. n : i # id /\ ~(i <= m) => new[i] = [by |-> theirs[i].by, state |-> NoReview]  BY <1>4
<1>12. ASSUME NEW i \in 1 .. n  PROVE new[i] \in Review /\ new[i].by = theirs[i].by
  <2>1. i \in 1 .. h /\ theirs[i].by \in Reviewer  BY <1>3, <1>7
  <2>2. CASE i = id  BY <1>9, <2>1, <2>2 DEF Review
  <2>3. CASE i # id /\ i <= m  BY <1>2, <1>7, <1>10, <2>3
  <2>4. CASE i # id /\ ~(i <= m)
    <3>1. new[i] = [by |-> theirs[i].by, state |-> NoReview]  BY <1>11, <2>4
    <3>2. NoReview \in ReviewState \cup {NoReview}  OBVIOUS
    <3>. QED  BY <2>1, <3>1, <3>2 DEF Review
  <2>. QED  BY <2>2, <2>3, <2>4
<1>13. new \in Seq(Review)
  <2>1. new = [i \in 1 .. n |-> new[i]]  BY <1>4
  <2>2. new \in [1 .. n -> Review]  BY <1>12, <2>1
  <2>. QED  BY <1>6, <2>2, SeqDef
<1>14. Numbered(theirs, new)  BY <1>1, <1>7, <1>9, <1>12 DEF Numbered
<1>15. id \in DOMAIN new /\ new[id].state = state  BY <1>6, <1>9
<1>16. \A i \in DOMAIN ours : i # id => i \in DOMAIN new /\ new[i] = ours[i]  BY <1>1, <1>6, <1>8, <1>9, <1>10
<1>. QED  BY <1>13, <1>14, <1>15, <1>16 DEF new

LEMMA CheckTypes == ASSUME NEW raw  PROVE normalizeGithubCheck(raw) \in CheckStatus
BY DEF normalizeGithubCheck, CheckStatus

\* MERGED is reached from READY_FOR_HUMAN_MERGE alone.
LEMMA MergedFrom ==
  ASSUME NEW from \in Status, assertPublicationTransition(from, "MERGED")
  PROVE  from \in {"READY_FOR_HUMAN_MERGE", "MERGED"}
BY DEF assertPublicationTransition, transitions, Status, Executable, InFlight, Retryable

LEMMA ApplyReview ==
  ASSUME IInv, NEW d \in DOMAIN delivery, delivery[d].job = "apply", delivery[d].event.kind = "review",
         publication.recorded, publication' = upsertPublicationReview(publication, delivery[d].event),
         Go(d, "evaluate"), UNCHANGED <<hub, decisions, faults>>
  PROVE  IInv'
<1>. DEFINE id == delivery[d].event.id
            state == delivery[d].event.state
            new == Upserted(hub.reviews, publication.reviews, id, state)
<1>1. hub.reviews \in Seq(Review) /\ publication \in Publication /\ publication.reviews \in Seq(Review)
      /\ Numbered(hub.reviews, publication.reviews) /\ Green(publication, decisions)
  BY DEF IInv, PullRequest, Publication
<1>2. Carries(delivery[d], hub.reviews, publication.reviews) /\ delivery[d].status = "RECEIVED" /\ delivery[d] \in Delivery
  BY UnderWay
<1>3. id \in DOMAIN hub.reviews /\ (hub.reviews[id].state # "DISMISSED" => state = hub.reviews[id].state)
  BY <1>2 DEF Carries
<1>4. state \in ReviewState \cup {NoReview}  BY <1>2 DEF Delivery, Event
<1>5. publication' = [publication EXCEPT !.reviews = new]  BY DEF upsertPublicationReview, Upserted
<1>6. /\ new \in Seq(Review) /\ Numbered(hub.reviews, new) /\ id \in DOMAIN new /\ new[id].state = state
      /\ \A i \in DOMAIN publication.reviews : i # id => i \in DOMAIN new /\ new[i] = publication.reviews[i]
  BY <1>1, <1>3, <1>4, UpsertedFields
<1>. HIDE DEF new, id, state
<1>7. publication' \in Publication /\ publication'.reviews = new /\ publication'.recorded /\ publication'.check = publication.check
      /\ publication'.status = publication.status
  BY <1>1, <1>5, <1>6 DEF Publication
<1>8. Green(publication', decisions)  BY <1>1, <1>7 DEF Green
<1>9. \A i \in DOMAIN hub.reviews :
        hub.reviews[i].state # "DISMISSED" /\ Stored(i, hub.reviews, publication.reviews) => Stored(i, hub.reviews, publication'.reviews)
  BY <1>3, <1>6, <1>7 DEF Stored
<1>10. hub.reviews[id].state # "DISMISSED" => Stored(id, hub.reviews, publication'.reviews)
  BY <1>3, <1>6, <1>7 DEF Stored
<1>11. Numbered(hub.reviews, publication'.reviews)  BY <1>6, <1>7
<1>. QED  BY <1>7, <1>8, <1>9, <1>10, <1>11, Applies DEF id

LEMMA ApplyOther ==
  ASSUME IInv, NEW d \in DOMAIN delivery, delivery[d].job = "apply", delivery[d].event.kind # "review",
         NEW step \in {"evaluate", "close", "mark"}, Go(d, step), UNCHANGED <<hub, decisions, faults>>,
         publication' \in Publication, publication'.reviews = publication.reviews,
         publication'.recorded = publication.recorded, step = "evaluate" \/ publication'.check = publication.check,
         publication'.status = publication.status \/ publication.status \in {"READY_FOR_HUMAN_MERGE", "MERGED"}
  PROVE  IInv'
<1>1. Numbered(hub.reviews, publication'.reviews)  BY DEF IInv
<1>2. publication'.reviews # <<>> => publication'.recorded  BY DEF IInv
<1>3. Green(publication', decisions)  BY DEF IInv, Green
<1>4. \A i \in DOMAIN hub.reviews :
        hub.reviews[i].state # "DISMISSED" /\ Stored(i, hub.reviews, publication.reviews) => Stored(i, hub.reviews, publication'.reviews)
  OBVIOUS
<1>. QED  BY <1>1, <1>2, <1>3, <1>4, Applies

LEMMA Apply ==
  ASSUME IInv, NEW d \in DOMAIN delivery, applyWebhookEvent(d)
  PROVE  IInv'
<1>. DEFINE e == delivery[d].event
            new == CASE e.kind = "review" -> upsertPublicationReview(publication, e)
                     [] e.kind = "check" -> upsertPublicationCheck(publication, e)
                     [] OTHER -> applyPullRequestUpdate(publication, e)
            step == CASE e.kind # "pull_request" -> "evaluate"
                      [] new.status = "MERGED" /\ publication.status # "MERGED" -> "close"
                      [] OTHER -> "mark"
<1>1. delivery[d].job = "apply" /\ UNCHANGED <<hub, decisions, faults>>  BY DEF applyWebhookEvent, Job
<1>2. publication \in Publication /\ delivery[d] \in Delivery /\ e \in Event  BY UnderWay DEF IInv, Delivery
<1>3. Handled(delivery[d]) /\ Carries(delivery[d], hub.reviews, publication.reviews) /\ delivery[d].status = "RECEIVED"
  BY <1>1, UnderWay
<1>4. CASE ~resolvePublication(e)
  <2>. DEFINE row == Placed(delivery[d], "ignore", "none")
  <2>1. Go(d, "ignore") /\ publication' = publication  BY <1>4 DEF applyWebhookEvent
  <2>2. delivery' = [delivery EXCEPT ![d] = row] /\ Handled(row) /\ row.event = delivery[d].event
        /\ row.status = "RECEIVED" /\ row.job = "ignore"
    BY <1>1, <2>1, GoesTo
  <2>. HIDE DEF row
  <2>3. Carries(row, hub.reviews, publication.reviews)  BY <1>3, <2>2 DEF Carries
  <2>4. Keeps(delivery[d], row, hub.reviews, publication.reviews)  BY <2>2 DEF Keeps
  <2>5. e.kind = "review" => publication.reviews = <<>>
    BY <1>4 DEF IInv, resolvePublication, findPublicationIdByPullRequestNumber
  <2>6. Waiting(delivery[d], {"review"}, Pending) => publication.reviews = <<>>  BY <2>5 DEF Waiting
  <2>7. ~Waiting(delivery[d], Kinds, {"evaluate"})  BY <1>1 DEF Waiting
  <2>8. decisions' \in Seq(Decision) /\ Grows(decisions, decisions') /\ faults' = faults /\ faults \in 0 .. MaxFaults
    BY <1>1 DEF IInv, Grows
  <2>9. UNCHANGED <<hub, publication>>  BY <1>1, <2>1
  <2>. QED  BY <1>3, <2>2, <2>3, <2>4, <2>6, <2>7, <2>8, <2>9, MovesOn
<1>5. CASE resolvePublication(e) /\ e.kind = "review"
  <2>1. publication' = upsertPublicationReview(publication, e) /\ Go(d, "evaluate")
    <3>1. publication' = new /\ Go(d, step)  BY <1>5 DEF applyWebhookEvent
    <3>2. new = upsertPublicationReview(publication, e)  BY <1>5
    <3>3. new.status = publication.status  BY <1>2, <3>2 DEF upsertPublicationReview, Publication
    <3>. HIDE DEF new
    <3>4. step = "evaluate"  BY <1>5, <3>3
    <3>. HIDE DEF step
    <3>. QED  BY <3>1, <3>2, <3>4
  <2>2. publication.recorded  BY <1>5 DEF resolvePublication, findPublicationIdByPullRequestNumber
  <2>. QED  BY <1>1, <1>5, <2>1, <2>2, ApplyReview
<1>6. CASE resolvePublication(e) /\ e.kind = "check"
  <2>1. publication' = upsertPublicationCheck(publication, e) /\ Go(d, "evaluate")
    <3>1. publication' = new /\ Go(d, step)  BY <1>6 DEF applyWebhookEvent
    <3>2. new = upsertPublicationCheck(publication, e)  BY <1>6
    <3>3. new.status = publication.status  BY <1>2, <3>2 DEF upsertPublicationCheck, Publication
    <3>. HIDE DEF new
    <3>4. step = "evaluate"  BY <1>6, <3>3
    <3>. HIDE DEF step
    <3>. QED  BY <3>1, <3>2, <3>4
  <2>2. normalizeGithubCheck(e.raw) \in CheckStatus  BY CheckTypes
  <2>3. publication' \in Publication /\ publication'.reviews = publication.reviews
        /\ publication'.recorded = publication.recorded /\ publication'.status = publication.status
    BY <1>2, <2>1, <2>2 DEF upsertPublicationCheck, Publication
  <2>. QED  BY <1>1, <1>6, <2>1, <2>3, ApplyOther
<1>7. CASE resolvePublication(e) /\ e.kind \notin {"review", "check"}
  <2>. DEFINE status == IF e.merged /\ assertPublicationTransition(publication.status, "MERGED")
                        THEN "MERGED" ELSE publication.status
              observed == IF e.merged /\ publication.observed = NotMerged THEN e.head ELSE publication.observed
              update == [publication EXCEPT !.head = e.head, !.current = ~e.moved, !.observed = observed, !.status = status]
  <2>1. new = applyPullRequestUpdate(publication, e)  BY <1>7
  <2>2. new = update  BY <2>1 DEF applyPullRequestUpdate
  <2>3. publication' = new /\ Go(d, step)  BY <1>7 DEF applyWebhookEvent
  <2>4. step \in {"evaluate", "close", "mark"}  OBVIOUS
  <2>5. status \in Status /\ (status = publication.status \/ publication.status \in {"READY_FOR_HUMAN_MERGE", "MERGED"})
    <3>1. publication.status \in Status /\ "MERGED" \in Status  BY <1>2 DEF Publication, Status
    <3>. QED  BY <3>1, MergedFrom
  <2>6. observed \in Nat \cup {NotMerged} /\ e.head \in Nat /\ (~e.moved) \in BOOLEAN
    <3>1. e.head \in Nat /\ publication.observed \in Nat \cup {NotMerged}  BY <1>2 DEF Publication, Event
    <3>2. observed \in Nat \cup {NotMerged}  BY <3>1
    <3>3. (~e.moved) \in BOOLEAN  OBVIOUS
    <3>. QED  BY <3>1, <3>2, <3>3
  <2>. HIDE DEF status, observed
  <2>7. update \in Publication /\ update.reviews = publication.reviews /\ update.recorded = publication.recorded
        /\ update.check = publication.check /\ update.status = status
    BY <1>2, <2>5, <2>6 DEF Publication
  <2>. HIDE DEF update, new, step
  <2>. QED  BY <1>1, <1>7, <2>2, <2>3, <2>4, <2>5, <2>7, ApplyOther
<1>. QED  BY <1>4, <1>5, <1>6, <1>7


-----------------------------------------------------------------------------
(* What GitHub sends.                                                      *)

\* GitHub's reviews change: some are dismissed, and the one the event is about is new
\* or changed as the event says.
Changes(theirs, later, e) ==
  /\ \A i \in DOMAIN theirs : /\ i \in DOMAIN later /\ later[i].by = theirs[i].by
                              /\ later[i].state # "DISMISSED" => later[i].state = theirs[i].state
  /\ \A i \in DOMAIN later : i \notin DOMAIN theirs => e.kind = "review" /\ e.id = i
  /\ e.kind = "review" => /\ e.id \in DOMAIN later
                          /\ later[e.id].state # "DISMISSED" => e.state = later[e.id].state

LEMMA Sends ==
  ASSUME IInv, NEW e \in Event, reserveWebhookDelivery(e), hub' \in PullRequest, Submitted(hub'.reviews),
         Changes(hub.reviews, hub'.reviews, e)
  PROVE  IInv'
<1>. DEFINE row == [event |-> e, status |-> "RECEIVED", ingress |-> "resolve", job |-> "none", attempts |-> 0]
<1>1. delivery' = Append(delivery, row) /\ UNCHANGED <<publication, decisions, faults>>  BY DEF reserveWebhookDelivery
<1>2. Handled(row) /\ row.event = e /\ row.status = "RECEIVED" /\ row.job = "none"
  <2>1. 0 \in 0 .. MaxAttempts /\ 0 < MaxAttempts  BY WebhookAssumption
  <2>. QED  BY <2>1 DEF Handled, Delivery
<1>. HIDE DEF row
<1>3. delivery \in Seq(Delivery) /\ row \in Delivery  BY <1>2 DEF IInv, Handled
<1>4. delivery' \in Seq(Delivery) /\ \A c \in DOMAIN delivery : c \in DOMAIN delivery' /\ delivery'[c] = delivery[c]
  BY <1>1, <1>3, AnotherRow
<1>5. PICK d \in DOMAIN delivery' : delivery'[d] = row /\ \A c \in DOMAIN delivery' : c # d => c \in DOMAIN delivery
  BY <1>1, <1>3, AnotherRow
<1>6. \A c \in DOMAIN delivery' : Handled(delivery'[c])  BY <1>2, <1>4, <1>5 DEF IInv
<1>7. Numbered(hub'.reviews, publication.reviews)  BY DEF IInv, Numbered, Changes
<1>8. \A c \in DOMAIN delivery' : Carries(delivery'[c], hub'.reviews, publication.reviews)
  <2>1. Carries(row, hub'.reviews, publication.reviews)  BY <1>2 DEF Carries, Changes
  <2>2. ASSUME NEW c \in DOMAIN delivery  PROVE Carries(delivery[c], hub'.reviews, publication.reviews)
    <3>1. Carries(delivery[c], hub.reviews, publication.reviews)  BY UnderWay
    <3>. QED  BY <3>1 DEF Carries, Changes, Stored
  <2>. QED  BY <1>4, <1>5, <2>1, <2>2
<1>9. Converging(hub'.reviews, publication.reviews, delivery')
  <2>1. SUFFICES ASSUME NEW i \in DOMAIN hub'.reviews, hub'.reviews[i].state # "DISMISSED"
                 PROVE  Stored(i, hub'.reviews, publication.reviews) \/ Awaited(i, delivery') \/ Dropped(delivery')
    BY DEF Converging
  <2>2. CASE i \notin DOMAIN hub.reviews
    <3>1. e.kind = "review" /\ e.id = i  BY <2>2 DEF Changes
    <3>. QED  BY <1>2, <1>5, <3>1 DEF Awaited
  <2>3. CASE i \in DOMAIN hub.reviews
    <3>1. hub'.reviews[i].state = hub.reviews[i].state  BY <2>1, <2>3 DEF Changes
    <3>2. Stored(i, hub.reviews, publication.reviews) \/ Awaited(i, delivery) \/ Dropped(delivery)
      BY <2>1, <2>3, <3>1 DEF IInv, Converging
    <3>3. Awaited(i, delivery) => Awaited(i, delivery')  BY <1>4 DEF Awaited
    <3>4. Dropped(delivery) => Dropped(delivery')  BY <1>4 DEF Dropped
    <3>5. Stored(i, hub.reviews, publication.reviews) => Stored(i, hub'.reviews, publication.reviews)
      BY <3>1 DEF Stored
    <3>. QED  BY <3>2, <3>3, <3>4, <3>5
  <2>. QED  BY <2>2, <2>3
<1>10. Watched(publication, delivery', decisions, faults)
  <2>1. ASSUME NEW kinds, NEW steps  PROVE Waits(delivery, kinds, steps) => Waits(delivery', kinds, steps)
    BY <1>4 DEF Waits
  <2>2. Watched(publication, delivery, decisions, faults)  BY DEF IInv
  <2>. QED  BY <2>1, <2>2 DEF Watched
<1>11. publication' = publication /\ decisions' = decisions /\ faults' = faults  BY <1>1
<1>. QED  BY <1>4, <1>6, <1>7, <1>8, <1>9, <1>10, <1>11 DEF IInv

\* An event about something else than a review.
LEMMA SendsOther ==
  ASSUME IInv, NEW e \in Event, e.kind # "review", reserveWebhookDelivery(e), hub' \in PullRequest,
         hub'.reviews = hub.reviews
  PROVE  IInv'
<1>1. Submitted(hub'.reviews)  BY DEF IInv
<1>2. Changes(hub.reviews, hub'.reviews, e)  BY DEF Changes
<1>. QED  BY <1>1, <1>2, Sends

LEMMA SubmittedMore ==
  ASSUME NEW theirs \in Seq(Review), NEW review \in Review, review.state # NoReview, Submitted(theirs)
  PROVE  /\ Submitted(Append(theirs, review)) /\ Append(theirs, review) \in Seq(Review)
         /\ DOMAIN theirs = 1 .. Len(theirs) /\ DOMAIN Append(theirs, review) = 1 .. Len(theirs) + 1 /\ Len(theirs) \in Nat
         /\ Append(theirs, review)[Len(theirs) + 1] = review
         /\ \A i \in DOMAIN theirs : i \in DOMAIN Append(theirs, review) /\ Append(theirs, review)[i] = theirs[i]
<1>. DEFINE m == Len(theirs)
            new == Append(theirs, review)
<1>1. m \in Nat /\ DOMAIN theirs = 1 .. m /\ DOMAIN new = 1 .. m + 1 /\ new \in Seq(Review)  OBVIOUS
<1>2. new[m + 1] = review /\ \A i \in 1 .. m : new[i] = theirs[i]  OBVIOUS
<1>. HIDE DEF m, new
<1>3. (\A i \in 1 .. m : i \in 1 .. m + 1 /\ i <= m + 1) /\ (\A i \in 1 .. m + 1 : i = m + 1 \/ i \in 1 .. m)
      /\ m + 1 \in 1 .. m + 1 /\ m + 1 <= m + 1
  BY <1>1
<1>4. \A i \in DOMAIN new : new[i].state # NoReview  BY <1>1, <1>2, <1>3 DEF Submitted
<1>5. ASSUME NEW u \in Reviewer, {i \in DOMAIN new : new[i].by = u} # {}
      PROVE  \E i \in {k \in DOMAIN new : new[k].by = u} : \A j \in {k \in DOMAIN new : new[k].by = u} : j <= i
  <2>. DEFINE mine == {k \in DOMAIN new : new[k].by = u}
              before == {k \in DOMAIN theirs : theirs[k].by = u}
  <2>1. CASE review.by = u
    <3>1. m + 1 \in mine /\ \A j \in mine : j <= m + 1  BY <1>1, <1>2, <1>3, <2>1
    <3>. QED  BY <3>1
  <2>2. CASE review.by # u
    <3>1. mine = before
      <4>1. \A k \in DOMAIN new : k \in mine => k \in before  BY <1>1, <1>2, <1>3, <2>2
      <4>2. \A k \in DOMAIN theirs : k \in before => k \in mine  BY <1>1, <1>2, <1>3
      <4>. QED  BY <4>1, <4>2
    <3>2. before # {} => \E i \in before : \A j \in before : j <= i  BY DEF Submitted
    <3>. QED  BY <1>5, <3>1, <3>2
  <2>. QED  BY <2>1, <2>2
<1>6. Submitted(new)  BY <1>4, <1>5 DEF Submitted
<1>. QED  BY <1>1, <1>2, <1>3, <1>6 DEF m, new

LEMMA StatesAreNamed == ReviewState \subseteq ReviewState \cup {NoReview} /\ NoReview \notin ReviewState
BY Zenon DEF ReviewState, NoReview

\* The event of a review.
LEMMA ReviewEvent ==
  ASSUME NEW h, NEW id \in Nat, NEW state \in ReviewState
  PROVE  /\ mapReviewEvent(h, id, state) \in Event /\ mapReviewEvent(h, id, state).kind = "review"
         /\ mapReviewEvent(h, id, state).id = id /\ mapReviewEvent(h, id, state).state = state
<1>1. state \in ReviewState \cup {NoReview} /\ "review" \in Kinds  BY StatesAreNamed DEF Kinds
<1>2. Base \in Event  BY BaseFields
<1>. QED  BY <1>1, <1>2 DEF mapReviewEvent, Event

LEMMA Submits ==
  ASSUME IInv, NEW u \in Reviewer, NEW state \in ReviewState, submitReview(u, state)
  PROVE  IInv'
<1>. DEFINE review == [by |-> u, state |-> state]
            later == Append(hub.reviews, review)
            m == Len(hub.reviews)
            e == mapReviewEvent(hub, m + 1, state)
<1>1. hub' = [hub EXCEPT !.reviews = later] /\ reserveWebhookDelivery(e)  BY DEF submitReview
<1>2. hub \in PullRequest /\ hub.reviews \in Seq(Review) /\ Submitted(hub.reviews)  BY DEF IInv, PullRequest
<1>3. review \in Review /\ review.state = state /\ state # NoReview  BY StatesAreNamed DEF Review
<1>. HIDE DEF review
<1>4. /\ Submitted(later) /\ later \in Seq(Review) /\ DOMAIN hub.reviews = 1 .. m /\ DOMAIN later = 1 .. m + 1 /\ m \in Nat
      /\ later[m + 1] = review /\ \A i \in DOMAIN hub.reviews : i \in DOMAIN later /\ later[i] = hub.reviews[i]
  BY <1>2, <1>3, SubmittedMore
<1>. HIDE DEF later, m
<1>5. m + 1 \in Nat /\ m + 1 \in 1 .. m + 1 /\ \A i \in 1 .. m + 1 : i \notin 1 .. m => i = m + 1  BY <1>4
<1>6. e \in Event /\ e.kind = "review" /\ e.id = m + 1 /\ e.state = state  BY <1>5, ReviewEvent
<1>. HIDE DEF e
<1>7. hub' \in PullRequest /\ hub'.reviews = later  BY <1>1, <1>2, <1>4 DEF PullRequest
<1>8. Changes(hub.reviews, later, e)  BY <1>3, <1>4, <1>5, <1>6 DEF Changes
<1>. QED  BY <1>1, <1>4, <1>6, <1>7, <1>8, Sends

LEMMA Dismisses ==
  ASSUME IInv, NEW i \in DOMAIN hub.reviews, dismissReview(i)
  PROVE  IInv'
<1>. DEFINE later == [hub.reviews EXCEPT ![i].state = "DISMISSED"]
            e == mapReviewEvent(hub, i, "DISMISSED")
<1>1. hub \in PullRequest /\ hub.reviews \in Seq(Review) /\ Submitted(hub.reviews)  BY DEF IInv, PullRequest
<1>2. hub' = [hub EXCEPT !.reviews = later] /\ reserveWebhookDelivery(e)  BY <1>1 DEF dismissReview, PullRequest
<1>3. "DISMISSED" \in ReviewState /\ "DISMISSED" # NoReview /\ i \in Nat
  <2>1. "DISMISSED" \in ReviewState  BY DEF ReviewState
  <2>. QED  BY <1>1, <2>1, StatesAreNamed
<1>4. /\ later \in Seq(Review) /\ DOMAIN later = DOMAIN hub.reviews /\ later[i].state = "DISMISSED"
      /\ \A k \in DOMAIN hub.reviews : later[k].by = hub.reviews[k].by /\ (k # i => later[k] = hub.reviews[k])
  <2>1. \A k \in DOMAIN hub.reviews : hub.reviews[k] \in Review  BY <1>1
  <2>2. [hub.reviews[i] EXCEPT !.state = "DISMISSED"] \in Review
        /\ [hub.reviews[i] EXCEPT !.state = "DISMISSED"].by = hub.reviews[i].by
        /\ [hub.reviews[i] EXCEPT !.state = "DISMISSED"].state = "DISMISSED"
    BY <1>3, <2>1 DEF Review
  <2>3. later = [hub.reviews EXCEPT ![i] = [hub.reviews[i] EXCEPT !.state = "DISMISSED"]]  OBVIOUS
  <2>. DEFINE review == [hub.reviews[i] EXCEPT !.state = "DISMISSED"]
  <2>4. review \in Review /\ review.by = hub.reviews[i].by /\ review.state = "DISMISSED"
        /\ later = [hub.reviews EXCEPT ![i] = review]
    BY <2>2, <2>3
  <2>. HIDE DEF review, later
  <2>. QED  BY <1>1, <2>4
<1>. HIDE DEF later
<1>5. e \in Event /\ e.kind = "review" /\ e.id = i /\ e.state = "DISMISSED"  BY <1>3, ReviewEvent
<1>. HIDE DEF e
<1>6. hub' \in PullRequest /\ hub'.reviews = later  BY <1>1, <1>2, <1>4 DEF PullRequest
<1>7. Submitted(later)
  <2>1. \A k \in DOMAIN later : later[k].state # NoReview  BY <1>1, <1>3, <1>4 DEF Submitted
  <2>2. ASSUME NEW u \in Reviewer
        PROVE  {k \in DOMAIN later : later[k].by = u} = {k \in DOMAIN hub.reviews : hub.reviews[k].by = u}
    BY <1>4
  <2>. QED  BY <1>1, <2>1, <2>2 DEF Submitted
<1>8. Changes(hub.reviews, later, e)  BY <1>4, <1>5 DEF Changes
<1>. QED  BY <1>2, <1>5, <1>6, <1>7, <1>8, Sends

LEMMA ChangesRequest ==
  ASSUME IInv, pullRequestChanges
  PROVE  IInv'
<1>1. hub \in PullRequest  BY DEF IInv
<1>2. hub' \in PullRequest /\ hub'.reviews = hub.reviews
  <2>1. CASE hub' = [hub EXCEPT !.head = @ + 1]  BY <1>1, <2>1 DEF PullRequest
  <2>2. CASE hub' = [hub EXCEPT !.moved = TRUE]  BY <1>1, <2>2 DEF PullRequest
  <2>3. CASE hub' = [hub EXCEPT !.merged = TRUE]  BY <1>1, <2>3 DEF PullRequest
  <2>. QED  BY <2>1, <2>2, <2>3 DEF pullRequestChanges
<1>. DEFINE e == mapPullRequestEvent(hub')
<1>3. reserveWebhookDelivery(e)  BY DEF pullRequestChanges
<1>4. e \in Event /\ e.kind = "pull_request"
  <2>1. Base \in Event  BY BaseFields
  <2>2. hub'.head \in Nat /\ hub'.moved \in BOOLEAN /\ hub'.merged \in BOOLEAN  BY <1>2 DEF PullRequest
  <2>. QED  BY <2>1, <2>2 DEF mapPullRequestEvent, Event
<1>. HIDE DEF e
<1>. QED  BY <1>2, <1>3, <1>4, SendsOther

LEMMA SendsChecks ==
  ASSUME IInv, (\E raw \in Raw : checkRuns(raw)) \/ (\E known \in BOOLEAN : sendForeign(known))
  PROVE  IInv'
<1>1. hub \in PullRequest /\ Base \in Event /\ Base.kind = "unsupported"  BY BaseFields DEF IInv
<1>2. ASSUME NEW raw \in Raw, checkRuns(raw)  PROVE IInv'
  <2>. DEFINE e == mapCheckEvent(hub, raw)
  <2>1. hub' = hub /\ reserveWebhookDelivery(e)  BY <1>2 DEF checkRuns
  <2>2. e \in Event /\ e.kind = "check"
    <3>1. hub.head \in Nat  BY <1>1 DEF PullRequest
    <3>2. raw \in Raw \cup {NoCheck}  OBVIOUS
    <3>. QED  BY <1>1, <3>1, <3>2 DEF mapCheckEvent, Event
  <2>. HIDE DEF e
  <2>. QED  BY <1>1, <2>1, <2>2, SendsOther
<1>3. ASSUME NEW known \in BOOLEAN, sendForeign(known)  PROVE IInv'
  <2>. DEFINE e == [Base EXCEPT !.known = known]
  <2>1. hub' = hub /\ reserveWebhookDelivery(e)  BY <1>3 DEF sendForeign
  <2>2. e \in Event /\ e.kind = "unsupported"  BY <1>1 DEF Event
  <2>. HIDE DEF e
  <2>. QED  BY <1>1, <2>1, <2>2, SendsOther
<1>. QED  BY <1>2, <1>3


-----------------------------------------------------------------------------
(* The publication worker and people.                                      *)

LEMMA Restatus ==
  ASSUME IInv, NEW status \in Status, NEW recorded \in BOOLEAN, publication.recorded => recorded,
         publication' = [publication EXCEPT !.recorded = recorded, !.status = status],
         UNCHANGED <<hub, delivery, decisions, faults>>,
         status \in {"READY_FOR_HUMAN_MERGE", "MERGED"} => \E i \in DOMAIN decisions : decisions[i].ready
  PROVE  IInv'
<1>1. publication \in Publication  BY DEF IInv
<1>2. publication' \in Publication /\ publication'.reviews = publication.reviews /\ publication'.check = publication.check
      /\ publication'.recorded = recorded /\ publication'.status = status
  BY <1>1 DEF Publication
<1>3. Green(publication', decisions)  BY <1>2 DEF Green
<1>4. Watched(publication', delivery, decisions, faults)  BY <1>2 DEF IInv, Watched, OfReviews, OfBoth
<1>5. publication'.reviews # <<>> => publication'.recorded  BY <1>2 DEF IInv
<1>6. hub' = hub /\ delivery' = delivery /\ decisions' = decisions /\ faults' = faults  OBVIOUS
<1>7. Numbered(hub.reviews, publication'.reviews) /\ Converging(hub.reviews, publication'.reviews, delivery)
  BY <1>2 DEF IInv
<1>8. \A d \in DOMAIN delivery : Carries(delivery[d], hub.reviews, publication'.reviews)  BY <1>2 DEF IInv
<1>. QED  BY <1>2, <1>3, <1>4, <1>5, <1>6, <1>7, <1>8 DEF IInv

LEMMA People ==
  ASSUME IInv, recordPullRequest \/ operatorAwaitsReview \/ markReady
  PROVE  IInv'
<1>1. publication \in Publication /\ decisions \in Seq(Decision)  BY DEF IInv
<1>2. {"CI_MONITORING", "AWAITING_REVIEW", "READY_FOR_HUMAN_MERGE"} \subseteq Status  BY DEF Status
<1>3. publication.recorded \in BOOLEAN  BY <1>1 DEF Publication
<1>4. CASE recordPullRequest
  <2>1. publication' = [publication EXCEPT !.recorded = TRUE, !.status = "CI_MONITORING"]
        /\ UNCHANGED <<hub, delivery, decisions, faults>>
    BY <1>4 DEF recordPullRequest
  <2>. QED  BY <1>2, <2>1, Restatus
<1>5. CASE operatorAwaitsReview
  <2>1. publication' = [publication EXCEPT !.status = "AWAITING_REVIEW"] /\ UNCHANGED <<hub, delivery, decisions, faults>>
    BY <1>5 DEF operatorAwaitsReview
  <2>2. publication' = [publication EXCEPT !.recorded = publication.recorded, !.status = "AWAITING_REVIEW"]
    BY <1>1, <2>1 DEF Publication
  <2>. QED  BY <1>2, <1>3, <2>1, <2>2, Restatus
<1>6. CASE markReady
  <2>1. publication' = [publication EXCEPT !.status = "READY_FOR_HUMAN_MERGE"] /\ UNCHANGED <<hub, delivery, decisions, faults>>
        /\ latestMergeReadiness
    BY <1>6 DEF markReady
  <2>2. publication' = [publication EXCEPT !.recorded = publication.recorded, !.status = "READY_FOR_HUMAN_MERGE"]
    BY <1>1, <2>1 DEF Publication
  <2>3. \E i \in DOMAIN decisions : decisions[i].ready
    <3>1. decisions # <<>> /\ decisions[Len(decisions)].ready  BY <2>1 DEF latestMergeReadiness
    <3>2. Len(decisions) \in DOMAIN decisions  BY <1>1, <3>1
    <3>. QED  BY <3>1, <3>2
  <2>. QED  BY <1>2, <1>3, <2>1, <2>2, <2>3, Restatus
<1>. QED  BY <1>4, <1>5, <1>6

-----------------------------------------------------------------------------
(* The invariant and the theorems.                                         *)

LEMMA Initially == Init => IInv
<1>1. SUFFICES ASSUME Init  PROVE IInv  OBVIOUS
<1>2. hub \in PullRequest /\ hub.reviews = <<>>  BY <1>1 DEF Init, PullRequest
<1>3. publication \in Publication /\ publication.reviews = <<>> /\ publication.check = NoCheck
      /\ publication.status = "DRAFT_PR_CREATING"
  <2>1. "DRAFT_PR_CREATING" \in Status  BY DEF Status, Executable, InFlight
  <2>. QED  BY <1>1, <2>1 DEF Init, Publication
<1>4. delivery = <<>> /\ decisions = <<>> /\ faults = 0 /\ faults \in 0 .. MaxFaults
  BY <1>1, WebhookAssumption DEF Init
<1>5. delivery \in Seq(Delivery) /\ decisions \in Seq(Decision)  BY <1>4
<1>6. Submitted(hub.reviews) /\ Numbered(hub.reviews, publication.reviews)  BY <1>2, <1>3 DEF Submitted, Numbered
<1>7. Converging(hub.reviews, publication.reviews, delivery)  BY <1>2 DEF Converging
<1>8. Watched(publication, delivery, decisions, faults)  BY <1>3 DEF Watched
<1>9. Green(publication, decisions)  BY <1>3 DEF Green
<1>. QED  BY <1>2, <1>3, <1>4, <1>5, <1>6, <1>7, <1>8, <1>9 DEF IInv

LEMMA Inductive == IInv /\ [Next]_vars => IInv'
<1>1. ASSUME IInv, UNCHANGED vars  PROVE IInv'
  BY <1>1 DEF vars, IInv
<1>2. ASSUME IInv, NEW d \in DOMAIN delivery, receive(d) \/ Process(d) \/ AttemptFails(d) \/ IngressCrashes(d)
      PROVE  IInv'
  BY <1>2, Receive, Apply, Evaluate, Mark, Fails, Crashes DEF Process
<1>3. ASSUME IInv, NEW u \in Reviewer, NEW state \in ReviewState, submitReview(u, state)  PROVE IInv'
  BY <1>3, Submits
<1>4. ASSUME IInv, NEW i \in DOMAIN hub.reviews, dismissReview(i)  PROVE IInv'  BY <1>4, Dismisses
<1>. QED  BY <1>1, <1>2, <1>3, <1>4, SendsChecks, ChangesRequest, People DEF Next

LEMMA Reachable == Spec => []IInv
BY Initially, Inductive, PTL DEF Spec

LEMMA ClosureHolds == IInv => ClosureInv
<1>1. SUFFICES ASSUME IInv  PROVE ClosureInv  OBVIOUS
<1>2. TypeOK  BY <1>1 DEF IInv, TypeOK, PullRequest, Delivery, Publication, Decision
<1>3. ReadyWasGreen  BY <1>1 DEF IInv, Green, ReadyWasGreen
<1>. QED  BY <1>2, <1>3 DEF ClosureInv

LEMMA EvaluatedHolds == IInv => ChangesAreEvaluated
<1>1. SUFFICES ASSUME IInv, Settled, publication.check # NoCheck \/ publication.reviews # <<>>,
                      faults > 0 => publication.reviews # <<>>
               PROVE  \E i \in DOMAIN decisions :
                        /\ decisions[i].input.reviews = publication.reviews
                        /\ faults > 0 \/ decisions[i].input.check = publication.check
  BY DEF ChangesAreEvaluated
<1>2. \A kinds, steps : ~Waits(delivery, kinds, steps)  BY <1>1 DEF Settled, Waits, Waiting
<1>3. faults = 0 \/ faults > 0  BY <1>1, WebhookAssumption DEF IInv
<1>4. CASE faults = 0
  <2>1. OfBoth(publication, decisions)  BY <1>1, <1>2, <1>4 DEF IInv, Watched
  <2>. QED  BY <2>1 DEF OfBoth
<1>5. CASE faults > 0
  <2>1. OfReviews(publication, decisions)  BY <1>1, <1>2, <1>5 DEF IInv, Watched
  <2>. QED  BY <1>5, <2>1 DEF OfReviews
<1>. QED  BY <1>3, <1>4, <1>5

LEMMA ConvergeHolds == IInv => ReviewsConverge
<1>1. SUFFICES ASSUME IInv, \A d \in DOMAIN delivery : delivery[d].event.kind = "review" => delivery[d].status = "PROCESSED",
                      NEW u \in Reviewer, {i \in DOMAIN hub.reviews : hub.reviews[i].by = u} # {},
                      \A i \in {k \in DOMAIN hub.reviews : hub.reviews[k].by = u} : hub.reviews[i].state # "DISMISSED"
               PROVE  \E i \in {k \in DOMAIN hub.reviews : hub.reviews[k].by = u} :
                        /\ \A j \in {k \in DOMAIN hub.reviews : hub.reviews[k].by = u} : j <= i
                        /\ latestReviewStates(publication.reviews)[u] = hub.reviews[i].state
  BY DEF ReviewsConverge
<1>. DEFINE theirs == hub.reviews
            ours == publication.reviews
            mine == {k \in DOMAIN theirs : theirs[k].by = u}
            arrived == {k \in Arrived(ours) : ours[k].by = u}
<1>2. PICK i \in mine : \A j \in mine : j <= i  BY <1>1 DEF IInv, Submitted
<1>3. \A k \in DOMAIN theirs : k \in Nat
  <2>1. theirs \in Seq(Review)  BY <1>1 DEF IInv, PullRequest
  <2>. QED  BY <2>1
<1>4. Stored(i, theirs, ours)
  <2>1. ~Awaited(i, delivery) /\ ~Dropped(delivery)  BY <1>1 DEF Awaited, Dropped
  <2>2. Converging(theirs, ours, delivery)  BY <1>1 DEF IInv
  <2>3. i \in DOMAIN theirs /\ theirs[i].state # "DISMISSED"  BY <1>1
  <2>. QED  BY <2>1, <2>2, <2>3 DEF Converging
<1>5. \A k \in DOMAIN ours : k \in DOMAIN theirs /\ ours[k].by = theirs[k].by  BY <1>1 DEF IInv, Numbered
<1>6. theirs[i].state # NoReview  BY <1>1 DEF IInv, Submitted
<1>7. i \in arrived  BY <1>4, <1>5, <1>6 DEF Stored, Arrived
<1>8. \A k \in arrived : k \in mine  BY <1>5 DEF Arrived
<1>9. latestReviewStates(ours)[u] = ours[CHOOSE k \in arrived : \A j \in arrived : j <= k].state
  BY <1>7 DEF latestReviewStates
<1>10. (CHOOSE k \in arrived : \A j \in arrived : j <= k) = i
  <2>. HIDE DEF arrived
  <2>1. \A j \in arrived : j <= i  BY <1>2, <1>8
  <2>. DEFINE last == CHOOSE k \in arrived : \A j \in arrived : j <= k
  <2>2. last \in arrived /\ \A j \in arrived : j <= last  BY <1>7, <2>1
  <2>. HIDE DEF last
  <2>3. last <= i /\ i <= last /\ last \in Nat /\ i \in Nat  BY <1>3, <1>7, <1>8, <2>1, <2>2
  <2>4. last = i  BY <2>3
  <2>. QED  BY <2>4 DEF last
<1>11. latestReviewStates(ours)[u] = theirs[i].state  BY <1>4, <1>9, <1>10 DEF Stored
<1>. QED  BY <1>2, <1>11

\* A publication is handed to a human for merging, and counts as merged, only after
\* an evaluation of it was green (markReady, applyPullRequestUpdate), for any number
\* of deliveries, in any order, and with any failures.
THEOREM MergedWasGreen == Spec => []ClosureInv
BY Reachable, ClosureHolds, PTL

\* Once the jobs have ended, what they stored has been evaluated, whichever attempts
\* failed: the review that a retried job writes again is evaluated again
\* (applyWebhookEvent, evaluateAndPersistMergeReadiness).
THEOREM NoChangeUnnoticed == Spec => []ChangesAreEvaluated
BY Reachable, EvaluatedHolds, PTL

\* Reviews that were applied in any order leave the last review of each person who
\* had none dismissed as the one that counts (upsertPublicationReview,
\* latestReviewStates).
THEOREM ReviewsSettle == Spec => []ReviewsConverge
BY Reachable, ConvergeHolds, PTL
=============================================================================
