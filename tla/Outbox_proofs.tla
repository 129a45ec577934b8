---------------------------- MODULE Outbox_proofs ----------------------------
(***************************************************************************)
(* Proofs about Outbox, for any number of dispatchers, messages, attempts  *)
(* and faults.  The three safety properties rest on one invariant: the     *)
(* attempt of every claim that is held is at most the attempts of its row, *)
(* and a dispatcher that is about to mark a message has queued it.         *)
(***************************************************************************)
EXTENDS Outbox, TLAPS

\* A dispatcher marks as published only what it has queued.
MarkedIsQueued ==
  \A w \in Worker : pc[w] = "mark" => \A c \in current[w] : c.msg \in queued

\* The attempts of a row never fall behind a claim to it.
ClaimsAreCounted == \A w \in Worker : \A c \in Held(w) : c.attempt <= row[c.msg].attempts

\* The claims of all dispatchers are told apart by message and attempt.
ClaimsIdentify ==
  \A v, w \in Worker : \A c \in Held(v), d \in Held(w) :
    c.msg = d.msg /\ c.attempt = d.attempt => v = w /\ c = d

IInv == /\ TypeOK /\ PublishedIsQueued /\ DeadLetterIsExhausted
        /\ MarkedIsQueued /\ ClaimsAreCounted /\ ClaimsIdentify

-----------------------------------------------------------------------------

\* What a change of some columns of one row leaves alone.
LEMMA UpdateRow ==
  ASSUME TypeOK, NEW m \in Msg, NEW r \in Row, row' = [row EXCEPT ![m] = r]
  PROVE  /\ row' \in [Msg -> Row]
         /\ row'[m] = r
         /\ \A k \in Msg \ {m} : row'[k] = row[k]
BY DEF TypeOK

\* The columns of a row have their types.
LEMMA Columns ==
  ASSUME TypeOK, NEW m \in Msg
  PROVE  /\ row[m] \in Row
         /\ row[m].status \in {"ABSENT", "PENDING", "PROCESSING", "FAILED"} \union Settled
         /\ row[m].attempts \in Nat /\ row[m].due \in BOOLEAN /\ row[m].lapsed \in BOOLEAN
BY DEF TypeOK, Row

\* A dispatcher holds claims, and the messages of claims are messages.
LEMMA Holding ==
  ASSUME TypeOK, NEW w \in Worker, NEW c \in Held(w)
  PROVE  c \in Claim /\ c.msg \in Msg /\ c.attempt \in Nat
BY DEF TypeOK, Held, Claim

LEMMA FaultsTyped == ASSUME TypeOK, Fault \/ NoFault PROVE faults' \in 0..MaxFaults
BY OutboxAssumption DEF TypeOK, Fault, NoFault

\* Claims are only taken over or dropped, and attempts only grow.
Shrinks == \A w \in Worker : Held(w)' \subseteq Held(w)
Counts  == \A m \in Msg : row'[m].attempts = row[m].attempts

\* Steps that neither claim nor count keep the facts about claims.
LEMMA KeepClaims ==
  ASSUME TypeOK, ClaimsAreCounted, ClaimsIdentify, Shrinks, Counts
  PROVE  ClaimsAreCounted' /\ ClaimsIdentify'
<1>1. ClaimsAreCounted'
  <2> SUFFICES ASSUME NEW w \in Worker, NEW c \in Held(w)'
               PROVE  c.attempt <= row'[c.msg].attempts
    BY DEF ClaimsAreCounted
  <2>1. c \in Held(w)
    BY DEF Shrinks
  <2>2. c.msg \in Msg
    BY <2>1, Holding
  <2> QED
    BY <2>1, <2>2 DEF ClaimsAreCounted, Counts
<1>2. ClaimsIdentify'
  BY DEF ClaimsIdentify, Shrinks
<1> QED
  BY <1>1, <1>2

\* Dropping a batch, and going on with it.
LEMMA Releases ==
  ASSUME TypeOK, NEW w \in Worker, Drop(w) \/ Proceed(w)
  PROVE  /\ Shrinks
         /\ pc' \in [Worker -> {"idle", "next", "mark", "fail"}]
         /\ batch' \in [Worker -> SUBSET Claim] /\ current' \in [Worker -> SUBSET Claim]
         /\ pc'[w] # "mark"
         /\ \A v \in Worker \ {w} : pc'[v] = pc[v] /\ current'[v] = current[v]
<1>1. /\ pc' \in [Worker -> {"idle", "next", "mark", "fail"}]
      /\ batch' \in [Worker -> SUBSET Claim] /\ current' \in [Worker -> SUBSET Claim]
      /\ pc'[w] # "mark"
      /\ \A v \in Worker \ {w} : pc'[v] = pc[v] /\ current'[v] = current[v]
  BY DEF Drop, Proceed, TypeOK
<1>2. Shrinks
  BY DEF Drop, Proceed, TypeOK, Shrinks, Held
<1> QED
  BY <1>1, <1>2

\* After that, a message that is about to be marked is still queued.
LEMMA KeepMarked ==
  ASSUME MarkedIsQueued, NEW w \in Worker, queued \subseteq queued',
         pc'[w] # "mark",
         \A v \in Worker \ {w} : pc'[v] = pc[v] /\ current'[v] = current[v]
  PROVE  MarkedIsQueued'
<1> SUFFICES ASSUME NEW v \in Worker, pc'[v] = "mark", NEW c \in current'[v]
             PROVE  c.msg \in queued'
  BY DEF MarkedIsQueued
<1>1. v # w
  OBVIOUS
<1> QED
  BY <1>1 DEF MarkedIsQueued

-----------------------------------------------------------------------------

LEMMA InitInv == Init => IInv
BY OutboxAssumption DEF Init, IInv, TypeOK, Row, Settled, PublishedIsQueued, DeadLetterIsExhausted,
   MarkedIsQueued, ClaimsAreCounted, ClaimsIdentify, Held

\* A change of one row that neither settles it nor counts, and is made by
\* nobody in particular: an insertion, or the passing of time.
LEMMA RowOnly ==
  ASSUME IInv, NEW m \in Msg, NEW r \in Row, row' = [row EXCEPT ![m] = r],
         r.attempts = row[m].attempts,
         r.status \in Settled => r.status = row[m].status,
         UNCHANGED <<queued, pc, batch, current>>, faults' \in 0..MaxFaults
  PROVE  IInv'
<1>0. TypeOK /\ ClaimsAreCounted /\ ClaimsIdentify /\ MarkedIsQueued
  BY DEF IInv
<1>1. row' \in [Msg -> Row] /\ row'[m] = r /\ \A k \in Msg \ {m} : row'[k] = row[k]
  BY <1>0, UpdateRow
<1>2. TypeOK'
  BY <1>0, <1>1 DEF TypeOK
<1>3. Shrinks /\ Counts
  BY <1>1 DEF Shrinks, Counts, Held
<1>4. PublishedIsQueued' /\ DeadLetterIsExhausted'
  BY <1>1 DEF IInv, PublishedIsQueued, DeadLetterIsExhausted, Settled
<1>5. MarkedIsQueued'
  BY <1>0 DEF MarkedIsQueued
<1> QED
  BY <1>0, <1>2, <1>3, <1>4, <1>5, KeepClaims DEF IInv

LEMMA InsertInv == ASSUME IInv, NEW m \in Msg, InsertOutbox(m) PROVE IInv'
<1> DEFINE r == [row[m] EXCEPT !.status = "PENDING"]
<1>0. TypeOK
  BY DEF IInv
<1>1. /\ r \in Row /\ r.attempts = row[m].attempts /\ r.status \notin Settled
  BY <1>0, Columns DEF Row, Settled
<1>2. row' = [row EXCEPT ![m] = r]
  BY DEF InsertOutbox
<1>3. UNCHANGED <<queued, pc, batch, current>> /\ faults' \in 0..MaxFaults
  BY <1>0 DEF InsertOutbox, TypeOK
<1> HIDE DEF r
<1> QED
  BY <1>1, <1>2, <1>3, RowOnly

LEMMA DueInv == ASSUME IInv, NEW m \in Msg, BecomesDue(m) PROVE IInv'
<1> DEFINE r == [row[m] EXCEPT !.due = TRUE]
<1>0. TypeOK
  BY DEF IInv
<1>1. /\ r \in Row /\ r.attempts = row[m].attempts /\ r.status = row[m].status
  BY <1>0, Columns DEF Row
<1>2. row' = [row EXCEPT ![m] = r]
  BY DEF BecomesDue
<1>3. UNCHANGED <<queued, pc, batch, current>> /\ faults' \in 0..MaxFaults
  BY <1>0 DEF BecomesDue, TypeOK
<1> HIDE DEF r
<1> QED
  BY <1>1, <1>2, <1>3, RowOnly

LEMMA LapseInv == ASSUME IInv, NEW m \in Msg, LockLapses(m) PROVE IInv'
<1> DEFINE r == [row[m] EXCEPT !.lapsed = TRUE]
<1>0. TypeOK
  BY DEF IInv
<1>1. /\ r \in Row /\ r.attempts = row[m].attempts /\ r.status = row[m].status
  BY <1>0, Columns DEF Row
<1>2. row' = [row EXCEPT ![m] = r]
  BY DEF LockLapses
<1>3. UNCHANGED <<queued, pc, batch, current>> /\ (Fault \/ NoFault)
  BY DEF LockLapses
<1>4. faults' \in 0..MaxFaults
  BY <1>0, <1>3, FaultsTyped
<1> HIDE DEF r
<1> QED
  BY <1>1, <1>2, <1>3, <1>4, RowOnly

LEMMA CrashInv == ASSUME IInv, NEW w \in Worker, Crash(w) PROVE IInv'
<1>0. TypeOK /\ ClaimsAreCounted /\ ClaimsIdentify /\ MarkedIsQueued
  BY DEF IInv
<1>1. Drop(w) /\ UNCHANGED <<row, queued>> /\ Fault
  BY DEF Crash
<1>2. faults' \in 0..MaxFaults
  BY <1>0, <1>1, FaultsTyped
<1>3. TypeOK'
  BY <1>0, <1>1, <1>2, Releases DEF TypeOK
<1>4. Shrinks /\ Counts
  BY <1>0, <1>1, Releases DEF Counts
<1>5. MarkedIsQueued'
  BY <1>0, <1>1, Releases, KeepMarked
<1>6. PublishedIsQueued' /\ DeadLetterIsExhausted'
  BY <1>1 DEF IInv, PublishedIsQueued, DeadLetterIsExhausted
<1> QED
  BY <1>0, <1>3, <1>4, <1>5, <1>6, KeepClaims DEF IInv

-----------------------------------------------------------------------------

LEMMA AddInv == ASSUME IInv, NEW w \in Worker, NEW c \in Held(w), Add(w, c) PROVE IInv'
<1>0. TypeOK /\ ClaimsAreCounted /\ ClaimsIdentify /\ MarkedIsQueued
  BY DEF IInv
<1>1. c \in Claim /\ c.msg \in Msg
  BY <1>0, Holding
<1>2. /\ batch' \in [Worker -> SUBSET Claim] /\ current' \in [Worker -> SUBSET Claim]
      /\ pc' \in [Worker -> {"idle", "next", "mark", "fail"}]
      /\ queued' \subseteq Msg /\ queued \subseteq queued'
      /\ UNCHANGED row
  BY <1>0, <1>1 DEF Add, TypeOK
<1>3. faults' \in 0..MaxFaults
  BY <1>0, FaultsTyped DEF Add
<1>4. TypeOK'
  BY <1>0, <1>2, <1>3 DEF TypeOK
<1>5. Shrinks /\ Counts
  BY <1>0, <1>2 DEF Add, Shrinks, Counts, Held, TypeOK
<1>6. MarkedIsQueued'
  <2> SUFFICES ASSUME NEW v \in Worker, pc'[v] = "mark", NEW d \in current'[v]
               PROVE  d.msg \in queued'
    BY DEF MarkedIsQueued
  <2>1. CASE v = w
    BY <1>0, <2>1 DEF Add, TypeOK
  <2>2. CASE v # w
    BY <1>0, <1>2, <2>2 DEF Add, TypeOK, MarkedIsQueued
  <2> QED
    BY <2>1, <2>2
<1>7. PublishedIsQueued' /\ DeadLetterIsExhausted'
  BY <1>2 DEF IInv, PublishedIsQueued, DeadLetterIsExhausted
<1> QED
  BY <1>0, <1>4, <1>5, <1>6, <1>7, KeepClaims DEF IInv

\* What WritePublished and WriteFailed do to the rows.
LEMMA PublishedRow ==
  ASSUME TypeOK, NEW c \in Claim, WritePublished(c)
  PROVE  /\ row' \in [Msg -> Row] /\ Counts
         /\ row'[c.msg].status = "PUBLISHED"
         /\ \A k \in Msg \ {c.msg} : row'[k] = row[k]
<1> DEFINE r == [row[c.msg] EXCEPT !.status = "PUBLISHED", !.lapsed = FALSE]
<1>1. c.msg \in Msg
  BY DEF Claim
<1>2. r \in Row /\ r.attempts = row[c.msg].attempts /\ r.status = "PUBLISHED"
  BY <1>1, Columns DEF Row, Settled
<1>3. row' = [row EXCEPT ![c.msg] = r]
  BY DEF WritePublished
<1> HIDE DEF r
<1>4. /\ row' \in [Msg -> Row] /\ row'[c.msg] = r
      /\ \A k \in Msg \ {c.msg} : row'[k] = row[k]
  BY <1>1, <1>2, <1>3, UpdateRow
<1> QED
  BY <1>1, <1>2, <1>4 DEF Counts

LEMMA FailedRow ==
  ASSUME TypeOK, NEW c \in Claim, WriteFailed(c)
  PROVE  /\ row' \in [Msg -> Row] /\ Counts
         /\ row'[c.msg].status = FailedStatus(c.attempt)
         /\ \A k \in Msg \ {c.msg} : row'[k] = row[k]
<1> DEFINE r == [row[c.msg] EXCEPT !.status = FailedStatus(c.attempt), !.due = FALSE,
                                   !.lapsed = FALSE]
<1>1. c.msg \in Msg
  BY DEF Claim
<1>2. r \in Row /\ r.attempts = row[c.msg].attempts /\ r.status = FailedStatus(c.attempt)
  BY <1>1, Columns DEF Row, Settled, FailedStatus
<1>3. row' = [row EXCEPT ![c.msg] = r]
  BY DEF WriteFailed
<1> HIDE DEF r
<1>4. /\ row' \in [Msg -> Row] /\ row'[c.msg] = r
      /\ \A k \in Msg \ {c.msg} : row'[k] = row[k]
  BY <1>1, <1>2, <1>3, UpdateRow
<1> QED
  BY <1>1, <1>2, <1>4 DEF Counts

LEMMA MarkInv == ASSUME IInv, NEW w \in Worker, NEW c \in Held(w), MarkOutboxPublished(w, c)
                 PROVE  IInv'
<1>0. TypeOK /\ ClaimsAreCounted /\ ClaimsIdentify /\ MarkedIsQueued /\ PublishedIsQueued
      /\ DeadLetterIsExhausted
  BY DEF IInv
<1>1. c \in Claim /\ c.msg \in Msg /\ c.msg \in queued /\ UNCHANGED queued
  BY <1>0, Holding DEF MarkOutboxPublished, MarkedIsQueued
<1>2. /\ row' \in [Msg -> Row] /\ Counts
      /\ \A k \in Msg : row'[k].status = row[k].status \/ (row'[k].status = "PUBLISHED" /\ k \in queued)
  <2>1. CASE WritePublished(c)
    BY <1>0, <1>1, <2>1, PublishedRow
  <2>2. CASE UNCHANGED row
    BY <1>0, <2>2 DEF TypeOK, Counts
  <2> QED
    BY <2>1, <2>2 DEF MarkOutboxPublished
<1>3. faults' \in 0..MaxFaults
  BY <1>0, FaultsTyped DEF MarkOutboxPublished
<1>4. /\ Shrinks /\ pc'[w] # "mark"
      /\ pc' \in [Worker -> {"idle", "next", "mark", "fail"}]
      /\ batch' \in [Worker -> SUBSET Claim] /\ current' \in [Worker -> SUBSET Claim]
      /\ \A v \in Worker \ {w} : pc'[v] = pc[v] /\ current'[v] = current[v]
  <2>1. CASE Proceed(w)
    BY <1>0, <2>1, Releases
  <2>2. CASE pc' = [pc EXCEPT ![w] = "fail"] /\ UNCHANGED <<batch, current>>
    BY <1>0, <2>2 DEF TypeOK, Shrinks, Held
  <2> QED
    BY <2>1, <2>2 DEF MarkOutboxPublished
<1>5. TypeOK'
  BY <1>0, <1>1, <1>2, <1>3, <1>4 DEF TypeOK
<1>6. PublishedIsQueued' /\ DeadLetterIsExhausted'
  BY <1>0, <1>1, <1>2 DEF PublishedIsQueued, DeadLetterIsExhausted, Counts
<1>7. MarkedIsQueued'
  BY <1>0, <1>1, <1>4, KeepMarked
<1> QED
  BY <1>0, <1>2, <1>4, <1>5, <1>6, <1>7, KeepClaims DEF IInv

LEMMA FailInv == ASSUME IInv, NEW w \in Worker, NEW c \in Held(w), MarkOutboxFailed(w, c)
                 PROVE  IInv'
<1>0. TypeOK /\ ClaimsAreCounted /\ ClaimsIdentify /\ MarkedIsQueued /\ PublishedIsQueued
      /\ DeadLetterIsExhausted
  BY DEF IInv
<1>1. /\ c \in Claim /\ c.msg \in Msg /\ c.attempt \in Nat /\ UNCHANGED queued
      /\ c.attempt <= row[c.msg].attempts /\ row[c.msg].attempts \in Nat
  BY <1>0, Holding, Columns DEF MarkOutboxFailed, ClaimsAreCounted
<1>2. /\ row' \in [Msg -> Row] /\ Counts
      /\ \A k \in Msg : \/ row'[k].status = row[k].status
                        \/ row'[k].status = "FAILED"
                        \/ row'[k].status = "DEAD_LETTER" /\ row[k].attempts >= MaxAttempts
  <2>1. CASE WriteFailed(c)
    <3>1. /\ row' \in [Msg -> Row] /\ Counts /\ row'[c.msg].status = FailedStatus(c.attempt)
          /\ \A k \in Msg \ {c.msg} : row'[k] = row[k]
      BY <1>0, <1>1, <2>1, FailedRow
    <3>2. FailedStatus(c.attempt) = "DEAD_LETTER" => row[c.msg].attempts >= MaxAttempts
      BY <1>1, OutboxAssumption DEF FailedStatus
    <3> QED
      BY <3>1, <3>2 DEF FailedStatus
  <2>2. CASE UNCHANGED row
    BY <1>0, <2>2 DEF TypeOK, Counts
  <2> QED
    BY <2>1, <2>2 DEF MarkOutboxFailed
<1>3. faults' \in 0..MaxFaults
  BY <1>0, FaultsTyped DEF MarkOutboxFailed
<1>4. /\ Shrinks /\ pc'[w] # "mark"
      /\ pc' \in [Worker -> {"idle", "next", "mark", "fail"}]
      /\ batch' \in [Worker -> SUBSET Claim] /\ current' \in [Worker -> SUBSET Claim]
      /\ \A v \in Worker \ {w} : pc'[v] = pc[v] /\ current'[v] = current[v]
  BY <1>0, Releases DEF MarkOutboxFailed
<1>5. TypeOK'
  BY <1>0, <1>1, <1>2, <1>3, <1>4 DEF TypeOK
<1>6. PublishedIsQueued' /\ DeadLetterIsExhausted'
  BY <1>0, <1>1, <1>2 DEF PublishedIsQueued, DeadLetterIsExhausted, Counts
<1>7. MarkedIsQueued'
  BY <1>0, <1>1, <1>4, KeepMarked
<1> QED
  BY <1>0, <1>2, <1>4, <1>5, <1>6, <1>7, KeepClaims DEF IInv

-----------------------------------------------------------------------------

\* What a claim does to its row.
LEMMA LockedRow ==
  ASSUME NEW r \in Row
  PROVE  /\ LockRow(r) \in Row /\ LockRow(r).attempts = r.attempts + 1
         /\ LockRow(r).status = "PROCESSING"
<1>1. r.attempts \in Nat /\ r.attempts + 1 \in Nat
  BY DEF Row
<1> QED
  BY <1>1 DEF LockRow, Row

LEMMA ClaimInv == ASSUME IInv, NEW w \in Worker, ClaimOutboxBatch(w) PROVE IInv'
<1> DEFINE claimed == Oldest({m \in Msg : Claimable(m)})
           taken   == {[msg |-> m, attempt |-> row'[m].attempts] : m \in claimed}
<1>0. TypeOK /\ ClaimsAreCounted /\ ClaimsIdentify /\ MarkedIsQueued /\ PublishedIsQueued
      /\ DeadLetterIsExhausted
  BY DEF IInv
<1>1. claimed \subseteq Msg
  BY DEF Oldest
<1>2. /\ row' = [m \in Msg |-> IF m \in claimed THEN LockRow(row[m]) ELSE row[m]]
      /\ UNCHANGED <<queued, current>>
      /\ \/ batch' = [batch EXCEPT ![w] = taken] /\ pc' = [pc EXCEPT ![w] = "next"] /\ NoFault
         \/ UNCHANGED <<batch, pc>> /\ Fault
  BY DEF ClaimOutboxBatch
<1> HIDE DEF claimed
<1>3. \A m \in claimed : /\ row'[m] \in Row /\ row'[m].attempts = row[m].attempts + 1
                         /\ row'[m].status = "PROCESSING"
  <2> SUFFICES ASSUME NEW m \in claimed
               PROVE  /\ row'[m] \in Row /\ row'[m].attempts = row[m].attempts + 1
                      /\ row'[m].status = "PROCESSING"
    OBVIOUS
  <2>1. m \in Msg /\ row'[m] = LockRow(row[m])
    BY <1>1, <1>2
  <2> QED
    BY <1>0, <2>1, Columns, LockedRow
<1>4. \A m \in Msg \ claimed : row'[m] = row[m]
  BY <1>2
<1>5. row' \in [Msg -> Row]
  BY <1>0, <1>2, <1>3, <1>4 DEF TypeOK
<1>6. taken \subseteq Claim
  <2> SUFFICES ASSUME NEW m \in claimed PROVE [msg |-> m, attempt |-> row'[m].attempts] \in Claim
    OBVIOUS
  <2>1. m \in Msg /\ row'[m].attempts \in Nat
    BY <1>1, <1>3 DEF Row
  <2> QED
    BY <2>1 DEF Claim
<1> HIDE DEF taken
<1>7. TypeOK'
  <2>1. faults' \in 0..MaxFaults
    BY <1>0, <1>2, FaultsTyped
  <2> QED
    BY <1>0, <1>2, <1>5, <1>6, <2>1 DEF TypeOK
<1>8. PublishedIsQueued' /\ DeadLetterIsExhausted'
  <2> SUFFICES ASSUME NEW m \in Msg
               PROVE  /\ row'[m].status = "PUBLISHED" => m \in queued'
                      /\ row'[m].status = "DEAD_LETTER" => row'[m].attempts >= MaxAttempts
    BY DEF PublishedIsQueued, DeadLetterIsExhausted
  <2>1. CASE m \in claimed
    BY <1>3, <2>1
  <2>2. CASE m \notin claimed
    BY <1>0, <1>2, <1>4, <2>2 DEF PublishedIsQueued, DeadLetterIsExhausted
  <2> QED
    BY <2>1, <2>2
<1>9. MarkedIsQueued'
  BY <1>0, <1>2 DEF MarkedIsQueued, TypeOK
<1>10. \A v \in Worker : \A c \in Held(v)' :
         \/ c \in Held(v)
         \/ v = w /\ c \in taken
  BY <1>0, <1>2 DEF Held, TypeOK
<1>11. \A c \in taken : c.msg \in claimed /\ c.attempt = row[c.msg].attempts + 1
                        /\ c = [msg |-> c.msg, attempt |-> row'[c.msg].attempts]
  BY <1>3 DEF taken
<1>12. \A v \in Worker : \A c \in Held(v) :
         c.msg \in Msg /\ c.attempt \in Nat /\ c.attempt <= row[c.msg].attempts
         /\ row[c.msg].attempts \in Nat
  BY <1>0, Holding, Columns DEF ClaimsAreCounted
<1>13. \A m \in Msg : row[m].attempts <= row'[m].attempts /\ row[m].attempts \in Nat
                      /\ row'[m].attempts \in Nat
  BY <1>0, <1>1, <1>3, <1>4, Columns
<1>14. ClaimsAreCounted'
  <2> SUFFICES ASSUME NEW v \in Worker, NEW c \in Held(v)'
               PROVE  c.attempt <= row'[c.msg].attempts
    BY DEF ClaimsAreCounted
  <2>1. CASE c \in Held(v)
    BY <1>12, <1>13, <2>1
  <2>2. CASE c \in taken
    BY <1>1, <1>3, <1>11, <1>13, <2>2
  <2> QED
    BY <1>10, <2>1, <2>2
<1>15. ClaimsIdentify'
  <2> SUFFICES ASSUME NEW u \in Worker, NEW v \in Worker, NEW c \in Held(u)', NEW d \in Held(v)',
                      c.msg = d.msg, c.attempt = d.attempt
               PROVE  u = v /\ c = d
    BY DEF ClaimsIdentify
  <2>1. CASE c \in Held(u) /\ d \in Held(v)
    BY <1>0, <2>1 DEF ClaimsIdentify
  <2>2. CASE c \in taken /\ d \in taken /\ u = w /\ v = w
    BY <1>11, <2>2
  <2>3. CASE c \in Held(u) /\ d \in taken
    BY <1>11, <1>12, <2>3
  <2>4. CASE c \in taken /\ d \in Held(v)
    BY <1>11, <1>12, <2>4
  <2> QED
    BY <1>10, <2>1, <2>2, <2>3, <2>4
<1> QED
  BY <1>7, <1>8, <1>9, <1>14, <1>15 DEF IInv

LEMMA NextInv == ASSUME IInv, [Next]_vars PROVE IInv'
<1>1. CASE UNCHANGED vars
  <2>1. TypeOK' /\ PublishedIsQueued' /\ DeadLetterIsExhausted' /\ MarkedIsQueued'
    BY <1>1 DEF vars, IInv, TypeOK, PublishedIsQueued, DeadLetterIsExhausted, MarkedIsQueued
  <2>2. ClaimsAreCounted' /\ ClaimsIdentify'
    BY <1>1 DEF vars, IInv, ClaimsAreCounted, ClaimsIdentify, Held
  <2> QED
    BY <2>1, <2>2 DEF IInv
<1>2. CASE Next
  BY <1>2, InsertInv, DueInv, LapseInv, CrashInv, AddInv, MarkInv, FailInv, ClaimInv
     DEF Next, DispatcherStep
<1> QED
  BY <1>1, <1>2

LEMMA Inductive == Spec => []IInv
BY InitInv, NextInv, PTL DEF Spec

-----------------------------------------------------------------------------

\* The variables of the outbox and of its dispatchers keep their types.
THEOREM OutboxTypes == Spec => []TypeOK
<1>1. IInv => TypeOK
  BY DEF IInv
<1> QED
  BY <1>1, Inductive, PTL

\* However many dispatchers with lapsed locks write a row, PUBLISHED means
\* that a queue has accepted the job.
THEOREM PublishedWasQueued == Spec => []PublishedIsQueued
<1>1. IInv => PublishedIsQueued
  BY DEF IInv
<1> QED
  BY <1>1, Inductive, PTL

\* No interleaving gives a message up before OUTBOX_MAX_ATTEMPTS claims.
THEOREM DeadLetterWasExhausted == Spec => []DeadLetterIsExhausted
<1>1. IInv => DeadLetterIsExhausted
  BY DEF IInv
<1> QED
  BY <1>1, Inductive, PTL

\* The attempts counter tells the claims of all dispatchers apart.
THEOREM ClaimsDistinct == Spec => []ClaimsAreDistinct
<1>1. IInv => ClaimsAreDistinct
  BY DEF IInv, ClaimsAreDistinct, ClaimsAreCounted, ClaimsIdentify
<1> QED
  BY <1>1, Inductive, PTL
=============================================================================
