-------------------------- MODULE MailOutboxProofs ---------------------------
(***************************************************************************)
(* Theorems about the mail queue, for any set of mails, any number of      *)
(* workers and any batch limit.                                            *)
(***************************************************************************)
EXTENDS MailOutbox, TLAPS

(* A batch is made of rows the claim was allowed to see.                   *)
LEMMA BatchIsClaimable ==
  ASSUME NEW rows, NEW limit
  PROVE  OldestFirst(rows, limit) \subseteq rows
  BY DEF OldestFirst

(* The types of the columns of a row, and of the variables of a worker.    *)
RowsOK ==
  /\ status    \in [Mails -> Statuses]
  /\ lastError \in [Mails -> Errors]
  /\ attempts  \in [Mails -> 0 .. MaxAttempts]
  /\ aged      \in SUBSET Mails

WorkersOK ==
  /\ pc   \in [Workers -> Phases]
  /\ todo \in [Workers -> SUBSET Mails]
  /\ cur  \in [Workers -> Mails \cup {NoMail}]

(* A recording call, successful or not, leaves well-typed rows.            *)
LEMMA RecordingKeepsRows ==
  ASSUME RowsOK, NEW m, MarkMailSent(m) \/ MarkMailFailed(m) \/ RecordingFails(m)
  PROVE  RowsOK'
<1> USE DEF RowsOK, Statuses, Errors
<1>1. CASE MarkMailSent(m)
  BY <1>1 DEF MarkMailSent
<1>2. CASE MarkMailFailed(m)
  BY <1>2 DEF MarkMailFailed
<1>3. CASE RecordingFails(m)
  BY <1>3 DEF RecordingFails, rowVars
<1> QED
  BY <1>1, <1>2, <1>3

(* Going to the next row leaves well-typed workers.                        *)
LEMMA NextRowKeepsWorkers ==
  ASSUME WorkersOK, NEW w \in Workers, NEW m, NEW loop \in {"send", "fail_all"},
         NextRow(w, m, loop)
  PROVE  WorkersOK'
BY DEF WorkersOK, NextRow, Phases

(* Every step keeps the variables in their types.                          *)
LEMMA TypeStep ==
  ASSUME TypeOK, [Next]_vars
  PROVE  TypeOK'
<1> USE DEF TypeOK, Statuses, Errors, Phases
<1>0. MaxAttempts \in Nat
  BY MailOutboxAssumption DEF MailOutboxAssumption
<1>1. ASSUME NEW m \in Mails, QueueMail(m)
      PROVE  TypeOK'
  BY <1>1 DEF QueueMail, workerVars
<1>2. ASSUME NEW m \in Mails, Age(m)
      PROVE  TypeOK'
  BY <1>2 DEF Age, workerVars
<1>3. ASSUME NEW w \in Workers, NEW rf \in BOOLEAN, NEW ru \in BOOLEAN, Claim(w, rf, ru)
      PROVE  TypeOK'
  <2>1. PICK locked \in SUBSET Claimable(rf, ru) :
          LET batch == OldestFirst(Claimable(rf, ru) \ locked, BatchLimit)
          IN  /\ status'   = [m \in Mails |-> IF m \in batch THEN "sending" ELSE status[m]]
              /\ attempts' = [m \in Mails |-> IF m \in batch THEN attempts[m] + 1
                                                             ELSE attempts[m]]
              /\ aged'     = aged \ batch
              /\ todo'     = [todo EXCEPT ![w] = batch]
              /\ UNCHANGED lastError
    BY <1>3 DEF Claim, ClaimMailBatch
  <2> DEFINE batch == OldestFirst(Claimable(rf, ru) \ locked, BatchLimit)
  <2>2. batch \subseteq Claimable(rf, ru)
    BY BatchIsClaimable
  <2>3. batch \subseteq Mails /\ \A m \in batch : attempts[m] < MaxAttempts
    BY <2>2 DEF Claimable
  <2>4. status' \in [Mails -> Statuses] /\ aged' \in SUBSET Mails /\ lastError' = lastError
    BY <2>1
  <2>5. attempts' \in [Mails -> 0 .. MaxAttempts]
    <3>1. ASSUME NEW m \in Mails
          PROVE  (IF m \in batch THEN attempts[m] + 1 ELSE attempts[m]) \in 0 .. MaxAttempts
      <4>1. attempts[m] \in 0 .. MaxAttempts
        OBVIOUS
      <4>2. m \in batch => attempts[m] < MaxAttempts
        BY <2>3
      <4> HIDE DEF batch
      <4> QED BY ONLY <1>0, <4>1, <4>2
    <3> QED BY <2>1, <3>1
  <2>6. todo' \in [Workers -> SUBSET Mails]
    BY <2>1, <2>3
  <2>7. pc' \in [Workers -> Phases] /\ cur' = cur /\ accepted' = accepted
    BY <1>3 DEF Claim
  <2> QED BY <2>4, <2>5, <2>6, <2>7
<1>4. ASSUME NEW w \in Workers, Connect(w)
      PROVE  TypeOK'
  BY <1>4 DEF Connect, rowVars
<1>5. ASSUME NEW w \in Workers, FailUnsentRow(w)
      PROVE  TypeOK'
  <2>1. PICK m \in todo[w] : /\ MarkMailFailed(m) \/ RecordingFails(m)
                             /\ NextRow(w, m, "fail_all")
    BY <1>5 DEF FailUnsentRow
  <2>2. RowsOK' /\ WorkersOK'
    BY <2>1, RecordingKeepsRows, NextRowKeepsWorkers DEF RowsOK, WorkersOK
  <2> QED BY <1>5, <2>2 DEF FailUnsentRow, RowsOK, WorkersOK
<1>6. ASSUME NEW w \in Workers, SendMessage(w)
      PROVE  TypeOK'
  <2>1. PICK m \in todo[w], raised \in BOOLEAN, taken \in BOOLEAN :
          /\ cur' = [cur EXCEPT ![w] = m]
          /\ pc'  = [pc EXCEPT ![w] = IF raised THEN "record_failed" ELSE "record_sent"]
          /\ accepted' = IF taken THEN [accepted EXCEPT ![m] = @ + 1] ELSE accepted
    BY <1>6 DEF SendMessage
  <2>2. m \in Mails
    BY <2>1
  <2>3. accepted' \in [Mails -> Nat]
    <3>1. accepted[m] \in Nat
      BY <2>2
    <3>2. accepted[m] + 1 \in Nat
      BY ONLY <3>1
    <3> QED BY <2>1, <3>2
  <2>4. cur' \in [Workers -> Mails \cup {NoMail}] /\ pc' \in [Workers -> Phases]
    BY <2>1, <2>2
  <2> QED BY <1>6, <2>3, <2>4 DEF SendMessage, rowVars
<1>7. ASSUME NEW w \in Workers, RecordSent(w)
      PROVE  TypeOK'
  <2>1. RowsOK' /\ WorkersOK'
    BY <1>7, RecordingKeepsRows, NextRowKeepsWorkers DEF RecordSent, RowsOK, WorkersOK
  <2> QED BY <1>7, <2>1 DEF RecordSent, RowsOK, WorkersOK
<1>8. ASSUME NEW w \in Workers, RecordFailed(w)
      PROVE  TypeOK'
  <2>1. RowsOK' /\ WorkersOK'
    BY <1>8, RecordingKeepsRows, NextRowKeepsWorkers DEF RecordFailed, RowsOK, WorkersOK
  <2> QED BY <1>8, <2>1 DEF RecordFailed, RowsOK, WorkersOK
<1>9. ASSUME NEW w \in Workers, Crash(w)
      PROVE  TypeOK'
  BY <1>9 DEF Crash, rowVars
<1>10. CASE ReclaimStaleMail
  <2> DEFINE stale == { m \in aged : status[m] = "sending" }
  <2>1. /\ status'    = [m \in Mails |-> IF m \in stale THEN "failed" ELSE status[m]]
        /\ lastError' = [m \in Mails |-> IF m \in stale THEN "[unconfirmed]"
                                                        ELSE lastError[m]]
        /\ aged'      = aged \ stale
        /\ UNCHANGED <<attempts, workerVars, accepted>>
    BY <1>10 DEF ReclaimStaleMail
  <2> HIDE DEF stale
  <2> QED BY <2>1 DEF workerVars
<1>11. CASE UNCHANGED vars
  BY <1>11 DEF vars
<1> QED
  BY <1>1, <1>2, <1>3, <1>4, <1>5, <1>6, <1>7, <1>8, <1>9, <1>10, <1>11 DEF Next, WorkerStep

(* Empty tables and idle workers are well-typed.                           *)
LEMMA TypeInit ==
  ASSUME Init
  PROVE  TypeOK
<1>1. status \in [Mails -> Statuses]
  BY Zenon DEF Init, Statuses
<1>2. lastError \in [Mails -> Errors] /\ aged \in SUBSET Mails
  BY Zenon DEF Init, Errors
<1>3. attempts \in [Mails -> 0 .. MaxAttempts] /\ accepted \in [Mails -> Nat]
  <2>1. 0 \in 0 .. MaxAttempts /\ 0 \in Nat
    BY MailOutboxAssumption DEF MailOutboxAssumption
  <2> QED BY <2>1, Zenon DEF Init
<1>4. /\ pc   \in [Workers -> Phases]
      /\ todo \in [Workers -> SUBSET Mails]
      /\ cur  \in [Workers -> Mails \cup {NoMail}]
  BY Zenon DEF Init, Phases
<1> QED
  BY <1>1, <1>2, <1>3, <1>4 DEF TypeOK

(* The values of the variables stay in their types: in particular the      *)
(* bound on attempts is respected and workers hold existing rows only.     *)
THEOREM TypeCorrect == Spec => []TypeOK
<1>1. Init => TypeOK
  BY TypeInit
<1>2. TypeOK /\ [Next]_vars => TypeOK'
  BY TypeStep
<1> QED
  BY <1>1, <1>2, PTL DEF Spec

-----------------------------------------------------------------------------
(* What one step may do to the status and the attempts of a row; entering  *)
(* sent needs a worker that has just seen its mail accepted.               *)
RowStep(m) ==
  /\ status'[m] # status[m] => <<status[m], status'[m]>> \in LegalTransitions
  /\ attempts'[m] >= attempts[m]
  /\ status'[m] = "sent" /\ status[m] # "sent" =>
       \E w \in Workers : pc[w] = "record_sent" /\ cur[w] = m

LEMMA UnchangedRowStep ==
  ASSUME TypeOK, NEW m \in Mails, status'[m] = status[m], attempts'[m] = attempts[m]
  PROVE  RowStep(m)
<1>1. attempts[m] \in Nat
  BY DEF TypeOK
<1>2. attempts'[m] >= attempts[m]
  BY <1>1
<1> QED
  BY <1>2 DEF RowStep

(* A failed or refused recording does not make a row sent.                 *)
LEMMA FailedRecordingRowStep ==
  ASSUME TypeOK, NEW k, MarkMailFailed(k) \/ RecordingFails(k), NEW m \in Mails
  PROVE  RowStep(m)
<1>1. attempts'[m] = attempts[m]
  BY DEF MarkMailFailed, RecordingFails, rowVars
<1>2. status'[m] = status[m] \/ (status[m] = "sending" /\ status'[m] = "failed")
  BY DEF MarkMailFailed, RecordingFails, rowVars, TypeOK
<1>3. attempts[m] \in Nat
  BY DEF TypeOK
<1>4. attempts'[m] >= attempts[m]
  BY <1>1, <1>3
<1> QED
  BY <1>2, <1>4 DEF RowStep, LegalTransitions

LEMMA EveryRowStep ==
  ASSUME TypeOK, [Next]_vars, NEW m \in Mails
  PROVE  RowStep(m)
<1>0. attempts[m] \in Nat
  BY DEF TypeOK
<1>1. ASSUME NEW k \in Mails, QueueMail(k)
      PROVE  RowStep(m)
  <2>1. attempts' = attempts /\ (status'[m] = status[m] \/
                                 (status[m] = "none" /\ status'[m] = "queued"))
    BY <1>1 DEF QueueMail, TypeOK
  <2>2. attempts'[m] >= attempts[m]
    BY <2>1, <1>0
  <2> QED BY <2>1, <2>2 DEF RowStep, LegalTransitions
<1>2. ASSUME NEW k \in Mails, Age(k)
      PROVE  RowStep(m)
  BY <1>2, UnchangedRowStep DEF Age
<1>3. ASSUME NEW w \in Workers, NEW rf \in BOOLEAN, NEW ru \in BOOLEAN, Claim(w, rf, ru)
      PROVE  RowStep(m)
  <2>1. PICK locked \in SUBSET Claimable(rf, ru) :
          LET batch == OldestFirst(Claimable(rf, ru) \ locked, BatchLimit)
          IN  /\ status'   = [n \in Mails |-> IF n \in batch THEN "sending" ELSE status[n]]
              /\ attempts' = [n \in Mails |-> IF n \in batch THEN attempts[n] + 1
                                                             ELSE attempts[n]]
    BY <1>3 DEF Claim, ClaimMailBatch
  <2> DEFINE batch == OldestFirst(Claimable(rf, ru) \ locked, BatchLimit)
  <2>2. batch \subseteq Claimable(rf, ru)
    BY BatchIsClaimable
  <2>3. m \in batch => status[m] \in {"queued", "failed"}
    BY <2>2 DEF Claimable
  <2>4. CASE m \in batch
    <3>1. status'[m] = "sending" /\ attempts'[m] = attempts[m] + 1
      BY <2>1, <2>4
    <3>2. attempts'[m] >= attempts[m]
      BY ONLY <3>1, <1>0
    <3> QED BY <2>3, <2>4, <3>1, <3>2 DEF RowStep, LegalTransitions
  <2>5. CASE m \notin batch
    <3>1. status'[m] = status[m] /\ attempts'[m] = attempts[m]
      BY <2>1, <2>5
    <3> QED BY <3>1, UnchangedRowStep
  <2> QED BY <2>4, <2>5
<1>4. ASSUME NEW w \in Workers, Connect(w) \/ SendMessage(w) \/ Crash(w)
      PROVE  RowStep(m)
  BY <1>4, UnchangedRowStep DEF Connect, SendMessage, Crash, rowVars
<1>5. ASSUME NEW w \in Workers, FailUnsentRow(w)
      PROVE  RowStep(m)
  BY <1>5, FailedRecordingRowStep DEF FailUnsentRow
<1>6. ASSUME NEW w \in Workers, RecordSent(w)
      PROVE  RowStep(m)
  <2>1. CASE RecordingFails(cur[w])
    BY <2>1, FailedRecordingRowStep
  <2>2. CASE MarkMailSent(cur[w])
    <3>1. attempts' = attempts
      BY <2>2 DEF MarkMailSent
    <3>2. status'[m] = status[m] \/
            (cur[w] = m /\ status[m] = "sending" /\ status'[m] = "sent")
      BY <2>2 DEF MarkMailSent, TypeOK
    <3>3. pc[w] = "record_sent"
      BY <1>6 DEF RecordSent
    <3>4. attempts'[m] >= attempts[m]
      BY <3>1, <1>0
    <3> QED BY <3>2, <3>3, <3>4 DEF RowStep, LegalTransitions
  <2> QED BY <1>6, <2>1, <2>2 DEF RecordSent
<1>7. ASSUME NEW w \in Workers, RecordFailed(w)
      PROVE  RowStep(m)
  BY <1>7, FailedRecordingRowStep DEF RecordFailed
<1>8. CASE ReclaimStaleMail
  <2>1. attempts'[m] = attempts[m]
    BY <1>8 DEF ReclaimStaleMail
  <2>2. status'[m] = status[m] \/ (status[m] = "sending" /\ status'[m] = "failed")
    BY <1>8 DEF ReclaimStaleMail
  <2>3. attempts'[m] >= attempts[m]
    BY <2>1, <1>0
  <2> QED BY <2>2, <2>3 DEF RowStep, LegalTransitions
<1>9. CASE UNCHANGED vars
  BY <1>9, UnchangedRowStep DEF vars
<1> QED
  BY <1>1, <1>2, <1>3, <1>4, <1>5, <1>6, <1>7, <1>8, <1>9 DEF Next, WorkerStep

(* The trigger guard_mail_outbox_update never rejects a step.              *)
THEOREM TriggerNeverRejectsAny == Spec => TriggerNeverRejects
<1>1. TypeOK /\ [Next]_vars =>
        [ \A m \in Mails :
            /\ status'[m] # status[m] => <<status[m], status'[m]>> \in LegalTransitions
            /\ attempts'[m] >= attempts[m] ]_vars
  BY EveryRowStep DEF RowStep
<1> QED
  BY <1>1, TypeCorrect, PTL DEF Spec, TriggerNeverRejects

-----------------------------------------------------------------------------
(* Accepted copies are never taken back.                                   *)
LEMMA AcceptedGrows ==
  ASSUME TypeOK, [Next]_vars, NEW m \in Mails
  PROVE  accepted'[m] >= accepted[m]
<1>0. accepted[m] \in Nat
  BY DEF TypeOK
<1>1. ASSUME NEW w \in Workers, SendMessage(w)
      PROVE  accepted'[m] >= accepted[m]
  <2>1. accepted'[m] = accepted[m] \/ accepted'[m] = accepted[m] + 1
    BY <1>1 DEF SendMessage, TypeOK
  <2> QED BY ONLY <2>1, <1>0
<1>2. ASSUME accepted' = accepted
      PROVE  accepted'[m] >= accepted[m]
  BY <1>2, <1>0
<1> QED
  BY <1>1, <1>2 DEF Next, vars, QueueMail, Age, Claim, WorkerStep, Connect,
     FailUnsentRow, RecordSent, RecordFailed, Crash, ReclaimStaleMail

(* A worker about to record a delivery has seen it accepted.               *)
Witnessed ==
  \A w \in Workers : pc[w] = "record_sent" => cur[w] \in Mails /\ accepted[cur[w]] >= 1

SentInv == SentMeansAccepted /\ Witnessed

(* Only SendMessage brings a worker to record_sent, and it sends first.    *)
LEMMA ReachesRecordSent ==
  ASSUME TypeOK, [Next]_vars, NEW w \in Workers, pc'[w] = "record_sent"
  PROVE  \/ pc[w] = "record_sent" /\ cur'[w] = cur[w]
         \/ cur'[w] \in Mails /\ accepted'[cur'[w]] >= 1
<1> DEFINE Goal == \/ pc[w] = "record_sent" /\ cur'[w] = cur[w]
                   \/ cur'[w] \in Mails /\ accepted'[cur'[w]] >= 1
<1>1. ASSUME NEW v \in Workers, SendMessage(v)
      PROVE  Goal
  <2>1. CASE v # w
    BY <1>1, <2>1 DEF SendMessage, TypeOK
  <2>2. CASE v = w
    <3>1. PICK m \in todo[w], raised \in BOOLEAN, taken \in BOOLEAN :
            /\ ~raised => taken
            /\ cur' = [cur EXCEPT ![w] = m]
            /\ pc'  = [pc EXCEPT ![w] = IF raised THEN "record_failed" ELSE "record_sent"]
            /\ accepted' = IF taken THEN [accepted EXCEPT ![m] = @ + 1] ELSE accepted
      BY <1>1, <2>2 DEF SendMessage
    <3>2. ~raised /\ cur'[w] = m /\ m \in Mails
      BY <3>1 DEF TypeOK
    <3>3. accepted'[m] = accepted[m] + 1
      BY <3>1, <3>2 DEF TypeOK
    <3>4. accepted[m] \in Nat
      BY <3>2 DEF TypeOK
    <3>5. accepted'[m] >= 1
      BY ONLY <3>3, <3>4
    <3> QED BY <3>2, <3>5
  <2> QED BY <2>1, <2>2
<1>2. ASSUME NEW v \in Workers, NEW m, NEW loop \in {"send", "fail_all"}, NextRow(v, m, loop)
      PROVE  Goal
  BY <1>2 DEF NextRow, TypeOK
<1>3. ASSUME NEW v \in Workers, NEW rf \in BOOLEAN, NEW ru \in BOOLEAN, Claim(v, rf, ru)
      PROVE  Goal
  BY <1>3 DEF Claim, TypeOK
<1>4. ASSUME NEW v \in Workers, Connect(v)
      PROVE  Goal
  BY <1>4 DEF Connect, TypeOK
<1>5. ASSUME NEW v \in Workers, Crash(v)
      PROVE  Goal
  BY <1>5 DEF Crash, TypeOK
<1>6. ASSUME NEW v \in Workers, FailUnsentRow(v)
      PROVE  Goal
  BY <1>2, <1>6 DEF FailUnsentRow
<1>7. ASSUME NEW v \in Workers, RecordSent(v) \/ RecordFailed(v)
      PROVE  Goal
  BY <1>2, <1>7 DEF RecordSent, RecordFailed
<1>8. ASSUME pc' = pc, cur' = cur
      PROVE  Goal
  BY <1>8
<1>9. CASE \E m \in Mails : QueueMail(m) \/ Age(m)
  BY <1>8, <1>9 DEF QueueMail, Age, workerVars
<1>10. CASE ReclaimStaleMail \/ UNCHANGED vars
  BY <1>8, <1>10 DEF ReclaimStaleMail, workerVars, vars
<1> QED
  BY <1>1, <1>3, <1>4, <1>5, <1>6, <1>7, <1>9, <1>10 DEF Next, WorkerStep

LEMMA SentInit == Init => SentInv
<1> SUFFICES ASSUME Init
             PROVE  SentInv
  OBVIOUS
<1>1. \A m \in Mails : status[m] = "none"
  BY DEF Init
<1>2. \A w \in Workers : pc[w] = "idle"
  BY DEF Init
<1> QED BY ONLY <1>1, <1>2 DEF SentInv, SentMeansAccepted, Witnessed

LEMMA SentStep == TypeOK /\ SentInv /\ [Next]_vars => SentInv'
<1> SUFFICES ASSUME TypeOK, SentInv, [Next]_vars
             PROVE  SentInv'
  OBVIOUS
<1>1. TypeOK'
  BY TypeStep
<1>2. \A m \in Mails : accepted[m] >= 1 => accepted'[m] >= 1
  <2>1. ASSUME NEW m \in Mails
        PROVE  accepted[m] >= 1 => accepted'[m] >= 1
    <3>1. accepted'[m] >= accepted[m]
      BY AcceptedGrows
    <3>2. accepted[m] \in Nat /\ accepted'[m] \in Nat
      BY <1>1 DEF TypeOK
    <3> QED BY ONLY <3>1, <3>2
  <2> QED BY <2>1
<1>3. ASSUME NEW m \in Mails, status'[m] = "sent"
      PROVE  accepted'[m] >= 1
  <2>1. CASE status[m] = "sent"
    BY <2>1, <1>2 DEF SentInv, SentMeansAccepted
  <2>2. CASE status[m] # "sent"
    <3>1. PICK w \in Workers : pc[w] = "record_sent" /\ cur[w] = m
      BY <1>3, <2>2, EveryRowStep DEF RowStep
    <3> QED BY <3>1, <1>2 DEF SentInv, Witnessed
  <2> QED BY <2>1, <2>2
<1>4. ASSUME NEW w \in Workers, pc'[w] = "record_sent"
      PROVE  cur'[w] \in Mails /\ accepted'[cur'[w]] >= 1
  BY <1>2, <1>4, ReachesRecordSent DEF SentInv, Witnessed
<1> QED BY <1>3, <1>4 DEF SentInv, SentMeansAccepted, Witnessed

(* A row is sent only if the relay accepted the mail, under every fault.   *)
THEOREM SentIsAccepted == Spec => []SentMeansAccepted
<1>1. SentInv => SentMeansAccepted
  BY DEF SentInv
<1> QED
  BY <1>1, SentInit, SentStep, TypeCorrect, PTL DEF Spec

-----------------------------------------------------------------------------
(* The faults the code is written against: crashes and failing calls, but  *)
(* no lost acknowledgement, no batch slower than the reclaim threshold and *)
(* no unchecked retry.                                                     *)
DocumentedFaults == Faults \cap {"lost_ack", "overrun", "unchecked_retry"} = {}

(* No row is in the hands of two workers.                                  *)
Exclusive ==
  \A v, w \in Workers : v # w => todo[v] \cap todo[w] = {}

(* A row in hand is in sending, too young to be reclaimed, and unsent      *)
(* unless its worker is about to record it.                                *)
HeldRows ==
  \A w \in Workers : \A m \in todo[w] :
    /\ status[m] = "sending"
    /\ m \notin aged
    /\ \/ accepted[m] = 0
       \/ pc[w] = "record_sent" /\ cur[w] = m /\ accepted[m] = 1

CurIsHeld ==
  \A w \in Workers : pc[w] \in {"record_sent", "record_failed"} => cur[w] \in todo[w]

(* A row not yet queued carries no copy either.                            *)
Unsent ==
  \A m \in Mails : status[m] = "none" => accepted[m] = 0

CopyInv ==
  /\ Exclusive
  /\ HeldRows
  /\ CurIsHeld
  /\ Unsent
  /\ RetryableMeansUndelivered
  /\ AtMostOneCopy

LEMMA CopyInit == Init => CopyInv
<1> SUFFICES ASSUME Init
             PROVE  CopyInv
  OBVIOUS
<1>1. \A m \in Mails : accepted[m] = 0
  BY DEF Init
<1>2. \A w \in Workers : todo[w] = {} /\ pc[w] = "idle"
  BY DEF Init
<1> QED
  BY <1>1, <1>2 DEF CopyInv, Exclusive, HeldRows, CurIsHeld, Unsent,
     RetryableMeansUndelivered, AtMostOneCopy

(* A worker is done with a row it holds: the row leaves its hands, in      *)
(* sending or in the state the recording gave it.                          *)
LEMMA CopyRowDone ==
  ASSUME TypeOK, CopyInv, NEW w \in Workers, NEW m \in todo[w],
         NEW loop \in {"send", "fail_all"}, NextRow(w, m, loop),
         \/ MarkMailSent(m)
         \/ MarkMailFailed(m) /\ accepted[m] = 0
         \/ RecordingFails(m),
         \A k \in todo[w] : k # m => accepted[k] = 0,
         accepted' = accepted
  PROVE  CopyInv'
<1>1. /\ todo' = [todo EXCEPT ![w] = @ \ {m}]
      /\ pc'[w] \in {"idle", "send", "fail_all"}
      /\ \A v \in Workers : v # w => pc'[v] = pc[v] /\ cur'[v] = cur[v]
  BY DEF NextRow, TypeOK
<1>2. m \in Mails /\ status[m] = "sending"
  BY DEF TypeOK, CopyInv, HeldRows
<1>3. /\ \A k \in Mails : k # m => status'[k] = status[k] /\ lastError'[k] = lastError[k]
      /\ aged' \subseteq aged
  BY DEF MarkMailSent, MarkMailFailed, RecordingFails, rowVars, TypeOK
<1>4. \/ status'[m] \in {"sending", "sent"}
      \/ status'[m] = "failed" /\ accepted[m] = 0
  BY <1>2 DEF MarkMailSent, MarkMailFailed, RecordingFails, rowVars, TypeOK
<1>5. \A v \in Workers : todo'[v] \subseteq todo[v] /\ m \notin todo'[v]
  BY <1>1 DEF CopyInv, Exclusive, TypeOK
<1>6. Exclusive'
  BY <1>5 DEF CopyInv, Exclusive
<1>7. HeldRows'
  <2> SUFFICES ASSUME NEW v \in Workers, NEW k \in todo'[v]
               PROVE  /\ status'[k] = "sending"
                      /\ k \notin aged'
                      /\ \/ accepted[k] = 0
                         \/ pc'[v] = "record_sent" /\ cur'[v] = k /\ accepted[k] = 1
    BY DEF HeldRows
  <2>1. k \in todo[v] /\ k # m /\ k \in Mails
    BY <1>5 DEF TypeOK
  <2>2. status'[k] = "sending" /\ k \notin aged'
    BY <2>1, <1>3 DEF CopyInv, HeldRows
  <2>3. CASE v = w
    BY <2>1, <2>2, <2>3
  <2>4. CASE v # w
    BY <2>1, <2>2, <2>4, <1>1 DEF CopyInv, HeldRows
  <2> QED BY <2>3, <2>4
<1>8. CurIsHeld'
  BY <1>1 DEF CopyInv, CurIsHeld, TypeOK
<1>9. Unsent' /\ RetryableMeansUndelivered' /\ AtMostOneCopy'
  BY <1>2, <1>3, <1>4 DEF CopyInv, Unsent, RetryableMeansUndelivered, AtMostOneCopy, Unconfirmed
<1> QED
  BY <1>6, <1>7, <1>8, <1>9 DEF CopyInv

LEMMA CopySend ==
  ASSUME DocumentedFaults, TypeOK, CopyInv, NEW w \in Workers, SendMessage(w)
  PROVE  CopyInv'
<1>1. PICK m \in todo[w], raised \in BOOLEAN, taken \in BOOLEAN :
        /\ ~raised => taken
        /\ raised /\ taken => "lost_ack" \in Faults
        /\ cur' = [cur EXCEPT ![w] = m]
        /\ pc'  = [pc EXCEPT ![w] = IF raised THEN "record_failed" ELSE "record_sent"]
        /\ accepted' = IF taken THEN [accepted EXCEPT ![m] = @ + 1] ELSE accepted
  BY DEF SendMessage
<1>2. taken = ~raised
  BY <1>1 DEF DocumentedFaults
<1>3. UNCHANGED <<status, lastError, attempts, aged, todo>> /\ pc[w] = "send"
  BY DEF SendMessage, rowVars
<1>4. m \in Mails /\ status[m] = "sending" /\ accepted[m] = 0
  BY <1>3 DEF TypeOK, CopyInv, HeldRows
<1>5. \A k \in Mails : k # m => accepted'[k] = accepted[k]
  BY <1>1 DEF TypeOK
<1>6. /\ cur'[w] = m
      /\ raised  => accepted'[m] = 0 /\ pc'[w] = "record_failed"
      /\ ~raised => accepted'[m] = 1 /\ pc'[w] = "record_sent"
  <2>1. cur'[w] = m /\ pc'[w] = IF raised THEN "record_failed" ELSE "record_sent"
    BY <1>1 DEF TypeOK
  <2>2. accepted'[m] = IF taken THEN accepted[m] + 1 ELSE accepted[m]
    BY <1>1, <1>4 DEF TypeOK
  <2>3. accepted'[m] = IF taken THEN 1 ELSE 0
    BY ONLY <2>2, <1>4
  <2> QED BY <2>1, <2>3, <1>2
<1>7. \A v \in Workers : v # w => pc'[v] = pc[v] /\ cur'[v] = cur[v]
  BY <1>1 DEF TypeOK
<1>8. Exclusive'
  BY <1>3 DEF CopyInv, Exclusive
<1>9. HeldRows'
  <2> SUFFICES ASSUME NEW v \in Workers, NEW k \in todo[v]
               PROVE  \/ accepted'[k] = 0
                      \/ pc'[v] = "record_sent" /\ cur'[v] = k /\ accepted'[k] = 1
    BY <1>3 DEF CopyInv, HeldRows
  <2>1. CASE k = m
    <3>1. v = w
      BY <2>1 DEF CopyInv, Exclusive
    <3> QED BY <2>1, <3>1, <1>6
  <2>2. CASE k # m
    <3>1. accepted'[k] = accepted[k]
      BY <2>2, <1>5 DEF TypeOK
    <3>2. CASE v = w
      BY <3>1, <3>2, <1>3 DEF CopyInv, HeldRows
    <3>3. CASE v # w
      BY <3>1, <3>3, <1>7 DEF CopyInv, HeldRows
    <3> QED BY <3>2, <3>3
  <2> QED BY <2>1, <2>2
<1>10. CurIsHeld'
  BY <1>3, <1>6, <1>7 DEF CopyInv, CurIsHeld
<1>11. Unsent' /\ RetryableMeansUndelivered' /\ AtMostOneCopy'
  BY <1>3, <1>4, <1>5, <1>6
     DEF CopyInv, Unsent, RetryableMeansUndelivered, AtMostOneCopy, Unconfirmed
<1> QED
  BY <1>8, <1>9, <1>10, <1>11 DEF CopyInv

LEMMA CopyClaim ==
  ASSUME DocumentedFaults, TypeOK, CopyInv, NEW w \in Workers,
         NEW rf \in BOOLEAN, NEW ru \in BOOLEAN, Claim(w, rf, ru)
  PROVE  CopyInv'
<1>1. PICK locked \in SUBSET Claimable(rf, ru) :
        LET batch == OldestFirst(Claimable(rf, ru) \ locked, BatchLimit)
        IN  /\ OperatorLooked(batch, ru)
            /\ status'   = [n \in Mails |-> IF n \in batch THEN "sending" ELSE status[n]]
            /\ aged'     = aged \ batch
            /\ todo'     = [todo EXCEPT ![w] = batch]
            /\ UNCHANGED lastError
  BY DEF Claim, ClaimMailBatch
<1> DEFINE batch == OldestFirst(Claimable(rf, ru) \ locked, BatchLimit)
<1>2. batch \subseteq Claimable(rf, ru)
  BY BatchIsClaimable
<1>3. \A m \in batch : m \in Mails /\ (status[m] = "queued" \/ status[m] = "failed")
  BY <1>2 DEF Claimable
<1>3a. \A m \in batch : status[m] = "failed" /\ Unconfirmed(m) => ru
  BY <1>2 DEF Claimable
<1>4. \A m \in batch : accepted[m] = 0
  <2>1. \A m \in batch : Unconfirmed(m) /\ status[m] = "failed" => accepted[m] = 0
    BY <1>1, <1>3a DEF OperatorLooked, DocumentedFaults
  <2> QED BY <1>3, <2>1 DEF CopyInv, RetryableMeansUndelivered
<1>5. /\ todo' = [todo EXCEPT ![w] = batch]
      /\ aged' = aged \ batch
      /\ lastError' = lastError
      /\ status' = [n \in Mails |-> IF n \in batch THEN "sending" ELSE status[n]]
  BY <1>1
<1> HIDE DEF batch
<1>6. /\ accepted' = accepted /\ cur' = cur
      /\ pc' = [pc EXCEPT ![w] = "connect"]
  BY DEF Claim
<1>7. \A v \in Workers : todo[v] \cap batch = {}
  BY <1>3 DEF CopyInv, HeldRows
<1>8. /\ todo'[w] = batch
      /\ \A v \in Workers : v # w => todo'[v] = todo[v] /\ pc'[v] = pc[v]
  BY <1>5, <1>6 DEF TypeOK
<1>9. Exclusive'
  BY <1>7, <1>8 DEF CopyInv, Exclusive
<1>10. HeldRows'
  <2> SUFFICES ASSUME NEW v \in Workers, NEW k \in todo'[v]
               PROVE  /\ status'[k] = "sending"
                      /\ k \notin aged'
                      /\ \/ accepted[k] = 0
                         \/ pc'[v] = "record_sent" /\ cur[v] = k /\ accepted[k] = 1
    BY <1>6 DEF HeldRows
  <2>1. CASE v = w
    BY <2>1, <1>3, <1>4, <1>5, <1>8
  <2>2. CASE v # w
    <3>1. k \in todo[v] /\ k \notin batch /\ k \in Mails
      BY <2>2, <1>7, <1>8 DEF TypeOK
    <3> QED BY <3>1, <2>2, <1>5, <1>8 DEF CopyInv, HeldRows
  <2> QED BY <2>1, <2>2
<1>11. CurIsHeld'
  <2>1. pc'[w] = "connect"
    BY <1>6 DEF TypeOK
  <2> QED BY <2>1, <1>6, <1>8 DEF CopyInv, CurIsHeld
<1>12. Unsent' /\ RetryableMeansUndelivered' /\ AtMostOneCopy'
  BY <1>4, <1>5, <1>6 DEF CopyInv, Unsent, RetryableMeansUndelivered, AtMostOneCopy, Unconfirmed
<1> QED
  BY <1>9, <1>10, <1>11, <1>12 DEF CopyInv

LEMMA CopyStep ==
  ASSUME DocumentedFaults, TypeOK, CopyInv, [Next]_vars
  PROVE  CopyInv'
<1> USE DEF CopyInv, Exclusive, HeldRows, CurIsHeld, Unsent, RetryableMeansUndelivered,
            AtMostOneCopy, Unconfirmed
<1>1. ASSUME NEW m \in Mails, QueueMail(m)
      PROVE  CopyInv'
  BY <1>1 DEF QueueMail, workerVars, TypeOK
<1>2. ASSUME NEW m \in Mails, Age(m)
      PROVE  CopyInv'
  BY <1>2 DEF Age, workerVars, TypeOK, DocumentedFaults
<1>3. ASSUME NEW w \in Workers, NEW rf \in BOOLEAN, NEW ru \in BOOLEAN, Claim(w, rf, ru)
      PROVE  CopyInv'
  BY <1>3, CopyClaim
<1>4. ASSUME NEW w \in Workers, Connect(w)
      PROVE  CopyInv'
  BY <1>4 DEF Connect, rowVars, TypeOK
<1>5. ASSUME NEW w \in Workers, FailUnsentRow(w)
      PROVE  CopyInv'
  <2>1. PICK m \in todo[w] : /\ MarkMailFailed(m) \/ RecordingFails(m)
                             /\ NextRow(w, m, "fail_all")
    BY <1>5 DEF FailUnsentRow
  <2>2. pc[w] = "fail_all" /\ accepted' = accepted
    BY <1>5 DEF FailUnsentRow
  <2>3. \A k \in todo[w] : accepted[k] = 0
    BY <2>2
  <2> QED BY <2>1, <2>2, <2>3, CopyRowDone
<1>6. ASSUME NEW w \in Workers, SendMessage(w)
      PROVE  CopyInv'
  BY <1>6, CopySend
<1>7. ASSUME NEW w \in Workers, RecordSent(w)
      PROVE  CopyInv'
  <2>1. /\ pc[w] = "record_sent" /\ accepted' = accepted
        /\ MarkMailSent(cur[w]) \/ RecordingFails(cur[w])
        /\ NextRow(w, cur[w], "send")
    BY <1>7 DEF RecordSent
  <2>2. cur[w] \in todo[w] /\ \A k \in todo[w] : k # cur[w] => accepted[k] = 0
    BY <2>1
  <2> QED BY <2>1, <2>2, CopyRowDone
<1>8. ASSUME NEW w \in Workers, RecordFailed(w)
      PROVE  CopyInv'
  <2>1. /\ pc[w] = "record_failed" /\ accepted' = accepted
        /\ MarkMailFailed(cur[w]) \/ RecordingFails(cur[w])
        /\ NextRow(w, cur[w], "send")
    BY <1>8 DEF RecordFailed
  <2>2. cur[w] \in todo[w] /\ \A k \in todo[w] : accepted[k] = 0
    BY <2>1
  <2> QED BY <2>1, <2>2, CopyRowDone
<1>9. ASSUME NEW w \in Workers, Crash(w)
      PROVE  CopyInv'
  BY <1>9 DEF Crash, rowVars, TypeOK
<1>10. CASE ReclaimStaleMail
  BY <1>10 DEF ReclaimStaleMail, workerVars, TypeOK
<1>11. CASE UNCHANGED vars
  BY <1>11 DEF vars
<1> QED
  BY <1>1, <1>2, <1>3, <1>4, <1>5, <1>6, <1>7, <1>8, <1>9, <1>10, <1>11 DEF Next, WorkerStep

(* Under the documented faults no recipient gets two copies.               *)
THEOREM OneCopy ==
  ASSUME DocumentedFaults
  PROVE  Spec => []AtMostOneCopy
<1>1. TypeOK /\ CopyInv /\ [Next]_vars => CopyInv'
  BY CopyStep
<1>2. CopyInv => AtMostOneCopy
  BY DEF CopyInv
<1> QED
  BY <1>1, <1>2, CopyInit, TypeCorrect, PTL DEF Spec

(* Under the documented faults a row that a plain run or --retry-failed    *)
(* picks up was never delivered.                                           *)
THEOREM RetryIsSafe ==
  ASSUME DocumentedFaults
  PROVE  Spec => []RetryableMeansUndelivered
<1>1. TypeOK /\ CopyInv /\ [Next]_vars => CopyInv'
  BY CopyStep
<1>2. CopyInv => RetryableMeansUndelivered
  BY DEF CopyInv
<1> QED
  BY <1>1, <1>2, CopyInit, TypeCorrect, PTL DEF Spec

-----------------------------------------------------------------------------
(* The queue with its workers implements the promise about one mail.       *)

(* Claims, failures, the reclaim and crashes move a row between queued,    *)
(* sending and failed, or not at all.                                      *)
QuietStep ==
  /\ accepted' = accepted
  /\ \A m \in Mails :
       \/ status'[m] = status[m]
       \/ /\ status[m] \in {"queued", "sending", "failed"}
          /\ status'[m] \in {"queued", "sending", "failed"}

(* Such a step changes nothing in the abstract view.                       *)
LEMMA QuietIsStutter ==
  ASSUME QuietStep
  PROVE  UNCHANGED Promise!vars
<1>1. \A m \in Mails : Ledger(m)' = Ledger(m)
  BY DEF QuietStep, Ledger
<1> QED
  BY <1>1 DEF QuietStep, Promise!vars

(* Every step of the queue is a step of the promise or a stutter.          *)
LEMMA PromiseStep ==
  ASSUME DocumentedFaults, TypeOK, CopyInv, SentInv, [Next]_vars
  PROVE  [Promise!Next]_(Promise!vars)
<1> DEFINE L == [m \in Mails |-> Ledger(m)]
<1> DEFINE LNext == [m \in Mails |-> Ledger(m)']
<1>0. TypeOK' /\ CopyInv'
  BY TypeStep, CopyStep
<1>1. ASSUME NEW m \in Mails, QueueMail(m)
      PROVE  Promise!Queue(m)
  <2>1. status[m] = "none" /\ status' = [status EXCEPT ![m] = "queued"] /\ accepted' = accepted
    BY <1>1 DEF QueueMail
  <2>2. \A k \in Mails : LNext[k] = IF k = m THEN "open" ELSE L[k]
    BY <2>1 DEF Ledger, TypeOK
  <2>3. L[m] = "absent"
    BY <2>1 DEF Ledger
  <2>4. LNext = [L EXCEPT ![m] = "open"]
    BY <2>2
  <2> QED BY <2>1, <2>3, <2>4 DEF Promise!Queue
<1>2. ASSUME NEW w \in Workers, SendMessage(w)
      PROVE  [Promise!Next]_(Promise!vars)
  <2>1. PICK m \in todo[w], raised \in BOOLEAN, taken \in BOOLEAN :
          accepted' = IF taken THEN [accepted EXCEPT ![m] = @ + 1] ELSE accepted
    BY <1>2 DEF SendMessage
  <2>2. status' = status /\ pc[w] = "send"
    BY <1>2 DEF SendMessage, rowVars
  <2>3. LNext = L
    BY <2>2 DEF Ledger
  <2>4. CASE ~taken
    BY <2>1, <2>3, <2>4 DEF Promise!vars
  <2>5. CASE taken
    <3>1. m \in Mails /\ status[m] = "sending" /\ accepted[m] = 0
      BY <2>2 DEF TypeOK, CopyInv, HeldRows
    <3>2. accepted' = [accepted EXCEPT ![m] = 1]
      BY <2>1, <2>5, <3>1 DEF TypeOK
    <3>3. L[m] = "open"
      BY <3>1 DEF Ledger
    <3>4. Promise!HandOver(m)
      BY <2>3, <3>1, <3>2, <3>3 DEF Promise!HandOver
    <3> QED BY <3>1, <3>4 DEF Promise!Next
  <2> QED BY <2>4, <2>5
<1>4. ASSUME NEW w \in Workers, RecordSent(w), MarkMailSent(cur[w])
      PROVE  Promise!Record(cur[w]) /\ cur[w] \in Mails
  <2> DEFINE c == cur[w]
  <2>1. pc[w] = "record_sent" /\ accepted' = accepted
    BY <1>4 DEF RecordSent
  <2>2. c \in Mails /\ accepted[c] >= 1 /\ accepted[c] \in Nat
    BY <2>1 DEF SentInv, Witnessed, TypeOK
  <2>3. accepted[c] <= 1
    BY <2>2 DEF CopyInv, AtMostOneCopy
  <2>4. accepted[c] = 1
    BY ONLY <2>2, <2>3
  <2>5. status[c] = "sending" /\ status' = [status EXCEPT ![c] = "sent"]
    BY <1>4 DEF MarkMailSent
  <2>6. \A k \in Mails : LNext[k] = IF k = c THEN "sent" ELSE L[k]
    BY <2>2, <2>5 DEF Ledger, TypeOK
  <2>7. L[c] = "open"
    BY <2>2, <2>5 DEF Ledger
  <2>8. LNext = [L EXCEPT ![c] = "sent"]
    BY <2>6
  <2> QED BY <2>1, <2>2, <2>4, <2>7, <2>8 DEF Promise!Record
<1>5. ASSUME NEW m, MarkMailFailed(m) \/ RecordingFails(m), accepted' = accepted
      PROVE  UNCHANGED Promise!vars
  <2>1. QuietStep
    BY <1>5 DEF QuietStep, MarkMailFailed, RecordingFails, rowVars, TypeOK
  <2> QED BY <2>1, QuietIsStutter
<1>6. ASSUME NEW w \in Workers, RecordSent(w)
      PROVE  [Promise!Next]_(Promise!vars)
  <2>1. accepted' = accepted
    BY <1>6 DEF RecordSent
  <2>2. CASE MarkMailSent(cur[w])
    BY <1>4, <1>6, <2>2 DEF Promise!Next
  <2>3. CASE RecordingFails(cur[w])
    BY <1>5, <2>1, <2>3
  <2> QED BY <1>6, <2>2, <2>3 DEF RecordSent
<1>7. ASSUME NEW w \in Workers, FailUnsentRow(w) \/ RecordFailed(w)
      PROVE  UNCHANGED Promise!vars
  BY <1>5, <1>7 DEF FailUnsentRow, RecordFailed
<1>8. ASSUME NEW w \in Workers, NEW rf \in BOOLEAN, NEW ru \in BOOLEAN, Claim(w, rf, ru)
      PROVE  UNCHANGED Promise!vars
  <2>1. PICK locked \in SUBSET Claimable(rf, ru) :
          LET batch == OldestFirst(Claimable(rf, ru) \ locked, BatchLimit)
          IN  status' = [n \in Mails |-> IF n \in batch THEN "sending" ELSE status[n]]
    BY <1>8 DEF Claim, ClaimMailBatch
  <2> DEFINE batch == OldestFirst(Claimable(rf, ru) \ locked, BatchLimit)
  <2>2. \A n \in batch : status[n] \in {"queued", "failed"}
    BY BatchIsClaimable DEF Claimable
  <2>3. status' = [n \in Mails |-> IF n \in batch THEN "sending" ELSE status[n]]
    BY <2>1
  <2> HIDE DEF batch
  <2>4. accepted' = accepted
    BY <1>8 DEF Claim
  <2>5. QuietStep
    BY <2>2, <2>3, <2>4 DEF QuietStep
  <2> QED BY <2>5, QuietIsStutter
<1>9. CASE ReclaimStaleMail
  <2>1. QuietStep
    BY <1>9 DEF QuietStep, ReclaimStaleMail
  <2> QED BY <2>1, QuietIsStutter
<1>10. ASSUME accepted' = accepted, status' = status
       PROVE  UNCHANGED Promise!vars
  <2>1. QuietStep
    BY <1>10 DEF QuietStep
  <2> QED BY <2>1, QuietIsStutter
<1>11. CASE \E w \in Workers : Connect(w) \/ Crash(w)
  BY <1>10, <1>11 DEF Connect, Crash, rowVars
<1>12. CASE UNCHANGED vars \/ \E m \in Mails : Age(m)
  BY <1>10, <1>12 DEF vars, Age
<1> QED
  BY <1>1, <1>2, <1>6, <1>7, <1>8, <1>9, <1>11, <1>12 DEF Next, WorkerStep, Promise!Next

(* Under the documented faults the queue implements MailPromise: at most   *)
(* one hand-over per mail, and the sent record only after it.              *)
THEOREM QueueKeepsPromise ==
  ASSUME DocumentedFaults
  PROVE  Spec => PromiseKept
<1>1. Init => Promise!Init
  <2> SUFFICES ASSUME Init
               PROVE  Promise!Init
    OBVIOUS
  <2>1. \A m \in Mails : Ledger(m) = "absent"
    BY DEF Init, Ledger
  <2>2. accepted = [m \in Mails |-> 0]
    BY DEF Init
  <2> QED BY <2>1, <2>2 DEF Promise!Init
<1>2. TypeOK /\ CopyInv /\ [Next]_vars => CopyInv'
  BY CopyStep
<1>3. TypeOK /\ CopyInv /\ SentInv /\ [Next]_vars => [Promise!Next]_(Promise!vars)
  BY PromiseStep
<1> QED
  BY <1>1, <1>2, <1>3, CopyInit, SentStep, SentInit, TypeCorrect, PTL
     DEF Spec, PromiseKept, Promise!Spec

=============================================================================
