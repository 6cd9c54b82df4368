------------------------------ MODULE MailOutbox ------------------------------
(***************************************************************************)
(* The mail queue app.mail_outbox and the processes that drain it.         *)
(*                                                                         *)
(* The web only inserts rows.  scripts/send_mail_outbox.py, started every  *)
(* two minutes by a timer and by hand by an operator, claims rows, hands   *)
(* them to an SMTP relay and records the outcome, each database call being *)
(* a transaction of its own.  Nothing ties a row in `sending' to the       *)
(* process that claimed it, so every interleaving of two workers, a crash  *)
(* and the reclaim command acts on the same rows.                          *)
(***************************************************************************)
EXTENDS Naturals, FiniteSets

CONSTANTS
  Mails,        (* row ids, numbered in the order of queued_at             *)
  Workers,      (* processes that may run send_mail_outbox.py --apply      *)
  NoMail,       (* "no row in hand"                                        *)
  BatchLimit,   (* --limit, 50 at most in the code                         *)
  MaxAttempts,  (* bound of the model on the attempts counter              *)
  Faults        (* what may go wrong in the environment, see FaultKinds    *)

(***************************************************************************)
(* crash           a worker dies between any two of its steps              *)
(* db_error        a recording call fails: psql, session token, network    *)
(* lost_ack        the relay accepts a mail, send_message raises anyway    *)
(* overrun         a batch takes longer than the reclaim threshold         *)
(* unchecked_retry --retry-unconfirmed is run without looking whether the  *)
(*                 mails arrived                                           *)
(***************************************************************************)
FaultKinds == {"crash", "db_error", "lost_ack", "overrun", "unchecked_retry"}

ASSUME MailOutboxAssumption ==
  /\ Mails \subseteq Nat
  /\ NoMail \notin Mails
  /\ BatchLimit \in Nat \ {0}
  /\ MaxAttempts \in Nat \ {0}
  /\ Faults \subseteq FaultKinds

VARIABLES
  status,     (* mail_outbox.status, "none" before the INSERT              *)
  lastError,  (* mail_outbox.last_error: "", "error" or "[unconfirmed]"    *)
  attempts,   (* mail_outbox.attempts                                      *)
  aged,       (* rows in sending whose updated_at is beyond the threshold  *)
  pc,         (* where each worker is in main()                            *)
  todo,       (* rows of its batch a worker has not finished               *)
  cur,        (* the row a worker has just sent, or failed to send         *)
  accepted    (* history: how often the SMTP relay accepted each mail      *)

rowVars    == <<status, lastError, attempts, aged>>
workerVars == <<pc, todo, cur>>
vars       == <<status, lastError, attempts, aged, pc, todo, cur, accepted>>

Statuses == {"none", "queued", "sending", "sent", "failed"}
Errors   == {"", "error", "[unconfirmed]"}
Phases   == {"idle", "connect", "send", "record_sent", "record_failed", "fail_all"}

TypeOK ==
  /\ status    \in [Mails -> Statuses]
  /\ lastError \in [Mails -> Errors]
  /\ attempts  \in [Mails -> 0 .. MaxAttempts]
  /\ aged      \in SUBSET Mails
  /\ pc        \in [Workers -> Phases]
  /\ todo      \in [Workers -> SUBSET Mails]
  /\ cur       \in [Workers -> Mails \cup {NoMail}]
  /\ accepted  \in [Mails -> Nat]

Init ==
  /\ status    = [m \in Mails |-> "none"]
  /\ lastError = [m \in Mails |-> ""]
  /\ attempts  = [m \in Mails |-> 0]
  /\ aged      = {}
  /\ pc        = [w \in Workers |-> "idle"]
  /\ todo      = [w \in Workers |-> {}]
  /\ cur       = [w \in Workers |-> NoMail]
  /\ accepted  = [m \in Mails |-> 0]

-----------------------------------------------------------------------------
(* The database side: the functions of the mail_worker role.               *)

(* The INSERT of queueMail after guard_mail_outbox has forced its columns. *)
QueueMail(m) ==
  /\ status[m] = "none"
  /\ \A k \in Mails : k < m => status[k] # "none"
  /\ status' = [status EXCEPT ![m] = "queued"]
  /\ UNCHANGED <<lastError, attempts, aged, workerVars, accepted>>

Unconfirmed(m) == lastError[m] = "[unconfirmed]"

(* Variant: --retry-failed does not look at the mark.                      *)
Claimable_IgnoresMark(retryFailed, retryUnconfirmed) ==
  { m \in Mails :
      /\ attempts[m] < MaxAttempts
      /\ status[m] = "queued" \/ (retryFailed /\ status[m] = "failed") }

(* The WHERE clause of claim_mail_batch; attempts is bounded by the model. *)
Claimable(retryFailed, retryUnconfirmed) ==
  { m \in Mails :
      /\ attempts[m] < MaxAttempts
      /\ \/ status[m] = "queued"
         \/ /\ retryFailed
            /\ status[m] = "failed"
            /\ retryUnconfirmed \/ ~Unconfirmed(m) }

OldestFirst(rows, limit) ==
  { m \in rows : Cardinality({k \in rows : k < m}) < limit }

(* --retry-unconfirmed is documented as a decision taken after looking     *)
(* whether the mails of the batch arrived.                                 *)
OperatorLooked(batch, retryUnconfirmed) ==
  \/ ~retryUnconfirmed
  \/ "unchecked_retry" \in Faults
  \/ \A m \in batch : Unconfirmed(m) /\ status[m] = "failed" => accepted[m] = 0

(* claim_mail_batch: FOR UPDATE SKIP LOCKED passes over the rows another   *)
(* transaction has locked.  last_error is left as it was.                  *)
ClaimMailBatch(w, retryFailed, retryUnconfirmed) ==
  \E locked \in SUBSET Claimable(retryFailed, retryUnconfirmed) :
    LET batch == OldestFirst(Claimable(retryFailed, retryUnconfirmed) \ locked, BatchLimit)
    IN  /\ batch # {}
        /\ OperatorLooked(batch, retryUnconfirmed)
        /\ status'   = [m \in Mails |-> IF m \in batch THEN "sending" ELSE status[m]]
        /\ attempts' = [m \in Mails |-> IF m \in batch THEN attempts[m] + 1 ELSE attempts[m]]
        /\ aged'     = aged \ batch
        /\ todo'     = [todo EXCEPT ![w] = batch]
        /\ UNCHANGED lastError

(* Variant: the UPDATE does not require sending.                           *)
MarkMailSent_FromAnyStatus(m) ==
  /\ status'    = [status EXCEPT ![m] = "sent"]
  /\ lastError' = [lastError EXCEPT ![m] = ""]
  /\ aged'      = aged \ {m}
  /\ UNCHANGED attempts

(* mark_mail_sent and mark_mail_failed name the row and require sending,   *)
(* not that the caller is the one who claimed it.                          *)
MarkMailSent(m) ==
  /\ status[m] = "sending"
  /\ status'    = [status EXCEPT ![m] = "sent"]
  /\ lastError' = [lastError EXCEPT ![m] = ""]
  /\ aged'      = aged \ {m}
  /\ UNCHANGED attempts

MarkMailFailed(m) ==
  /\ status[m] = "sending"
  /\ status'    = [status EXCEPT ![m] = "failed"]
  /\ lastError' = [lastError EXCEPT ![m] = "error"]
  /\ aged'      = aged \ {m}
  /\ UNCHANGED attempts

(* The call raised: the row was no longer in sending, or it never reached  *)
(* the database.  The worker reports the row as unrecorded and goes on.    *)
RecordingFails(m) ==
  /\ status[m] # "sending" \/ "db_error" \in Faults
  /\ UNCHANGED rowVars

(* Variant: the reclaimed row carries an ordinary error.                   *)
ReclaimStaleMail_Unmarked ==
  LET stale == { m \in aged : status[m] = "sending" }
  IN  /\ stale # {}
      /\ status'    = [m \in Mails |-> IF m \in stale THEN "failed" ELSE status[m]]
      /\ lastError' = [m \in Mails |-> IF m \in stale THEN "error" ELSE lastError[m]]
      /\ aged'      = aged \ stale
      /\ UNCHANGED <<attempts, workerVars, accepted>>

(* reclaim_stale_mail, run by hand with --reclaim-stale.                   *)
ReclaimStaleMail ==
  LET stale == { m \in aged : status[m] = "sending" }
  IN  /\ stale # {}
      /\ status'    = [m \in Mails |-> IF m \in stale THEN "failed" ELSE status[m]]
      /\ lastError' = [m \in Mails |-> IF m \in stale THEN "[unconfirmed]" ELSE lastError[m]]
      /\ aged'      = aged \ stale
      /\ UNCHANGED <<attempts, workerVars, accepted>>

-----------------------------------------------------------------------------
(* The worker side: main() of send_mail_outbox.py.                         *)

Claim(w, retryFailed, retryUnconfirmed) ==
  /\ pc[w] = "idle"
  /\ ClaimMailBatch(w, retryFailed, retryUnconfirmed)
  /\ pc' = [pc EXCEPT ![w] = "connect"]
  /\ UNCHANGED <<cur, accepted>>

Connect(w) ==
  /\ pc[w] = "connect"
  /\ \E next \in {"send", "fail_all"} : pc' = [pc EXCEPT ![w] = next]
  /\ UNCHANGED <<rowVars, todo, cur, accepted>>

(* Variant: the loop is never left.                                        *)
NextRow_NeverEnds(w, m, loop) ==
  /\ todo' = [todo EXCEPT ![w] = @ \ {m}]
  /\ cur'  = [cur EXCEPT ![w] = NoMail]
  /\ pc'   = [pc EXCEPT ![w] = loop]

(* The row is finished: the loop goes on, or the process ends.             *)
NextRow(w, m, loop) ==
  /\ todo' = [todo EXCEPT ![w] = @ \ {m}]
  /\ cur'  = [cur EXCEPT ![w] = NoMail]
  /\ pc'   = [pc EXCEPT ![w] = IF todo[w] = {m} THEN "idle" ELSE loop]

(* No connection: every row of the batch is recorded as failed.            *)
FailUnsentRow(w) ==
  /\ pc[w] = "fail_all"
  /\ \E m \in todo[w] :
       /\ MarkMailFailed(m) \/ RecordingFails(m)
       /\ NextRow(w, m, "fail_all")
  /\ UNCHANGED accepted

(* Variant: the exception of send_message is swallowed.                    *)
SendMessage_SwallowsException(w) ==
  /\ pc[w] = "send"
  /\ \E m \in todo[w], taken \in BOOLEAN :
       /\ cur' = [cur EXCEPT ![w] = m]
       /\ pc'  = [pc EXCEPT ![w] = "record_sent"]
       /\ accepted' = IF taken THEN [accepted EXCEPT ![m] = @ + 1] ELSE accepted
  /\ UNCHANGED <<rowVars, todo>>

(* send_message returns, or raises: before the relay took the mail, or     *)
(* (lost_ack) after it did.                                                *)
SendMessage(w) ==
  /\ pc[w] = "send"
  /\ \E m \in todo[w], raised, taken \in BOOLEAN :
       /\ ~raised => taken
       /\ raised /\ taken => "lost_ack" \in Faults
       /\ cur' = [cur EXCEPT ![w] = m]
       /\ pc'  = [pc EXCEPT ![w] = IF raised THEN "record_failed" ELSE "record_sent"]
       /\ accepted' = IF taken THEN [accepted EXCEPT ![m] = @ + 1] ELSE accepted
  /\ UNCHANGED <<rowVars, todo>>

(* Variant: a delivery that cannot be recorded is recorded as failed.      *)
RecordSent_FallsBackToFailed(w) ==
  /\ pc[w] = "record_sent"
  /\ MarkMailSent(cur[w]) \/ MarkMailFailed(cur[w]) \/ RecordingFails(cur[w])
  /\ NextRow(w, cur[w], "send")
  /\ UNCHANGED accepted

RecordSent(w) ==
  /\ pc[w] = "record_sent"
  /\ MarkMailSent(cur[w]) \/ RecordingFails(cur[w])
  /\ NextRow(w, cur[w], "send")
  /\ UNCHANGED accepted

RecordFailed(w) ==
  /\ pc[w] = "record_failed"
  /\ MarkMailFailed(cur[w]) \/ RecordingFails(cur[w])
  /\ NextRow(w, cur[w], "send")
  /\ UNCHANGED accepted

Crash(w) ==
  /\ "crash" \in Faults
  /\ pc[w] # "idle"
  /\ pc'   = [pc EXCEPT ![w] = "idle"]
  /\ todo' = [todo EXCEPT ![w] = {}]
  /\ cur'  = [cur EXCEPT ![w] = NoMail]
  /\ UNCHANGED <<rowVars, accepted>>

(* updated_at falls behind the threshold (60 minutes or more).  Only an    *)
(* overrun lets that happen to a row a live worker still has in its batch. *)
Age(m) ==
  /\ status[m] = "sending"
  /\ m \notin aged
  /\ "overrun" \in Faults \/ \A w \in Workers : m \notin todo[w]
  /\ aged' = aged \cup {m}
  /\ UNCHANGED <<status, lastError, attempts, workerVars, accepted>>

-----------------------------------------------------------------------------
WorkerStep(w) ==
  \/ Connect(w)
  \/ FailUnsentRow(w)
  \/ SendMessage(w)
  \/ RecordSent(w)
  \/ RecordFailed(w)

Next ==
  \/ \E m \in Mails : QueueMail(m) \/ Age(m)
  \/ \E w \in Workers, rf, ru \in BOOLEAN : Claim(w, rf, ru)
  \/ \E w \in Workers : WorkerStep(w) \/ Crash(w)
  \/ ReclaimStaleMail

Spec == Init /\ [][Next]_vars

(* The timer starts a worker again and again, a started process runs, and  *)
(* the operator eventually reclaims what was left in sending.              *)
TimerRun == \E w \in Workers : Claim(w, FALSE, FALSE)

Fairness ==
  /\ WF_vars(TimerRun)
  /\ \A w \in Workers : WF_vars(WorkerStep(w))
  /\ \A m \in Mails : WF_vars(Age(m))
  /\ WF_vars(ReclaimStaleMail)

FairSpec == Spec /\ Fairness

-----------------------------------------------------------------------------
(* Properties.                                                             *)

(* A row is recorded as sent only if the relay really accepted the mail:   *)
(* neither a second worker nor the reclaim can produce that record for a   *)
(* mail that never left, in any interleaving and under every fault.        *)
SentMeansAccepted ==
  \A m \in Mails : status[m] = "sent" => accepted[m] >= 1

(* The recipient gets at most one copy, whatever mix of timer runs, manual *)
(* retries, crashes and reclaims produced it.                              *)
AtMostOneCopy ==
  \A m \in Mails : accepted[m] <= 1

(* A row a plain run or --retry-failed would pick up belongs to a mail the *)
(* relay never took: a mail that was taken but could not be recorded stays *)
(* in sending or carries the [unconfirmed] mark.                           *)
RetryableMeansUndelivered ==
  \A m \in Mails :
    status[m] = "queued" \/ (status[m] = "failed" /\ ~Unconfirmed(m)) => accepted[m] = 0

(* The transitions guard_mail_outbox_update lets through.                  *)
LegalTransitions ==
  { <<"none", "queued">>,    <<"queued", "sending">>, <<"sending", "sent">>,
    <<"sending", "failed">>, <<"failed", "sending">> }

(* No step of any process, however late, asks the trigger for a transition *)
(* it rejects: sent is final, sent is entered from sending only, and the   *)
(* attempts of a row never decrease.                                       *)
TriggerNeverRejects ==
  [][ \A m \in Mails :
        /\ status'[m] # status[m] => <<status[m], status'[m]>> \in LegalTransitions
        /\ attempts'[m] >= attempts[m] ]_vars

(* What is queued is eventually settled, although workers crash and calls  *)
(* fail: by a timer run, or by the reclaim of the row it left in sending.  *)
QueuedIsSettled ==
  \A m \in Mails : status[m] = "queued" ~> status[m] \in {"sent", "failed"}

(* The abstract view of a row: everything between the INSERT and the       *)
(* record of the delivery is one open entry.                               *)
Ledger(m) ==
  IF status[m] = "none" THEN "absent" ELSE IF status[m] = "sent" THEN "sent" ELSE "open"

Promise == INSTANCE MailPromise WITH
             ledger <- [m \in Mails |-> Ledger(m)],
             copies <- accepted

(* The queue with its workers implements the promise: one hand-over per    *)
(* mail, recorded afterwards.                                              *)
PromiseKept == Promise!Spec

=============================================================================
