-------------------------- MODULE QuestionnaireMail --------------------------
(***************************************************************************)
(* External questionnaires and the mails that carry them.                  *)
(*                                                                         *)
(* The web marks a questionnaire queued in the transaction that inserts    *)
(* its mail; mark_mail_sent marks it sent in the transaction that records  *)
(* the delivery.  In between, clerks record and review answers whatever    *)
(* the mail is doing, and two clerks may press "send" at the same time.    *)
(* The mail rows and the workers are those of MailOutbox.                  *)
(***************************************************************************)
EXTENDS MailOutbox

CONSTANTS
  Questionnaires,
  Clerks,           (* web requests of owners and admins                   *)
  NoQuestionnaire   (* related_id of another kind of mail                  *)

ASSUME QuestionnaireMailAssumption == NoQuestionnaire \notin Questionnaires

VARIABLES
  qstatus,    (* external_questionnaires.status, "none" before the INSERT  *)
  rowLock,    (* questionnaire a clerk's open transaction holds FOR UPDATE *)
  related     (* mail_outbox.related_id                                    *)

qVars   == <<qstatus, rowLock, related>>
allVars == <<vars, qVars>>

QStatuses == {"none", "draft", "queued", "sent", "submitted", "reviewed"}

QTypeOK ==
  /\ TypeOK
  /\ qstatus \in [Questionnaires -> QStatuses]
  /\ rowLock \in [Clerks -> Questionnaires \cup {NoQuestionnaire}]
  /\ related \in [Mails -> Questionnaires \cup {NoQuestionnaire}]

QInit ==
  /\ Init
  /\ qstatus = [q \in Questionnaires |-> "none"]
  /\ rowLock = [c \in Clerks |-> NoQuestionnaire]
  /\ related = [m \in Mails |-> NoQuestionnaire]

Locked(q) == \E c \in Clerks : rowLock[c] = q

(* A one-statement UPDATE of the questionnaire waits for the row lock.     *)
MoveQuestionnaire(q, from, to) ==
  /\ ~Locked(q)
  /\ qstatus[q] \in from
  /\ qstatus' = [qstatus EXCEPT ![q] = to]

CreateQuestionnaire(q) ==
  /\ MoveQuestionnaire(q, {"none"}, "draft")
  /\ UNCHANGED <<vars, rowLock, related>>

(* Variant: the SELECT does not lock the row.                              *)
SendQuestionnaireLock_NoRowLock(c, q) ==
  /\ rowLock[c] = NoQuestionnaire
  /\ qstatus[q] = "draft"
  /\ rowLock' = [rowLock EXCEPT ![c] = q]
  /\ UNCHANGED <<vars, qstatus, related>>

(* sendQuestionnaire up to its SELECT ... FOR UPDATE OF q.                 *)
SendQuestionnaireLock(c, q) ==
  /\ rowLock[c] = NoQuestionnaire
  /\ ~Locked(q)
  /\ qstatus[q] = "draft"
  /\ rowLock' = [rowLock EXCEPT ![c] = q]
  /\ UNCHANGED <<vars, qstatus, related>>

(* The rest of sendQuestionnaire: queueMail, the UPDATE and the commit.    *)
SendQuestionnaireCommit(c, m) ==
  LET q == rowLock[c] IN
  /\ q # NoQuestionnaire
  /\ QueueMail(m)
  /\ related' = [related EXCEPT ![m] = q]
  /\ qstatus' = [qstatus EXCEPT ![q] = "queued"]
  /\ rowLock' = [rowLock EXCEPT ![c] = NoQuestionnaire]

(* The web process dies or the INSERT is refused: the transaction is gone. *)
SendQuestionnaireAbort(c) ==
  /\ rowLock[c] # NoQuestionnaire
  /\ rowLock' = [rowLock EXCEPT ![c] = NoQuestionnaire]
  /\ UNCHANGED <<vars, qstatus, related>>

(* Variant: a status the table does not know.                              *)
RecordAnswers_UnknownStatus(q) ==
  /\ MoveQuestionnaire(q, {"sent", "queued"}, "answered")
  /\ UNCHANGED <<vars, rowLock, related>>

(* recordAnswers with mark_submitted.                                      *)
RecordAnswers(q) ==
  /\ MoveQuestionnaire(q, {"sent", "queued"}, "submitted")
  /\ UNCHANGED <<vars, rowLock, related>>

ReviewQuestionnaire(q) ==
  /\ MoveQuestionnaire(q, {"submitted"}, "reviewed")
  /\ UNCHANGED <<vars, rowLock, related>>

(* A mail that carries no questionnaire (a work assignment notice).        *)
QueueNotice(m) ==
  /\ QueueMail(m)
  /\ UNCHANGED qVars

(* Variant: the questionnaire is moved whatever its status.                *)
QuestionnaireFollows_AnyStatus(m) ==
  LET q == related[m] IN
  IF q # NoQuestionnaire
  THEN MoveQuestionnaire(q, QStatuses, "sent")
  ELSE UNCHANGED qstatus

(* Variant: the questionnaire is left where it was.                        *)
QuestionnaireFollows_Never(m) == UNCHANGED qstatus

(* mark_mail_sent moves the questionnaire of the mail from queued to sent  *)
(* in the same transaction.                                                *)
QuestionnaireFollows(m) ==
  LET q == related[m] IN
  IF q # NoQuestionnaire /\ qstatus[q] = "queued"
  THEN MoveQuestionnaire(q, {"queued"}, "sent")
  ELSE UNCHANGED qstatus

RecordSentQ(w) ==
  /\ RecordSent(w)
  /\ IF status'[cur[w]] # status[cur[w]]
     THEN QuestionnaireFollows(cur[w])
     ELSE UNCHANGED qstatus
  /\ UNCHANGED <<rowLock, related>>

MailStep ==
  /\ \/ \E m \in Mails : Age(m)
     \/ \E w \in Workers, rf, ru \in BOOLEAN : Claim(w, rf, ru)
     \/ \E w \in Workers :
          Connect(w) \/ FailUnsentRow(w) \/ SendMessage(w) \/ RecordFailed(w) \/ Crash(w)
     \/ ReclaimStaleMail
  /\ UNCHANGED qVars

QNext ==
  \/ MailStep
  \/ \E w \in Workers : RecordSentQ(w)
  \/ \E m \in Mails : QueueNotice(m)
  \/ \E q \in Questionnaires :
       CreateQuestionnaire(q) \/ RecordAnswers(q) \/ ReviewQuestionnaire(q)
  \/ \E c \in Clerks, q \in Questionnaires : SendQuestionnaireLock(c, q)
  \/ \E c \in Clerks, m \in Mails : SendQuestionnaireCommit(c, m)
  \/ \E c \in Clerks : SendQuestionnaireAbort(c)

QSpec == QInit /\ [][QNext]_allVars

-----------------------------------------------------------------------------
(* Properties.                                                             *)

MailsOf(q) == { m \in Mails : related[m] = q /\ status[m] # "none" }

(* However many clerks press "send" and however the transactions           *)
(* interleave or die, a questionnaire is mailed by one row only.           *)
OneMailPerQuestionnaire ==
  \A q \in Questionnaires : Cardinality(MailsOf(q)) <= 1

(* The two tables agree: a questionnaire waiting in queued has a mail that *)
(* can still go out, one shown as sent has a mail recorded as sent, and a  *)
(* mail recorded as sent never leaves its questionnaire in queued.         *)
TablesAgree ==
  \A q \in Questionnaires :
    /\ qstatus[q] \in {"none", "draft"} => MailsOf(q) = {}
    /\ qstatus[q] = "queued" =>
         \E m \in MailsOf(q) : status[m] \in {"queued", "sending", "failed"}
    /\ qstatus[q] = "sent" => \E m \in MailsOf(q) : status[m] = "sent"

(* A late delivery record never takes a questionnaire backwards, from      *)
(* answers received or reviewed to merely sent.                            *)
Rank(s) ==
  CASE s = "none" -> 0 [] s = "draft" -> 1 [] s = "queued" -> 2
    [] s = "sent" -> 3 [] s = "submitted" -> 4 [] s = "reviewed" -> 5

QuestionnaireNeverGoesBack ==
  [][ \A q \in Questionnaires : Rank(qstatus'[q]) >= Rank(qstatus[q]) ]_allVars

=============================================================================
