----------------------- MODULE QuestionnaireMailProofs ------------------------
(***************************************************************************)
(* Theorems about questionnaires and their mails, for any questionnaires,  *)
(* mails, clerks and workers, under every fault.                           *)
(***************************************************************************)
EXTENDS QuestionnaireMail, MailOutboxProofs, FiniteSetTheorems

(* A clerk's transaction has the row of a draft, and no two have the same. *)
DraftsLocked ==
  /\ \A c \in Clerks : rowLock[c] # NoQuestionnaire => qstatus[rowLock[c]] = "draft"
  /\ \A c, d \in Clerks : rowLock[c] = rowLock[d] /\ rowLock[c] # NoQuestionnaire => c = d

(* A mail carries a questionnaire that has left the clerks' hands, and no  *)
(* two carry the same.                                                     *)
MailsCarry ==
  /\ \A m \in Mails : related[m] # NoQuestionnaire =>
       /\ status[m] # "none"
       /\ qstatus[related[m]] \notin {"none", "draft"}
  /\ \A m, n \in Mails : related[m] = related[n] /\ related[m] # NoQuestionnaire => m = n

(* What a questionnaire that waits, or is shown as sent, has for a mail.   *)
Open(m) == status[m] \in {"queued", "sending", "failed"}

MailsAnswer ==
  \A q \in Questionnaires :
    /\ qstatus[q] = "queued" => \E m \in Mails : related[m] = q /\ Open(m)
    /\ qstatus[q] = "sent"   => \E m \in Mails : related[m] = q /\ status[m] = "sent"

QInv == DraftsLocked /\ MailsCarry /\ MailsAnswer

-----------------------------------------------------------------------------
(* What the steps of the mail queue mean for the questionnaires.           *)

(* Every step here is a step of the queue or leaves its variables alone.   *)
LEMMA QueueSteps ==
  ASSUME [QNext]_allVars
  PROVE  [Next]_vars
<1> USE DEF Next, WorkerStep
<1>1. CASE MailStep
  BY <1>1 DEF MailStep
<1>2. CASE \E w \in Workers : RecordSentQ(w)
  BY <1>2 DEF RecordSentQ
<1>3. CASE \E m \in Mails : QueueNotice(m)
  BY <1>3 DEF QueueNotice
<1>4. ASSUME NEW q \in Questionnaires,
             CreateQuestionnaire(q) \/ RecordAnswers(q) \/ ReviewQuestionnaire(q)
      PROVE  UNCHANGED vars
  BY <1>4 DEF CreateQuestionnaire, RecordAnswers, ReviewQuestionnaire
<1>5. ASSUME NEW c \in Clerks, NEW q \in Questionnaires, SendQuestionnaireLock(c, q)
      PROVE  UNCHANGED vars
  BY <1>5 DEF SendQuestionnaireLock
<1>6. ASSUME NEW c \in Clerks, SendQuestionnaireAbort(c)
      PROVE  UNCHANGED vars
  BY <1>6 DEF SendQuestionnaireAbort
<1>7. CASE \E c \in Clerks, m \in Mails : SendQuestionnaireCommit(c, m)
  BY <1>7 DEF SendQuestionnaireCommit
<1>8. CASE UNCHANGED allVars
  BY <1>8 DEF allVars
<1> QED
  BY <1>1, <1>2, <1>3, <1>4, <1>5, <1>6, <1>7, <1>8 DEF QNext

(* A row keeps its status, or moves between those in which it is open.     *)
StaysOpen(m) == status'[m] = status[m] \/ (Open(m) /\ Open(m)')

(* Claims, failures, crashes and the reclaim do not settle a row.          *)
LEMMA MailStepStaysOpen ==
  ASSUME TypeOK, MailStep, NEW m \in Mails
  PROVE  StaysOpen(m)
<1> USE DEF StaysOpen, Open
<1>1. ASSUME NEW k, MarkMailFailed(k) \/ RecordingFails(k)
      PROVE  StaysOpen(m)
  BY <1>1 DEF MarkMailFailed, RecordingFails, rowVars, TypeOK
<1>2. ASSUME NEW w \in Workers, NEW rf \in BOOLEAN, NEW ru \in BOOLEAN, Claim(w, rf, ru)
      PROVE  StaysOpen(m)
  <2>1. PICK locked \in SUBSET Claimable(rf, ru) :
          LET batch == OldestFirst(Claimable(rf, ru) \ locked, BatchLimit)
          IN  status' = [n \in Mails |-> IF n \in batch THEN "sending" ELSE status[n]]
    BY <1>2 DEF Claim, ClaimMailBatch
  <2> DEFINE batch == OldestFirst(Claimable(rf, ru) \ locked, BatchLimit)
  <2>2. m \in batch => status[m] \in {"queued", "failed"}
    BY BatchIsClaimable DEF Claimable
  <2>3. status'[m] = IF m \in batch THEN "sending" ELSE status[m]
    BY <2>1
  <2> HIDE DEF batch
  <2> QED BY <2>2, <2>3
<1>3. ASSUME NEW w \in Workers, Connect(w) \/ SendMessage(w) \/ Crash(w)
      PROVE  StaysOpen(m)
  BY <1>3 DEF Connect, SendMessage, Crash, rowVars
<1>4. ASSUME NEW w \in Workers, FailUnsentRow(w) \/ RecordFailed(w)
      PROVE  StaysOpen(m)
  BY <1>1, <1>4 DEF FailUnsentRow, RecordFailed
<1>5. CASE ReclaimStaleMail
  BY <1>5 DEF ReclaimStaleMail
<1>6. ASSUME NEW k \in Mails, Age(k)
      PROVE  StaysOpen(m)
  BY <1>6 DEF Age
<1> QED
  BY <1>2, <1>3, <1>4, <1>5, <1>6 DEF MailStep

(* The record of a delivery settles a row that is being sent, or does      *)
(* nothing.                                                                *)
LEMMA RecordSentSettles ==
  ASSUME TypeOK, SentInv, NEW w \in Workers, RecordSent(w)
  PROVE  /\ cur[w] \in Mails
         /\ \/ status' = status
            \/ status[cur[w]] = "sending" /\ status' = [status EXCEPT ![cur[w]] = "sent"]
BY DEF RecordSent, SentInv, Witnessed, MarkMailSent, RecordingFails, rowVars

-----------------------------------------------------------------------------
(* The types.                                                              *)

LEMMA QTypeStep ==
  ASSUME QTypeOK, [QNext]_allVars
  PROVE  QTypeOK'
<1> USE DEF QTypeOK, QStatuses
<1>0. TypeOK'
  BY QueueSteps, TypeStep
<1>1. CASE MailStep
  BY <1>0, <1>1 DEF MailStep, qVars
<1>2. ASSUME NEW w \in Workers, RecordSentQ(w)
      PROVE  QTypeOK'
  BY <1>0, <1>2 DEF RecordSentQ, QuestionnaireFollows, MoveQuestionnaire
<1>3. ASSUME NEW m \in Mails, QueueNotice(m)
      PROVE  QTypeOK'
  BY <1>0, <1>3 DEF QueueNotice, qVars
<1>4. ASSUME NEW q \in Questionnaires,
             CreateQuestionnaire(q) \/ RecordAnswers(q) \/ ReviewQuestionnaire(q)
      PROVE  QTypeOK'
  BY <1>0, <1>4 DEF CreateQuestionnaire, RecordAnswers, ReviewQuestionnaire, MoveQuestionnaire
<1>5. ASSUME NEW c \in Clerks, NEW q \in Questionnaires, SendQuestionnaireLock(c, q)
      PROVE  QTypeOK'
  BY <1>0, <1>5 DEF SendQuestionnaireLock
<1>6. ASSUME NEW c \in Clerks, SendQuestionnaireAbort(c)
      PROVE  QTypeOK'
  BY <1>0, <1>6 DEF SendQuestionnaireAbort
<1>7. ASSUME NEW c \in Clerks, NEW m \in Mails, SendQuestionnaireCommit(c, m)
      PROVE  QTypeOK'
  BY <1>0, <1>7 DEF SendQuestionnaireCommit
<1>8. CASE UNCHANGED allVars
  BY <1>0, <1>8 DEF allVars, qVars
<1> QED
  BY <1>1, <1>2, <1>3, <1>4, <1>5, <1>6, <1>7, <1>8 DEF QNext

LEMMA QTypeInit ==
  ASSUME QInit
  PROVE  QTypeOK
<1>1. TypeOK
  BY TypeInit DEF QInit
<1> QED
  BY <1>1 DEF QInit, QTypeOK, QStatuses

(* Questionnaires, row locks and mails keep their types.                   *)
THEOREM QTypeCorrect == QSpec => []QTypeOK
BY QTypeInit, QTypeStep, PTL DEF QSpec

(* A row is recorded as sent only when the relay took the mail: the queue  *)
(* keeps that whatever the clerks do beside it.                            *)
THEOREM QSentIsAccepted == QSpec => []SentMeansAccepted
<1>1. QInit => SentInv
  BY SentInit DEF QInit
<1>2. QTypeOK /\ SentInv /\ [QNext]_allVars => SentInv'
  BY QueueSteps, SentStep DEF QTypeOK
<1>3. SentInv => SentMeansAccepted
  BY DEF SentInv
<1> QED
  BY <1>1, <1>2, <1>3, QTypeCorrect, PTL DEF QSpec

-----------------------------------------------------------------------------
(* The two tables.                                                         *)

LEMMA QInvInit ==
  ASSUME QInit
  PROVE  QInv
BY QuestionnaireMailAssumption
   DEF QInit, Init, QInv, DraftsLocked, MailsCarry, MailsAnswer, QuestionnaireMailAssumption

(* A step that leaves the questionnaires alone and settles no row.         *)
LEMMA QuietKeepsQInv ==
  ASSUME QInv, UNCHANGED qVars, \A m \in Mails : StaysOpen(m)
  PROVE  QInv'
BY DEF QInv, DraftsLocked, MailsCarry, MailsAnswer, StaysOpen, Open, qVars

(* A step of a request that moves one questionnaire nobody has locked, and *)
(* that neither queues nor settles a mail of it.                           *)
LEMMA MoveKeepsQInv ==
  ASSUME QTypeOK, QInv, UNCHANGED <<status, related, rowLock>>, NEW q \in Questionnaires,
         NEW from, NEW to \in {"draft", "submitted", "reviewed"}, MoveQuestionnaire(q, from, to),
         from = {"none"} <=> to = "draft", from \subseteq QStatuses \ {"draft"},
         "none" \in from => from = {"none"}
  PROVE  QInv'
<1>1. /\ qstatus[q] \in from /\ qstatus'[q] = to
      /\ \A p \in Questionnaires : p # q => qstatus'[p] = qstatus[p]
      /\ \A c \in Clerks : rowLock[c] # q
  BY DEF MoveQuestionnaire, Locked, QTypeOK
<1>2. DraftsLocked'
  BY <1>1 DEF QInv, DraftsLocked, QTypeOK
<1>3. MailsCarry'
  BY <1>1 DEF QInv, MailsCarry, QTypeOK
<1>4. MailsAnswer'
  BY <1>1 DEF QInv, MailsAnswer, Open
<1> QED
  BY <1>2, <1>3, <1>4 DEF QInv

(* The transaction that sends a questionnaire queues its first mail.       *)
LEMMA CommitKeepsQInv ==
  ASSUME QTypeOK, QInv, NEW c \in Clerks, NEW m \in Mails, SendQuestionnaireCommit(c, m)
  PROVE  QInv'
<1> DEFINE q == rowLock[c]
<1>1. /\ q \in Questionnaires /\ q # NoQuestionnaire /\ qstatus[q] = "draft"
      /\ status[m] = "none" /\ related[m] = NoQuestionnaire
  BY DEF SendQuestionnaireCommit, QueueMail, QTypeOK, QInv, DraftsLocked, MailsCarry
<1>2. /\ status' = [status EXCEPT ![m] = "queued"]
      /\ related' = [related EXCEPT ![m] = q]
      /\ qstatus' = [qstatus EXCEPT ![q] = "queued"]
      /\ rowLock' = [rowLock EXCEPT ![c] = NoQuestionnaire]
  BY DEF SendQuestionnaireCommit, QueueMail
<1>3. \A n \in Mails : related[n] # q
  BY <1>1 DEF QInv, MailsCarry
<1> HIDE DEF q
<1>4. /\ status'[m] = "queued" /\ related'[m] = q
      /\ \A n \in Mails : n # m => status'[n] = status[n] /\ related'[n] = related[n]
  BY <1>2 DEF QTypeOK, TypeOK
<1>5. qstatus'[q] = "queued" /\ \A p \in Questionnaires : p # q => qstatus'[p] = qstatus[p]
  BY <1>1, <1>2 DEF QTypeOK
<1>6. /\ rowLock'[c] = NoQuestionnaire
      /\ \A d \in Clerks : d # c => rowLock'[d] = rowLock[d] /\ rowLock[d] # q
  BY <1>1, <1>2 DEF QTypeOK, QInv, DraftsLocked, q
<1>7. DraftsLocked'
  BY <1>5, <1>6 DEF QInv, DraftsLocked, QTypeOK
<1>8. MailsCarry'
  BY <1>1, <1>3, <1>4, <1>5 DEF QInv, MailsCarry, QTypeOK
<1>9. MailsAnswer'
  <2> SUFFICES ASSUME NEW p \in Questionnaires
               PROVE  /\ qstatus'[p] = "queued" => \E n \in Mails : related'[n] = p /\ Open(n)'
                      /\ qstatus'[p] = "sent" => \E n \in Mails : related'[n] = p /\ status'[n] = "sent"
    BY DEF MailsAnswer
  <2>1. CASE p = q
    BY <2>1, <1>4, <1>5 DEF Open
  <2>2. CASE p # q
    BY <2>2, <1>1, <1>4, <1>5, QuestionnaireMailAssumption
       DEF QInv, MailsAnswer, Open, QuestionnaireMailAssumption
  <2> QED BY <2>1, <2>2
<1> QED
  BY <1>7, <1>8, <1>9 DEF QInv

(* The record of a delivery takes the questionnaire with it.               *)
LEMMA RecordKeepsQInv ==
  ASSUME QTypeOK, SentInv, QInv, NEW w \in Workers, RecordSentQ(w)
  PROVE  QInv'
<1> DEFINE m == cur[w]
<1> DEFINE q == related[m]
<1>1. /\ m \in Mails
      /\ \/ status' = status
         \/ status[m] = "sending" /\ status' = [status EXCEPT ![m] = "sent"]
  BY RecordSentSettles DEF QTypeOK, RecordSentQ
<1>2. UNCHANGED <<rowLock, related>>
  BY DEF RecordSentQ
<1>3. CASE status' = status
  <2>1. UNCHANGED qVars
    BY <1>1, <1>2, <1>3 DEF RecordSentQ, qVars
  <2> QED BY <1>3, <2>1, QuietKeepsQInv DEF StaysOpen
<1>4. CASE status' # status
  <2>1. status[m] = "sending" /\ status' = [status EXCEPT ![m] = "sent"]
    BY <1>1, <1>4
  <2>2. status'[m] = "sent" /\ \A n \in Mails : n # m => status'[n] = status[n]
    BY <1>1, <2>1 DEF QTypeOK, TypeOK
  <2>3. QuestionnaireFollows(m)
    BY <2>1, <2>2 DEF RecordSentQ
  <2>4. q \in Questionnaires \cup {NoQuestionnaire}
    BY <1>1 DEF QTypeOK
  <2>5. CASE q # NoQuestionnaire /\ qstatus[q] = "queued"
    <3>1. /\ qstatus'[q] = "sent"
          /\ \A p \in Questionnaires : p # q => qstatus'[p] = qstatus[p]
          /\ \A c \in Clerks : rowLock[c] # q
      BY <2>3, <2>4, <2>5 DEF QuestionnaireFollows, MoveQuestionnaire, Locked, QTypeOK
    <3>2. DraftsLocked'
      BY <1>2, <3>1 DEF QInv, DraftsLocked, QTypeOK
    <3>3. MailsCarry'
      BY <1>1, <1>2, <2>2, <3>1 DEF QInv, MailsCarry, QTypeOK
    <3>4. MailsAnswer'
      BY <1>1, <1>2, <2>1, <2>2, <2>5, <3>1 DEF QInv, MailsAnswer, Open
    <3> QED BY <3>2, <3>3, <3>4 DEF QInv
  <2>6. CASE ~(q # NoQuestionnaire /\ qstatus[q] = "queued")
    <3>1. qstatus' = qstatus
      BY <2>3, <2>6 DEF QuestionnaireFollows
    <3>2. MailsAnswer'
      BY <1>1, <1>2, <2>2, <2>6, <3>1, QuestionnaireMailAssumption
         DEF QInv, MailsAnswer, Open, QuestionnaireMailAssumption
    <3>3. DraftsLocked' /\ MailsCarry'
      BY <1>2, <1>1, <2>2, <3>1 DEF QInv, DraftsLocked, MailsCarry
    <3> QED BY <3>2, <3>3 DEF QInv
  <2> QED BY <2>5, <2>6
<1> QED
  BY <1>3, <1>4

LEMMA QInvStep ==
  ASSUME QTypeOK, SentInv, QInv, [QNext]_allVars
  PROVE  QInv'
<1>1. CASE MailStep
  BY <1>1, MailStepStaysOpen, QuietKeepsQInv DEF MailStep, QTypeOK
<1>2. ASSUME NEW w \in Workers, RecordSentQ(w)
      PROVE  QInv'
  BY <1>2, RecordKeepsQInv
<1>3. ASSUME NEW m \in Mails, QueueNotice(m)
      PROVE  QInv'
  <2>1. /\ UNCHANGED <<qstatus, rowLock, related>>
        /\ status[m] = "none" /\ related[m] = NoQuestionnaire
        /\ \A n \in Mails : n # m => status'[n] = status[n]
    BY <1>3 DEF QueueNotice, QueueMail, qVars, QInv, MailsCarry, QTypeOK, TypeOK
  <2> QED BY <2>1, QuestionnaireMailAssumption
             DEF QInv, DraftsLocked, MailsCarry, MailsAnswer, Open, QuestionnaireMailAssumption
<1>4. ASSUME NEW q \in Questionnaires, CreateQuestionnaire(q)
      PROVE  QInv'
  BY <1>4, MoveKeepsQInv DEF CreateQuestionnaire, vars, QStatuses
<1>5. ASSUME NEW q \in Questionnaires, RecordAnswers(q)
      PROVE  QInv'
  BY <1>5, MoveKeepsQInv DEF RecordAnswers, vars, QStatuses
<1>6. ASSUME NEW q \in Questionnaires, ReviewQuestionnaire(q)
      PROVE  QInv'
  BY <1>6, MoveKeepsQInv DEF ReviewQuestionnaire, vars, QStatuses
<1>7. ASSUME NEW c \in Clerks, NEW q \in Questionnaires, SendQuestionnaireLock(c, q)
      PROVE  QInv'
  BY <1>7 DEF SendQuestionnaireLock, vars, Locked, QInv, DraftsLocked, MailsCarry, MailsAnswer,
              Open, QTypeOK
<1>8. ASSUME NEW c \in Clerks, SendQuestionnaireAbort(c)
      PROVE  QInv'
  BY <1>8 DEF SendQuestionnaireAbort, vars, QInv, DraftsLocked, MailsCarry, MailsAnswer,
              Open, QTypeOK
<1>9. ASSUME NEW c \in Clerks, NEW m \in Mails, SendQuestionnaireCommit(c, m)
      PROVE  QInv'
  BY <1>9, CommitKeepsQInv
<1>10. CASE UNCHANGED allVars
  BY <1>10, QuietKeepsQInv DEF allVars, vars, StaysOpen
<1> QED
  BY <1>1, <1>2, <1>3, <1>4, <1>5, <1>6, <1>7, <1>8, <1>9, <1>10 DEF QNext

LEMMA QInvAlways == QSpec => [](QTypeOK /\ SentInv /\ QInv)
<1>1. QInit => QTypeOK /\ SentInv /\ QInv
  BY QTypeInit, QInvInit, SentInit DEF QInit
<1>2. QTypeOK /\ SentInv /\ QInv /\ [QNext]_allVars => (QTypeOK /\ SentInv /\ QInv)'
  BY QTypeStep, QInvStep, QueueSteps, SentStep DEF QTypeOK
<1> QED
  BY <1>1, <1>2, PTL DEF QSpec

(* A questionnaire is mailed by one row only, however many clerks press    *)
(* "send" and wherever their transactions die.                             *)
THEOREM OneMailEach == QSpec => []OneMailPerQuestionnaire
<1>1. ASSUME QTypeOK, QInv, NEW q \in Questionnaires
      PROVE  Cardinality(MailsOf(q)) <= 1
  <2>1. \A m, n \in MailsOf(q) : m = n
    BY <1>1, QuestionnaireMailAssumption DEF MailsOf, QInv, MailsCarry, QuestionnaireMailAssumption
  <2>2. CASE MailsOf(q) = {}
    BY <2>2, FS_EmptySet
  <2>3. CASE MailsOf(q) # {}
    <3>1. PICK m \in MailsOf(q) : TRUE
      BY <2>3
    <3>2. MailsOf(q) = {m}
      BY <2>1, <3>1
    <3> QED BY <3>2, FS_Singleton
  <2> QED BY <2>2, <2>3
<1>2. QTypeOK /\ QInv => OneMailPerQuestionnaire
  BY <1>1 DEF OneMailPerQuestionnaire
<1> QED
  BY <1>2, QInvAlways, PTL

(* What a questionnaire is shown as is what the rows of the mails say.     *)
THEOREM TablesAlwaysAgree == QSpec => []TablesAgree
<1>1. QTypeOK /\ QInv => TablesAgree
  BY QuestionnaireMailAssumption
     DEF QInv, MailsCarry, MailsAnswer, Open, TablesAgree, MailsOf, QTypeOK, QuestionnaireMailAssumption
<1> QED
  BY <1>1, QInvAlways, PTL

(* No step, a delivery recorded late included, takes one back.             *)
THEOREM NeverGoesBack == QSpec => QuestionnaireNeverGoesBack
<1>1. ASSUME QTypeOK, SentInv, QInv, [QNext]_allVars, NEW p \in Questionnaires
      PROVE  Rank(qstatus'[p]) >= Rank(qstatus[p])
  <2> USE DEF Rank, QStatuses
  <2>1. qstatus[p] \in QStatuses /\ qstatus'[p] \in QStatuses
    BY <1>1, QTypeStep DEF QTypeOK
  <2>2. CASE qstatus' = qstatus
    BY <2>1, <2>2
  <2>3. ASSUME NEW q \in Questionnaires, NEW from, NEW to, MoveQuestionnaire(q, from, to),
               <<from, to>> \in { <<{"none"}, "draft">>, <<{"queued"}, "sent">>,
                                  <<{"sent", "queued"}, "submitted">>, <<{"submitted"}, "reviewed">> }
        PROVE  Rank(qstatus'[p]) >= Rank(qstatus[p])
    BY <1>1, <2>1, <2>3 DEF MoveQuestionnaire, QTypeOK
  <2>4. ASSUME NEW w \in Workers, RecordSentQ(w)
        PROVE  Rank(qstatus'[p]) >= Rank(qstatus[p])
    <3>1. cur[w] \in Mails
      BY <1>1, <2>4, RecordSentSettles DEF QTypeOK, RecordSentQ
    <3>2. related[cur[w]] \in Questionnaires \cup {NoQuestionnaire}
      BY <1>1, <3>1 DEF QTypeOK
    <3> QED BY <2>2, <2>3, <2>4, <3>2 DEF RecordSentQ, QuestionnaireFollows
  <2>5. ASSUME NEW c \in Clerks, NEW m \in Mails, SendQuestionnaireCommit(c, m)
        PROVE  Rank(qstatus'[p]) >= Rank(qstatus[p])
    <3>1. qstatus[rowLock[c]] = "draft" /\ qstatus' = [qstatus EXCEPT ![rowLock[c]] = "queued"]
      BY <1>1, <2>5 DEF SendQuestionnaireCommit, QInv, DraftsLocked
    <3> QED BY <1>1, <2>1, <3>1 DEF QTypeOK
  <2>6. ASSUME NEW q \in Questionnaires,
               CreateQuestionnaire(q) \/ RecordAnswers(q) \/ ReviewQuestionnaire(q)
        PROVE  Rank(qstatus'[p]) >= Rank(qstatus[p])
    BY <2>3, <2>6 DEF CreateQuestionnaire, RecordAnswers, ReviewQuestionnaire
  <2>7. ASSUME NEW c \in Clerks, NEW q \in Questionnaires,
               SendQuestionnaireLock(c, q)
        PROVE  qstatus' = qstatus
    BY <2>7 DEF SendQuestionnaireLock
  <2>8. ASSUME NEW c \in Clerks, SendQuestionnaireAbort(c)
        PROVE  qstatus' = qstatus
    BY <2>8 DEF SendQuestionnaireAbort
  <2>9. CASE MailStep \/ (\E m \in Mails : QueueNotice(m)) \/ UNCHANGED allVars
    BY <2>2, <2>9 DEF MailStep, QueueNotice, qVars, allVars
  <2> QED
    BY <1>1, <2>2, <2>4, <2>5, <2>6, <2>7, <2>8, <2>9 DEF QNext
<1>2. QTypeOK /\ SentInv /\ QInv /\ [QNext]_allVars =>
        [ \A q \in Questionnaires : Rank(qstatus'[q]) >= Rank(qstatus[q]) ]_allVars
  BY <1>1
<1> QED
  BY <1>2, QInvAlways, PTL DEF QSpec, QuestionnaireNeverGoesBack

=============================================================================
