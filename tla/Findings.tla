------------------------------ MODULE Findings ------------------------------
(***************************************************************************)
(* Findings and what follows from them on the records screen: corrective   *)
(* actions, exceptions, and the management review with its approvals.  A   *)
(* row is named by the transaction that made it.                           *)
(***************************************************************************)
EXTENDS Requests, Functions, SequencesExt

CONSTANTS
  Minutes     (* what the minutes of a review may say, None for nothing    *)

VARIABLES
  finding,    (* status of each finding and who verified it                *)
  exceptions, (* exceptions by id: the finding, and not expired yet        *)
  corrective, (* corrective actions: finding, owner, completed, reviewer   *)
  review,     (* the management review of the year: the day it is held     *)
              (* (None, "past" or "future") and its minutes                *)
  approvals   (* approvals of it by id: the minutes they are about         *)

findingVars == <<finding, exceptions, corrective, review, approvals>>

FindingRow(f) == <<"findings", f>>
CorrectiveRow(c) == <<"corrective_actions", c>>
ReviewRow == <<"management_reviews">>

FindingsTypeOK ==
  /\ \A f \in DOMAIN finding :
       finding[f] \in [status : {"detected", "in_remediation", "remediated", "verified", "closed", "exception"},
                       verifier : People \cup {None}]
  /\ \A x \in DOMAIN exceptions : exceptions[x] \in [finding : DOMAIN finding, live : BOOLEAN]
  /\ \A c \in DOMAIN corrective :
       corrective[c] \in [finding : DOMAIN finding, owner : People \cup {None}, done : BOOLEAN,
                          reviewer : People \cup {None}]
  /\ review \in {None} \cup [held : {None, "past", "future"}, minutes : Minutes \cup {None}]
  /\ Range(approvals) \subseteq Minutes

(* The findings and exceptions of before were made by none of the requests,*)
(* and each finding went one way.                                          *)
ASSUME FindingsAssumption ==
  \A name \in DOMAIN Plans :
    LET tables == Plans[name].tables
    IN  /\ Requests \cap (DOMAIN tables.finding \cup DOMAIN tables.exceptions) = {}
        /\ \A f \in DOMAIN tables.finding :
             /\ DOMAIN tables.finding[f] = {"status", "verifier"}
             /\ tables.finding[f].status \in {"verified", "closed"} => tables.finding[f].verifier # None
             /\ tables.finding[f].status = "exception" =>
                  \E x \in DOMAIN tables.exceptions : tables.exceptions[x].finding = f
        /\ \A x \in DOMAIN tables.exceptions :
             /\ DOMAIN tables.exceptions[x] = {"finding", "live"}
             /\ tables.exceptions[x].finding \in DOMAIN tables.finding
             /\ tables.exceptions[x].live =>
                  /\ tables.finding[tables.exceptions[x].finding].status = "exception"
                  /\ \A y \in DOMAIN tables.exceptions \ {x} :
                       tables.exceptions[y].live => tables.exceptions[y].finding # tables.exceptions[x].finding

-----------------------------------------------------------------------------
(* Findings.                                                               *)

SaveFinding(t) ==
  /\ Once(t, "saveFinding", Lock(Update, FindingRow(t)))
  /\ finding' = WithRow(finding, t, [status |-> "detected", verifier |-> None])
  /\ UNCHANGED <<exceptions, corrective, review, approvals>>

(* FINDING_FROM: the statuses a step may be taken from; no finding of the  *)
(* screens is ever retest_passed.                                          *)
FINDING_FROM ==
  [ in_remediation |-> {"detected", "remediated"},
    remediated     |-> {"in_remediation"},
    verified       |-> {"remediated"},
    closed         |-> {"verified"} ]

(* nextFindingSteps: what the screen lets one choose.                      *)
NextFindingSteps(status) == {to \in DOMAIN FINDING_FROM : status \in FINDING_FROM[to]}

MayAdvance(f, to) ==
  /\ finding[f].status \in FINDING_FROM[to]
  /\ to = "closed" => finding[f].verifier # None

(* Variant: the finding is read without FOR UPDATE.                        *)
FindingLocks_None(f) == <<>>

FindingLocks(f) == <<Lock(Update, FindingRow(f))>>

BeginAdvanceFinding(t) ==
  /\ \E f \in DOMAIN finding, u \in People : \E to \in NextFindingSteps(finding[f].status) :
       Begin(t, "advanceFinding", [id |-> f, to |-> to, by |-> u], "advanceFinding", FindingLocks(f))
  /\ UNCHANGED findingVars

AdvanceFinding(t) ==
  /\ At(t, "advanceFinding")
  /\ LET arg == req[t].arg
     IN  IF MayAdvance(arg.id, arg.to)
         THEN Goto(t, "writeFinding", <<Lock(Write, FindingRow(arg.id))>>, None)
         ELSE Done(t)
  /\ UNCHANGED <<plan, active, findingVars>>

WriteFinding(t) ==
  /\ At(t, "writeFinding")
  /\ LET arg == req[t].arg
     IN  finding' = [finding EXCEPT ![arg.id] =
                       [status |-> arg.to, verifier |-> IF arg.to = "verified" THEN arg.by ELSE @.verifier]]
  /\ Done(t)
  /\ UNCHANGED <<plan, active, exceptions, corrective, review, approvals>>

-----------------------------------------------------------------------------
(* Exceptions: a finding is accepted until a date.                         *)

LiveExceptions(f) == {x \in DOMAIN exceptions : exceptions[x].finding = f /\ exceptions[x].live}

(* approveException also renews an exception that has expired.             *)
MayBeExcepted(f) ==
  \/ finding[f].status \notin {"verified", "closed", "exception"}
  \/ finding[f].status = "exception" /\ LiveExceptions(f) = {}

BeginApproveException(t) ==
  /\ \E f \in DOMAIN finding :
       MayBeExcepted(f) /\ Begin(t, "approveException", f, "approveException", FindingLocks(f))
  /\ UNCHANGED findingVars

ApproveException(t) ==
  /\ At(t, "approveException")
  /\ IF MayBeExcepted(req[t].arg)
     THEN Goto(t, "writeException", <<Lock(Write, FindingRow(req[t].arg))>>, None)
     ELSE Done(t)
  /\ UNCHANGED <<plan, active, findingVars>>

WriteException(t) ==
  /\ At(t, "writeException")
  /\ exceptions' = WithRow(exceptions, t, [finding |-> req[t].arg, live |-> TRUE])
  /\ finding' = [finding EXCEPT ![req[t].arg].status = "exception"]
  /\ Done(t)
  /\ UNCHANGED <<plan, active, corrective, review, approvals>>

(* expires_at passes.                                                      *)
ExpireException ==
  /\ \E x \in DOMAIN exceptions :
       exceptions[x].live /\ exceptions' = [exceptions EXCEPT ![x].live = FALSE]
  /\ UNCHANGED <<plan, active, requestVars, finding, corrective, review, approvals>>

-----------------------------------------------------------------------------
(* Corrective actions.                                                     *)

SaveCorrective(t) ==
  /\ \E f \in DOMAIN finding, u \in People \cup {None} :
       /\ Once(t, "saveCorrective", Lock(Key, FindingRow(f)))
       /\ corrective' = WithRow(corrective, t, [finding |-> f, owner |-> u, done |-> FALSE, reviewer |-> None])
  /\ UNCHANGED <<finding, exceptions, review, approvals>>

CompleteCorrective(t) ==
  /\ \E c \in DOMAIN corrective :
       /\ Once(t, "completeCorrective", Lock(Write, CorrectiveRow(c)))
       /\ corrective' = [corrective EXCEPT ![c].done = TRUE]
  /\ UNCHANGED <<finding, exceptions, review, approvals>>

(* Not before it is completed, and not by its owner; nobody changes either *)
(* afterwards, so it does not matter that they are read without a lock.    *)
MayReview(c, u) == corrective[c].done /\ corrective[c].owner # u

ReviewCorrective(t) ==
  /\ \E c \in DOMAIN corrective, u \in People :
       /\ Once(t, "reviewCorrective", Lock(Write, CorrectiveRow(c)))
       /\ corrective' = IF MayReview(c, u)
                        THEN [corrective EXCEPT ![c].reviewer = u] ELSE corrective
  /\ UNCHANGED <<finding, exceptions, review, approvals>>

-----------------------------------------------------------------------------
(* The management review.                                                  *)

(* A second review of the year is refused by a unique constraint; the form *)
(* of the review there is replaces what it says.                           *)
SaveReview(t) ==
  /\ Free(t, "saveReview")
  /\ \E met \in {None, "past", "future"}, minutes \in Minutes \cup {None}, new \in BOOLEAN :
       /\ Once(t, "saveReview", Lock(IF new THEN Update ELSE Write, ReviewRow))
       /\ review' = IF new = (review = None) THEN [held |-> met, minutes |-> minutes] ELSE review
  /\ UNCHANGED <<finding, exceptions, corrective, approvals>>

(* The day of the review comes.                                            *)
ReviewDayComes ==
  /\ review # None
  /\ review.held = "future"
  /\ review' = [review EXCEPT !.held = "past"]
  /\ UNCHANGED <<plan, active, requestVars, finding, exceptions, corrective, approvals>>

Approvable == review # None /\ review.held = "past" /\ review.minutes \notin {None} \cup Range(approvals)

(* approveReview looks at the review, then app.approve_management_review   *)
(* looks again and writes; neither takes a lock.                           *)
BeginApproveReview(t) ==
  /\ Approvable
  /\ Begin(t, "approveReview", None, "approveReview", <<>>)
  /\ UNCHANGED findingVars

ApproveReview(t) ==
  /\ At(t, "approveReview")
  /\ IF Approvable THEN Goto(t, "recordApproval", <<>>, review.minutes) ELSE Done(t)
  /\ UNCHANGED <<plan, active, findingVars>>

RecordApproval(t) ==
  /\ At(t, "recordApproval")
  /\ approvals' = WithRow(approvals, t, req[t].saw)
  /\ Done(t)
  /\ UNCHANGED <<plan, active, finding, exceptions, corrective, review>>

-----------------------------------------------------------------------------
FindingStep(t) ==
  \/ SaveFinding(t) \/ BeginAdvanceFinding(t) \/ AdvanceFinding(t) \/ WriteFinding(t)
  \/ BeginApproveException(t) \/ ApproveException(t) \/ WriteException(t)
  \/ SaveCorrective(t) \/ CompleteCorrective(t) \/ ReviewCorrective(t)
  \/ SaveReview(t) \/ BeginApproveReview(t) \/ ApproveReview(t) \/ RecordApproval(t)
=============================================================================
