----------------------------- MODULE RecordsPage -----------------------------
(***************************************************************************)
(* The page of the records, as it would be if somebody opened it now: what *)
(* each of its sections lists, what it marks as done or in force, and the  *)
(* forms it offers on the rows.  The page of the steps counts the same     *)
(* tables by queries of its own, and the server actions examine again what *)
(* the forms ask for.                                                      *)
(***************************************************************************)
EXTENDS StepPage

CONSTANT LIST_LIMIT     (* rows of a long list that are shown              *)

ASSUME ListAssumption == LIST_LIMIT \in Nat

(* The lists that are cut off.                                             *)
Limited == {"audits", "auditFindings", "correctiveActions", "controlEffectiveness", "evidences",
            "continuityTests", "vulnerabilities", "changeRequests"}

Shown(name, rows) ==
  IF name \in Limited /\ Cardinality(rows) > LIST_LIMIT THEN kSubset(LIST_LIMIT, rows) ELSE {rows}

(* Variant: only a list that is longer than the limit is said to be cut.   *)
Truncated_Beyond(name, shown) == name \in Limited /\ Cardinality(shown) > LIST_LIMIT

(* The page says that there may be more.                                   *)
Truncated(name, shown) == name \in Limited /\ Cardinality(shown) >= LIST_LIMIT

performedBadge(date) ==
  IF date = None THEN "not performed" ELSE IF date = "past" THEN "performed" ELSE "planned"

(* What the selects offer.                                                 *)
PeopleOffered   == {u \in active : MembershipsOf(u) # {}}
AuditorsOffered == PeopleOffered \cap Auditors

canTakeException(status) == status \in {"detected", "in_remediation", "remediated"}

-----------------------------------------------------------------------------
(* A section: the rows of its list, those shown as done or in force, and   *)
(* the forms: a server action, the row, and what one chooses.  Forms that  *)
(* only add a row with whatever one writes are left out, and so is the     *)
(* role of the one who looks, except where it is the ciso's alone.         *)

Forms(op, rows, choices) == {op} \X rows \X choices

AuditSection ==
  [rows  |-> Entries("audit"),
   done  |-> {a \in Entries("audit") : performedBadge(journal[a].day) = "performed"},
   forms |-> Forms("saveAudit", {None}, AuditorsOffered)]

FindingSection ==
  [rows  |-> DOMAIN finding,
   done  |-> DOMAIN finding,
   forms |-> UNION {Forms("advanceFinding", {f}, NextFindingSteps(finding[f].status)) : f \in DOMAIN finding}]

CorrectiveSection ==
  LET completed == {c \in DOMAIN corrective : corrective[c].done}
  IN  [rows  |-> DOMAIN corrective,
       done  |-> DOMAIN corrective,
       forms |-> Forms("saveCorrective", DOMAIN finding, PeopleOffered)
                 \cup Forms("completeCorrective", DOMAIN corrective \ completed, {None})
                 \cup Forms("reviewCorrective", {c \in completed : corrective[c].reviewer = None}, {None})]

ReviewSection(u) ==
  LET rows == IF review = None THEN {} ELSE {ReviewRow}
  IN  [rows  |-> rows,
       done  |-> {r \in rows : performedBadge(review.held) = "performed"},
       forms |-> Forms("addReviewOutput", rows, PeopleOffered)
                 \cup Forms("approveReview", IF u \in Chiefs THEN rows ELSE {}, {None})]

EffectivenessSection ==
  [rows |-> Entries("effectiveness"), done |-> Entries("effectiveness"), forms |-> {}]

ObjectiveSection ==
  LET planned == ActiveRows("objective")
  IN  [rows  |-> Rows("objective"),
       done  |-> planned,
       forms |-> Forms("evaluateObjective", {s \in planned : standing[s].judged = None}, {None})]

(* A vendor is shown with its assessments; one of them is due again.       *)
VendorSection ==
  [rows  |-> Vendors,
   done  |-> {v \in Vendors : \E j \in Entries("assessment") : journal[j].of = v},
   forms |-> {}]

(* Evidence that is stale is not shown as valid.                           *)
EvidenceSection ==
  [rows |-> Entries("evidence"), done |-> {e \in Entries("evidence") : journal[e].due = "future"}, forms |-> {}]

ExceptionSection(u) ==
  [rows  |-> DOMAIN exceptions,
   done  |-> {x \in DOMAIN exceptions : exceptions[x].live},
   forms |-> IF u \in Chiefs
             THEN Forms("approveException", {f \in DOMAIN finding : canTakeException(finding[f].status)}, {None})
             ELSE {}]

ContextSection ==
  LET listed == Rows("issue")
      stands == {s \in listed : standing[s].active}
  IN  [rows  |-> listed,
       done  |-> stands,
       forms |-> Forms("reviewContext", stands, {None}) \cup Forms("retireContext", stands, {None})
                 \cup Forms("updateContextIssue", stands, PeopleOffered)
                 \cup Forms("reactivateContext", listed \ stands, {None})]

PartySection ==
  LET listed == Rows("party")
      stands == {s \in listed : standing[s].active}
  IN  [rows  |-> listed,
       done  |-> stands,
       forms |-> Forms("reviewContext", stands, {None}) \cup Forms("retireContext", stands, {None})
                 \cup Forms("updateInterestedParty", stands, PeopleOffered)
                 \cup Forms("reactivateContext", listed \ stands, {None})]

LegalSection ==
  LET listed == Rows("legal")
      stands == {s \in listed : standing[s].active}
  IN  [rows  |-> listed,
       done  |-> stands,
       forms |-> Forms("assessLegalRequirement", stands, {None}) \cup Forms("retireLegalRequirement", stands, {None})
                 \cup Forms("updateLegalRequirement", stands, PeopleOffered)
                 \cup Forms("reactivateLegalRequirement", listed \ stands, {None})]

ContinuitySection ==
  LET listed == Rows("plan")
      stands == {s \in listed : standing[s].active}
  IN  [rows  |-> listed,
       done  |-> stands,
       forms |-> Forms("retireContinuityPlan", stands, {None}) \cup Forms("recordContinuityTest", stands, {None})
                 \cup Forms("updateContinuityPlan", stands, PeopleOffered)
                 \cup Forms("reactivateContinuityPlan", listed \ stands, {None})]

TestSection == [rows |-> DOMAIN tests, done |-> DOMAIN tests, forms |-> {}]

VulnerabilitySection ==
  LET In(status) == {v \in DOMAIN vulnerability : vulnerability[v] = status}
  IN  [rows  |-> DOMAIN vulnerability,
       done  |-> DOMAIN vulnerability \ In("false_positive"),
       forms |-> Forms("progressVulnerability", In("open"), {"in_progress"})
                 \cup Forms("progressVulnerability", In("open") \cup In("in_progress"),
                            {"mitigated", "false_positive"})
                 \cup Forms("saveVulnerability", {None}, AssetsOffered)]

(* Variant: the page does not know who looks at it.                        *)
DecisionOffered_Anybody(c, u) == change[c].status = "requested" /\ u \in Chiefs

DecisionOffered(c, u) == change[c].status = "requested" /\ u \in Chiefs /\ change[c].by # u

(* The form of a change keeps the asset it names although that is retired. *)
UpdateForms ==
  UNION {Forms("updateChangeRequest", {c}, AssetsOffered \cup {AssetOf(ChangeRow(c))}) : c \in Pending}

ChangeSection(u) ==
  [rows  |-> DOMAIN change,
   done  |-> {c \in DOMAIN change : change[c].status # "cancelled"},
   forms |-> Forms("decideChangeRequest", {c \in DOMAIN change : DecisionOffered(c, u)}, {None})
             \cup Forms("implementChange", Approved, {None})
             \cup Forms("cancelChange", Pending \cup Approved, {None})
             \cup UpdateForms
             \cup Forms("requestChange", {None}, AssetsOffered)]

(* The whole page, by what the page of the steps counts.                   *)
Page(u) ==
  [audits |-> AuditSection, auditFindings |-> FindingSection, correctiveActions |-> CorrectiveSection,
   managementReviews |-> ReviewSection(u), controlEffectiveness |-> EffectivenessSection,
   securityObjectives |-> ObjectiveSection, vendors |-> VendorSection, evidences |-> EvidenceSection,
   exceptions |-> ExceptionSection(u), contextIssues |-> ContextSection, interestedParties |-> PartySection,
   legalRequirements |-> LegalSection, continuityPlans |-> ContinuitySection, continuityTests |-> TestSection,
   vulnerabilities |-> VulnerabilitySection, changeRequests |-> ChangeSection(u)]

-----------------------------------------------------------------------------
(* What the server action of a form lets u do.                             *)
Accepted(u, form) ==
  LET op     == form[1]
      row    == form[2]
      choice == form[3]
  IN  CASE op = "saveAudit"             -> IsAuditor(choice)
        [] op = "advanceFinding"        -> MayAdvance(row, choice)
        [] op = "completeCorrective"    -> ~corrective[row].done
        [] op = "reviewCorrective"      -> MayReview(row, u)
        [] op = "approveReview"         -> u \in Chiefs /\ Approvable
        [] op = "approveException"      -> u \in Chiefs /\ MayBeExcepted(row)
        [] op = "progressVulnerability" -> MayProgress(row, choice)
        [] op = "decideChangeRequest"   -> MayDecide(row, u)
        [] op = "implementChange"       -> row \in Approved
        [] op = "cancelChange"          -> row \in Pending \cup Approved
        [] op = "updateChangeRequest"   ->
             row \in Pending /\ (choice # AssetOf(ChangeRow(row)) => AssetUsable(choice))
        [] op \in {"saveVulnerability", "requestChange"}     -> AssetUsable(choice)
        [] op \in {"saveCorrective", "addReviewOutput"}      -> IsActiveMember(choice)
        [] op \in {"updateContextIssue", "updateInterestedParty", "updateLegalRequirement",
                   "updateContinuityPlan"}                   -> standing[row].active /\ IsActiveMember(choice)
        [] op \in {"reviewContext", "retireContext", "assessLegalRequirement", "retireLegalRequirement",
                   "retireContinuityPlan", "recordContinuityTest", "evaluateObjective"} -> standing[row].active
        [] op \in {"reactivateContext", "reactivateLegalRequirement", "reactivateContinuityPlan"}
                                                             -> ~standing[row].active

(* Two forms are offered whatever the server says to them: the review of a *)
(* corrective action to its owner, and the approval of the minutes.        *)
MayBeRefused(u, form) ==
  \/ form[1] = "reviewCorrective" /\ corrective[form[2]].owner = u
  \/ form[1] = "approveReview"
=============================================================================
