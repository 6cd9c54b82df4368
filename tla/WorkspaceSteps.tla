---------------------------- MODULE WorkspaceSteps ----------------------------
(***************************************************************************)
(* What a step of Workspace does to the requests, for the proofs about its *)
(* tables.  A request moves by Begin, Goto, Done or Once; each screen has  *)
(* phases of its own, and a step of one screen leaves the requests that    *)
(* are in phases of another where they are.  Then what several screens     *)
(* rest on: the row locks and who holds them, what recursion computes of   *)
(* departments, what each screen imports and undoes.  Then what its own    *)
(* steps keep of the tests, acceptances, incidents, departments and        *)
(* policies, and what the reader of a file makes of its characters; the    *)
(* theorems about them are in WorkspaceProofs.                             *)
(***************************************************************************)
EXTENDS Workspace, WellFoundedInduction, FiniteSetTheorems, SequenceTheorems, TLAPS

(* The behaviour has a plan, and every request its phase, its row of what  *)
(* it was asked, and its locks.                                            *)
Shaped ==
  /\ plan.name \in DOMAIN Plans
  /\ DOMAIN pc = Requests /\ DOMAIN req = Requests /\ DOMAIN held = Requests /\ DOMAIN want = Requests
  /\ \A t \in Requests : DOMAIN req[t] = {"op", "arg", "saw"}

(* A step of t, which leaves every other request as it is.                 *)
OnlyMoves(t) ==
  /\ Shaped' /\ plan' = plan
  /\ \A s \in Requests \ {t} : pc'[s] = pc[s] /\ req'[s] = req[s] /\ held'[s] = held[s] /\ want'[s] =
    want[s]

(* It is under way then, and no person is stopped.  It keeps its locks, or *)
(* ends, or takes the lock it waited for.                                  *)
Takes(t) ==
  /\ pc'[t] # "idle" /\ active' = active
  /\ held'[t] \in {held[t], {}} \/ (Granted(t) /\ held'[t] = Taken(t))

(* A step of t within a screen that has these phases.                      *)
Passes(t, phases) ==
  OnlyMoves(t) /\ Takes(t) /\ pc[t] \in phases \cup {"idle"} /\ pc'[t] \in phases \cup {"done"}

-----------------------------------------------------------------------------
(* The ways a request moves.                                               *)

(* A request that goes to a phase takes what it waited for.                *)
LEMMA GotoMoves ==
  ASSUME Shaped, NEW t \in Requests, NEW phase, NEW locks, NEW saw, Goto(t, phase, locks, saw), plan' =
    plan
  PROVE  /\ OnlyMoves(t)
         /\ pc'[t] = phase /\ held'[t] = Taken(t) /\ want'[t] = locks
         /\ req'[t].op = req[t].op /\ req'[t].arg = req[t].arg /\ req'[t].saw = saw
BY DEF Goto, Shaped, OnlyMoves

(* A request that is done holds nothing and waits for nothing.             *)
LEMMA DoneMoves ==
  ASSUME Shaped, NEW t \in Requests, Done(t), plan' = plan
  PROVE  OnlyMoves(t) /\ pc'[t] = "done" /\ held'[t] = {} /\ want'[t] = <<>>
BY DEF Done, Shaped, OnlyMoves

(* A request begins when it is idle, with what it was asked.               *)
LEMMA BeginMoves ==
  ASSUME Shaped, NEW t \in Requests, NEW op, NEW arg, NEW phase, NEW locks, Begin(t, op, arg, phase,
    locks)
  PROVE  /\ OnlyMoves(t)
         /\ pc[t] = "idle" /\ pc'[t] = phase /\ held'[t] = held[t] /\ want'[t] = locks
         /\ req'[t].op = op /\ req'[t].arg = arg /\ op \in plan.ops /\ active' = active
BY DEF Begin, Free, Shaped, OnlyMoves

(* A request of one statement goes from idle to done.                      *)
LEMMA OnceMoves ==
  ASSUME Shaped, NEW t \in Requests, NEW op, NEW lock, Once(t, op, lock)
  PROVE  /\ OnlyMoves(t)
         /\ pc[t] = "idle" /\ pc'[t] = "done" /\ held'[t] = held[t] /\ want'[t] = want[t] /\ req'[t] =
           req[t]
         /\ active' = active
BY DEF Once, Free, Shaped, OnlyMoves

-----------------------------------------------------------------------------
(* The row locks.                                                          *)

(* Of two that write a row, one waits until the other is done.             *)
LEMMA RowIsHeld ==
  ASSUME NEW s \in Requests, NEW t \in Requests, NEW row, NEW m \in {Write, Update}, NEW n \in {Write,
    Update},
         Lock(m, row) \in held[s], want[t] = <<Lock(n, row)>>, Granted(t)
  PROVE  s = t
<1>1. ~Blocks(s, t) /\ want[t] # <<>> /\ Head(want[t]) = Lock(n, row)
  BY DEF Granted
<1>2. Conflict(Lock(m, row)[1], Lock(n, row)[1])
  BY DEF Conflict, Lock, Write, Update
<1>3. Lock(m, row)[2] = Lock(n, row)[2]
  BY DEF Lock
<1> QED
  BY <1>1, <1>2, <1>3 DEF Blocks

(* So does one that writes it in a single statement.                       *)
LEMMA RowIsBarred ==
  ASSUME NEW s \in Requests, NEW t, NEW op, NEW row, NEW m \in {Write, Update}, NEW n \in {Write, Update},
         Lock(m, row) \in held[s], Once(t, op, Lock(n, row))
  PROVE  FALSE
BY DEF Once, Conflict, Lock, Write, Update

(* A request that goes on has taken what it waited for, and one lock is    *)
(* waited for as a whole.                                                  *)
LEMMA RowIsTaken ==
  ASSUME NEW t, NEW lock, want[t] = <<lock>>
  PROVE  lock \in Taken(t) /\ Len(want[t]) <= 1
<1>1. want[t] # <<>> /\ Head(want[t]) = lock /\ Len(want[t]) = 1
  OBVIOUS
<1> QED
  BY <1>1 DEF Taken

-----------------------------------------------------------------------------
(* The phases of each screen.                                              *)

RegisterPhases == {"addRiskSnapshot", "commitRisk", "commitRisks", "commitSnapshot", "importAssets",
  "importRisks", "insertAssets", "insertRisks", "insertSnapshot", "saveAsset", "saveRisk", "undoAssets",
  "undoRisks"}

FilesPhases == {"applyImport", "previewImport"}

ApplicationsPhases == {"commitUsage", "countLocated", "createSystem", "lookAgain", "readSystemKeys",
  "referDepartment", "removeDepartmentSystem", "saveDepartmentSystem", "writeSystem"}

OrganisationPhases == {"assignMember", "commitAssignments", "commitDepartment", "commitDepartments",
  "commitMembership", "examineAssignments", "examineDepartments", "importAssignments",
    "importDepartments",
  "insertDepartments", "restoreAssignments", "saveDepartment", "saveMemberRole", "saveMembership",
  "undoAssignments", "undoDepartments", "updateDepartment", "writeDepartment"}

ChartPhases == {"readMemberships", "readNodes", "showOrgChart"}

PoliciesPhases == {"activatePolicyVersion", "approvePolicyVersion", "commitDraft", "examinePolicies",
  "importPolicies", "insertDraft", "insertVersions", "referPolicy", "supersedeVersions", "undoPolicies"}

WorkPhases == {"addAssignees", "cancelAssignment", "cancelRows", "commitAssignees", "commitAssignment",
  "removeAssignee", "reportItem", "reportRow", "saveAssignment", "updateAssignment"}

ChangeControlPhases == {"commitChange", "decideChangeRequest", "insertVulnerability", "linkChange",
  "recordDecision", "requestChange", "saveVulnerability", "updateChangeRequest", "writeChange"}

IncidentPhases == {"checkOwner", "commitIncident", "readIncident", "referIncident", "writeIncident"}

DecisionPhases == {"acceptOperation", "acceptRisk", "acceptSnapshot", "approveAcceptance",
  "commitDeviation",
  "decideDeviation", "insertDeviation", "linkDeviation", "recordAcceptance", "requestDeviation"}

AuditPhases == {"advanceFinding", "approveException", "approveReview", "recordApproval", "writeException",
  "writeFinding"}

JournalPhases == {}

StandingPhases == {"commitTest", "recordContinuityTest"}

CompetencePhases == {"importRows", "matchUsers", "saveFulfillment"}

DevicesPhases == {"examineReport", "insertReport", "readDefinition", "touchDevice"}

StepsPhases == {"readFacts", "showSteps"}

ControlPhases == {"awaitAnswer", "checkSession", "post"}

PasswordsPhases == {"askServer", "examineConfig", "readStatusFile", "resolveHost", "showPasswords"}

-----------------------------------------------------------------------------
(* The steps of each screen.                                               *)

(* A request of the register goes from one of its phases to another,       *)
(* starting from idle and ending with done.                                *)
LEMMA RegisterPasses ==
  ASSUME Shaped, NEW t \in Requests, RegisterStep(t) PROVE Passes(t, RegisterPhases)
<1> USE BeginMoves, GotoMoves, DoneMoves, OnceMoves DEF Passes, Takes, RegisterPhases, At, Free
<1>1. CASE BeginImportAssets(t)  BY <1>1 DEF BeginImportAssets, BeginImport
<1>2. CASE ExamineAssets(t)  BY <1>2 DEF ExamineAssets, Refused
<1>3. CASE InsertAssets(t)  BY <1>3 DEF InsertAssets, Imported, Refused
<1>4. CASE BeginImportRisks(t)  BY <1>4 DEF BeginImportRisks, BeginImport
<1>5. CASE ExamineRisks(t)
  <2>1. CASE Refused(t)
    BY <1>5, <2>1 DEF ExamineRisks, Refused
  <2>2. CASE ~Refused(t)
    <3>1. PICK locks : Goto(t, "insertRisks", locks, None)
      BY <1>5, <2>2, Zenon DEF ExamineRisks
    <3>2. pc[t] = "importRisks" /\ plan' = plan /\ active' = active /\ Granted(t)
      BY <1>5, <2>2 DEF ExamineRisks
    <3> QED
      BY <3>1, <3>2
  <2> QED
    BY <2>1, <2>2
<1>6. CASE InsertRisks(t)  BY <1>6 DEF InsertRisks, Refused
<1>7. CASE CommitRisks(t)  BY <1>7 DEF CommitRisks, Imported
<1>8. CASE BeginUndoAssets(t)  BY <1>8 DEF BeginUndoAssets, BeginUndo
<1>9. CASE UndoAssets(t)  BY <1>9 DEF UndoAssets, Refused, Undone
<1>10. CASE BeginUndoRisks(t)  BY <1>10 DEF BeginUndoRisks, BeginUndo
<1>11. CASE UndoRisks(t)  BY <1>11 DEF UndoRisks, Refused, Undone
<1>12. CASE BeginSaveAsset(t)  BY <1>12 DEF BeginSaveAsset
<1>13. CASE SaveAsset(t)  BY <1>13 DEF SaveAsset
<1>14. CASE BeginSaveRisk(t)  BY <1>14 DEF BeginSaveRisk
<1>15. CASE SaveRisk(t)  BY <1>15 DEF SaveRisk
<1>16. CASE CommitRisk(t)  BY <1>16 DEF CommitRisk
<1>17. CASE BeginAddRiskSnapshot(t)  BY <1>17 DEF BeginAddRiskSnapshot
<1>18. CASE AddRiskSnapshot(t)  BY <1>18 DEF AddRiskSnapshot
<1>19. CASE InsertSnapshot(t)  BY <1>19 DEF InsertSnapshot
<1>20. CASE CommitSnapshot(t)  BY <1>20 DEF CommitSnapshot
<1> QED BY <1>1, <1>2, <1>3, <1>4, <1>5, <1>6, <1>7, <1>8, <1>9, <1>10, <1>11, <1>12, <1>13, <1>14, <1>15,
  <1>16, <1>17, <1>18, <1>19, <1>20 DEF RegisterStep

(* A request of an uploaded file goes from one of its phases to another,   *)
(* starting from idle and ending with done.                                *)
LEMMA FilesPasses ==
  ASSUME Shaped, NEW t \in Requests, CsvStep(t) PROVE Passes(t, FilesPhases)
<1> USE BeginMoves, GotoMoves, DoneMoves, OnceMoves DEF Passes, Takes, FilesPhases, At, Free
<1>1. CASE BeginPreviewImport(t)  BY <1>1 DEF BeginPreviewImport
<1>2. CASE PreviewImport(t)  BY <1>2 DEF PreviewImport
<1>3. CASE ApplyImport(t)  BY <1>3 DEF ApplyImport
<1> QED BY <1>1, <1>2, <1>3 DEF CsvStep

(* A request of the systems goes from one of its phases to another,        *)
(* starting from idle and ending with done.                                *)
LEMMA ApplicationsPasses ==
  ASSUME Shaped, NEW t \in Requests, SystemsStep(t) PROVE Passes(t, ApplicationsPhases)
<1> USE BeginMoves, GotoMoves, DoneMoves, OnceMoves DEF Passes, Takes, ApplicationsPhases, At, Free
<1>1. CASE BeginSaveSystem(t)  BY <1>1 DEF BeginSaveSystem
<1>2. CASE ReadSystemKeys(t)  BY <1>2 DEF ReadSystemKeys
<1>3. CASE CreateSystem(t)  BY <1>3 DEF CreateSystem
<1>4. CASE BeginUpdateSystem(t)  BY <1>4 DEF BeginUpdateSystem
<1>5. CASE CountLocated(t)  BY <1>5 DEF CountLocated, LooksForAssets
<1>6. CASE LookAgain(t)  BY <1>6 DEF LookAgain, LooksForAssets
<1>7. CASE WriteSystem(t)  BY <1>7 DEF WriteSystem
<1>8. CASE BeginSaveDepartmentSystem(t)  BY <1>8 DEF BeginSaveDepartmentSystem
<1>9. CASE SaveDepartmentSystem(t)  BY <1>9 DEF SaveDepartmentSystem
<1>10. CASE ReferDepartment(t)  BY <1>10 DEF ReferDepartment
<1>11. CASE CommitUsage(t)  BY <1>11 DEF CommitUsage
<1>12. CASE BeginRemoveDepartmentSystem(t)  BY <1>12 DEF BeginRemoveDepartmentSystem
<1>13. CASE RemoveDepartmentSystem(t)  BY <1>13 DEF RemoveDepartmentSystem
<1> QED BY <1>1, <1>2, <1>3, <1>4, <1>5, <1>6, <1>7, <1>8, <1>9, <1>10, <1>11, <1>12, <1>13 DEF
  SystemsStep

(* A request of the departments goes from one of its phases to another,    *)
(* starting from idle and ending with done.                                *)
LEMMA OrganisationPasses ==
  ASSUME Shaped, NEW t \in Requests, OrganisationStep(t) PROVE Passes(t, OrganisationPhases)
<1> USE BeginMoves, GotoMoves, DoneMoves, OnceMoves DEF Passes, Takes, OrganisationPhases, At, Free
<1>1. CASE BeginImportDepartments(t)  BY <1>1 DEF BeginImportDepartments, BeginImport
<1>2. CASE ReadDepartments(t)  BY <1>2 DEF ReadDepartments
<1>3. CASE ExamineDepartments(t)
  <2>1. CASE Refused(t)
    BY <1>3, <2>1 DEF ExamineDepartments, Refused
  <2>2. CASE ~Refused(t)
    <3>1. PICK locks, saw : Goto(t, "insertDepartments", locks, saw)
      BY <1>3, <2>2, Zenon DEF ExamineDepartments
    <3>2. pc[t] = "examineDepartments" /\ plan' = plan /\ active' = active /\ Granted(t)
      BY <1>3, <2>2 DEF ExamineDepartments
    <3> QED
      BY <3>1, <3>2
  <2> QED
    BY <2>1, <2>2
<1>4. CASE InsertDepartments(t)  BY <1>4 DEF InsertDepartments, Refused
<1>5. CASE CommitDepartments(t)  BY <1>5 DEF CommitDepartments, Imported
<1>6. CASE BeginUndoDepartments(t)  BY <1>6 DEF BeginUndoDepartments, BeginUndo
<1>7. CASE UndoDepartments(t)  BY <1>7 DEF UndoDepartments, Refused, Undone
<1>8. CASE BeginImportAssignments(t)  BY <1>8 DEF BeginImportAssignments, BeginImport
<1>9. CASE ReadAssignments(t)  BY <1>9 DEF ReadAssignments
<1>10. CASE ExamineAssignments(t)
  <2>1. CASE Refused(t)
    BY <1>10, <2>1 DEF ExamineAssignments, Refused
  <2>2. CASE ~Refused(t)
    <3>1. PICK targets : AssignFrom(t, 1, targets, <<>>, <<>>)
      BY <1>10, <2>2, Zenon DEF ExamineAssignments
    <3>2. pc[t] = "examineAssignments" /\ plan' = plan /\ active' = active /\ Granted(t)
      BY <1>10, <2>2 DEF ExamineAssignments
    <3> QED
      BY <3>1, <3>2 DEF AssignFrom
  <2> QED
    BY <2>1, <2>2
<1>11. CASE AssignMember(t)  BY <1>11 DEF AssignMember, AssignFrom, Refused
<1>12. CASE CommitAssignments(t)  BY <1>12 DEF CommitAssignments, Imported, Refused
<1>13. CASE BeginUndoAssignments(t)  BY <1>13 DEF BeginUndoAssignments, BeginUndo
<1>14. CASE UndoAssignments(t)  BY <1>14 DEF UndoAssignments
<1>15. CASE RestoreAssignments(t)  BY <1>15 DEF RestoreAssignments, Refused, Undone
<1>16. CASE BeginSaveDepartment(t)  BY <1>16 DEF BeginSaveDepartment
<1>17. CASE SaveDepartment(t)  BY <1>17 DEF SaveDepartment
<1>18. CASE CommitDepartment(t)  BY <1>18 DEF CommitDepartment
<1>19. CASE BeginUpdateDepartment(t)  BY <1>19 DEF BeginUpdateDepartment
<1>20. CASE UpdateDepartment(t)  BY <1>20 DEF UpdateDepartment
<1>21. CASE WriteDepartment(t)  BY <1>21 DEF WriteDepartment
<1>22. CASE BeginSaveMembership(t)  BY <1>22 DEF BeginSaveMembership
<1>23. CASE SaveMembership(t)  BY <1>23 DEF SaveMembership
<1>24. CASE CommitMembership(t)  BY <1>24 DEF CommitMembership
<1>25. CASE BeginSaveMemberRole(t)  BY <1>25 DEF BeginSaveMemberRole
<1>26. CASE SaveMemberRole(t)  BY <1>26 DEF SaveMemberRole
<1> QED BY <1>1, <1>2, <1>3, <1>4, <1>5, <1>6, <1>7, <1>8, <1>9, <1>10, <1>11, <1>12, <1>13, <1>14, <1>15,
  <1>16, <1>17, <1>18, <1>19, <1>20, <1>21, <1>22, <1>23, <1>24, <1>25, <1>26 DEF OrganisationStep

(* A request of the organisation chart goes from one of its phases to      *)
(* another, starting from idle and ending with done.                       *)
LEMMA ChartPasses ==
  ASSUME Shaped, NEW t \in Requests, ChartStep(t) PROVE Passes(t, ChartPhases)
<1> USE BeginMoves, GotoMoves, DoneMoves, OnceMoves DEF Passes, Takes, ChartPhases, At, Free
<1>1. CASE BeginOrgChart(t)  BY <1>1 DEF BeginOrgChart
<1>2. CASE ReadNodes(t)  BY <1>2 DEF ReadNodes
<1>3. CASE ReadMemberships(t)  BY <1>3 DEF ReadMemberships
<1>4. CASE ShowOrgChart(t)  BY <1>4 DEF ShowOrgChart
<1> QED BY <1>1, <1>2, <1>3, <1>4 DEF ChartStep

(* A request of the policies goes from one of its phases to another,       *)
(* starting from idle and ending with done.                                *)
LEMMA PoliciesPasses ==
  ASSUME Shaped, NEW t \in Requests, PolicyStep(t) PROVE Passes(t, PoliciesPhases)
<1> USE BeginMoves, GotoMoves, DoneMoves, OnceMoves DEF Passes, Takes, PoliciesPhases, At, Free
<1>1. CASE BeginCreatePolicyDraft(t)  BY <1>1 DEF BeginCreatePolicyDraft
<1>2. CASE InsertDraft(t)  BY <1>2 DEF InsertDraft
<1>3. CASE ReferPolicy(t)  BY <1>3 DEF ReferPolicy
<1>4. CASE CommitDraft(t)  BY <1>4 DEF CommitDraft
<1>5. CASE BeginApprovePolicyVersion(t)  BY <1>5 DEF BeginApprovePolicyVersion, BeginApproval
<1>6. CASE ApprovePolicyVersion(t)  BY <1>6 DEF ApprovePolicyVersion
<1>7. CASE BeginActivatePolicyVersion(t)  BY <1>7 DEF BeginActivatePolicyVersion, BeginApproval
<1>8. CASE ActivatePolicyVersion(t)  BY <1>8 DEF ActivatePolicyVersion
<1>9. CASE SupersedeVersions(t)  BY <1>9 DEF SupersedeVersions
<1>10. CASE BeginImportPolicies(t)  BY <1>10 DEF BeginImportPolicies, BeginImport
<1>11. CASE ReadPolicies(t)  BY <1>11 DEF ReadPolicies
<1>12. CASE ExaminePolicies(t)  BY <1>12 DEF ExaminePolicies, Refused
<1>13. CASE InsertVersions(t)  BY <1>13 DEF InsertVersions, Imported
<1>14. CASE BeginUndoPolicies(t)  BY <1>14 DEF BeginUndoPolicies, BeginUndo
<1>15. CASE UndoPolicies(t)  BY <1>15 DEF UndoPolicies, Refused, Undone
<1> QED BY <1>1, <1>2, <1>3, <1>4, <1>5, <1>6, <1>7, <1>8, <1>9, <1>10, <1>11, <1>12, <1>13, <1>14, <1>15
  DEF
  PolicyStep

(* A request of the assignments goes from one of its phases to another,    *)
(* starting from idle and ending with done.                                *)
LEMMA WorkPasses ==
  ASSUME Shaped, NEW t \in Requests, WorkStep(t) PROVE Passes(t, WorkPhases)
<1> USE BeginMoves, GotoMoves, DoneMoves, OnceMoves DEF Passes, Takes, WorkPhases, At, Free
<1>1. CASE BeginSaveAssignment(t)  BY <1>1 DEF BeginSaveAssignment
<1>2. CASE SaveAssignment(t)  BY <1>2 DEF SaveAssignment, Quiet
<1>3. CASE CommitAssignment(t)  BY <1>3 DEF CommitAssignment, Quiet
<1>4. CASE BeginAddAssignees(t)  BY <1>4 DEF BeginAddAssignees
<1>5. CASE AddAssignees(t)
  <2>1. pc[t] = "addAssignees" /\ plan' = plan /\ active' = active /\ Granted(t)
    BY <1>5 DEF AddAssignees, Quiet
  <2>2. CASE Done(t)
    BY <2>1, <2>2
  <2>3. CASE ~Done(t)
    <3>1. PICK locks, saw : Goto(t, "commitAssignees", locks, saw)
      BY <1>5, <2>3, Zenon DEF AddAssignees
    <3> QED
      BY <2>1, <3>1
  <2> QED
    BY <2>2, <2>3
<1>6. CASE CommitAssignees(t)  BY <1>6 DEF CommitAssignees, Quiet
<1>7. CASE BeginRemoveAssignee(t)  BY <1>7 DEF BeginRemoveAssignee
<1>8. CASE RemoveAssignee(t)  BY <1>8 DEF RemoveAssignee, Quiet
<1>9. CASE BeginCancelAssignment(t)  BY <1>9 DEF BeginCancelAssignment
<1>10. CASE CancelAssignment(t)
  <2>1. CASE ~Open \/ ~TargetUsable(item.target)
    BY <1>10, <2>1 DEF CancelAssignment, Quiet
  <2>2. CASE ~(~Open \/ ~TargetUsable(item.target))
    <3>1. PICK locks : Goto(t, "cancelRows", locks, Unfinished)
      BY <1>10, <2>2, Zenon DEF CancelAssignment
    <3> QED
      BY <1>10, <3>1 DEF CancelAssignment, Quiet
  <2> QED
    BY <2>1, <2>2
<1>11. CASE CancelRows(t)  BY <1>11 DEF CancelRows, Quiet
<1>12. CASE BeginUpdateAssignment(t)  BY <1>12 DEF BeginUpdateAssignment
<1>13. CASE UpdateAssignment(t)  BY <1>13 DEF UpdateAssignment, Quiet
<1>14. CASE ReportRow(t)  BY <1>14 DEF ReportRow, Quiet
<1>15. CASE ReportItem(t)  BY <1>15 DEF ReportItem, Quiet
<1> QED BY <1>1, <1>2, <1>3, <1>4, <1>5, <1>6, <1>7, <1>8, <1>9, <1>10, <1>11, <1>12, <1>13, <1>14, <1>15
  DEF
  WorkStep

(* A request of vulnerabilities and change requests goes from one of its   *)
(* phases to another, starting from idle and ending with done.             *)
LEMMA ChangeControlPasses ==
  ASSUME Shaped, NEW t \in Requests, ChangeStep(t) PROVE Passes(t, ChangeControlPhases)
<1> USE BeginMoves, GotoMoves, DoneMoves, OnceMoves DEF Passes, Takes, ChangeControlPhases, At, Free
<1>1. CASE BeginSaveVulnerability(t)  BY <1>1 DEF BeginSaveVulnerability
<1>2. CASE SaveVulnerability(t)  BY <1>2 DEF SaveVulnerability
<1>3. CASE InsertVulnerability(t)  BY <1>3 DEF InsertVulnerability
<1>4. CASE ProgressVulnerability(t)  BY <1>4 DEF ProgressVulnerability
<1>5. CASE BeginRequestChange(t)  BY <1>5 DEF BeginRequestChange
<1>6. CASE RequestChange(t)  BY <1>6 DEF RequestChange
<1>7. CASE CommitChange(t)  BY <1>7 DEF CommitChange
<1>8. CASE BeginUpdateChangeRequest(t)  BY <1>8 DEF BeginUpdateChangeRequest
<1>9. CASE UpdateChangeRequest(t)  BY <1>9 DEF UpdateChangeRequest
<1>10. CASE LinkChange(t)  BY <1>10 DEF LinkChange
<1>11. CASE WriteChange(t)  BY <1>11 DEF WriteChange
<1>12. CASE BeginDecideChangeRequest(t)  BY <1>12 DEF BeginDecideChangeRequest
<1>13. CASE DecideChangeRequest(t)  BY <1>13 DEF DecideChangeRequest
<1>14. CASE RecordDecision(t)  BY <1>14 DEF RecordDecision
<1>15. CASE ImplementChange(t)  BY <1>15 DEF ImplementChange
<1>16. CASE CancelChange(t)  BY <1>16 DEF CancelChange
<1> QED BY <1>1, <1>2, <1>3, <1>4, <1>5, <1>6, <1>7, <1>8, <1>9, <1>10, <1>11, <1>12, <1>13, <1>14, <1>15,
  <1>16
  DEF ChangeStep

(* A request of the incidents goes from one of its phases to another,      *)
(* starting from idle and ending with done.                                *)
LEMMA IncidentPasses ==
  ASSUME Shaped, NEW t \in Requests, IncidentStep(t) PROVE Passes(t, IncidentPhases)
<1> USE BeginMoves, GotoMoves, DoneMoves, OnceMoves DEF Passes, Takes, IncidentPhases, At, Free
<1>1. CASE BeginRegisterIncident(t)  BY <1>1 DEF BeginRegisterIncident
<1>2. CASE BeginEditIncident(t)  BY <1>2 DEF BeginEditIncident, WriteLock
<1>3. CASE ReadIncident(t)  BY <1>3 DEF ReadIncident, WriteLock
<1>4. CASE CheckOwner(t)  BY <1>4 DEF CheckOwner, WriteLock
<1>5. CASE WriteIncident(t)  BY <1>5 DEF WriteIncident
<1>6. CASE ReferIncident(t)  BY <1>6 DEF ReferIncident
<1>7. CASE CommitIncident(t)  BY <1>7 DEF CommitIncident
<1> QED BY <1>1, <1>2, <1>3, <1>4, <1>5, <1>6, <1>7 DEF IncidentStep

(* A request of the decisions about a risk goes from one of its phases to  *)
(* another, starting from idle and ending with done.                       *)
LEMMA DecisionPasses ==
  ASSUME Shaped, NEW t \in Requests, DecisionStep(t) PROVE Passes(t, DecisionPhases)
<1> USE BeginMoves, GotoMoves, DoneMoves, OnceMoves DEF Passes, Takes, DecisionPhases, At, Free
<1>1. CASE BeginAcceptRisk(t)  BY <1>1 DEF BeginAcceptRisk
<1>2. CASE AcceptRisk(t)  BY <1>2 DEF AcceptRisk
<1>3. CASE AcceptOperation(t)  BY <1>3 DEF AcceptOperation
<1>4. CASE ApproveAcceptance(t)  BY <1>4 DEF ApproveAcceptance
<1>5. CASE AcceptSnapshot(t)  BY <1>5 DEF AcceptSnapshot
<1>6. CASE RecordAcceptance(t)  BY <1>6 DEF RecordAcceptance
<1>7. CASE BeginRequestDeviation(t)  BY <1>7 DEF BeginRequestDeviation
<1>8. CASE RequestDeviation(t)  BY <1>8 DEF RequestDeviation
<1>9. CASE InsertDeviation(t)  BY <1>9 DEF InsertDeviation
<1>10. CASE LinkDeviation(t)  BY <1>10 DEF LinkDeviation
<1>11. CASE CommitDeviation(t)  BY <1>11 DEF CommitDeviation
<1>12. CASE BeginDecideDeviation(t)  BY <1>12 DEF BeginDecideDeviation
<1>13. CASE DecideDeviation(t)  BY <1>13 DEF DecideDeviation
<1> QED BY <1>1, <1>2, <1>3, <1>4, <1>5, <1>6, <1>7, <1>8, <1>9, <1>10, <1>11, <1>12, <1>13 DEF
  DecisionStep

(* A request of the findings goes from one of its phases to another,       *)
(* starting from idle and ending with done.                                *)
LEMMA AuditPasses ==
  ASSUME Shaped, NEW t \in Requests, FindingStep(t) PROVE Passes(t, AuditPhases)
<1> USE BeginMoves, GotoMoves, DoneMoves, OnceMoves DEF Passes, Takes, AuditPhases, At, Free
<1>1. CASE SaveFinding(t)  BY <1>1 DEF SaveFinding
<1>2. CASE BeginAdvanceFinding(t)  BY <1>2 DEF BeginAdvanceFinding
<1>3. CASE AdvanceFinding(t)  BY <1>3 DEF AdvanceFinding
<1>4. CASE WriteFinding(t)  BY <1>4 DEF WriteFinding
<1>5. CASE BeginApproveException(t)  BY <1>5 DEF BeginApproveException
<1>6. CASE ApproveException(t)  BY <1>6 DEF ApproveException
<1>7. CASE WriteException(t)  BY <1>7 DEF WriteException
<1>8. CASE SaveCorrective(t)  BY <1>8 DEF SaveCorrective
<1>9. CASE CompleteCorrective(t)  BY <1>9 DEF CompleteCorrective
<1>10. CASE ReviewCorrective(t)  BY <1>10 DEF ReviewCorrective
<1>11. CASE SaveReview(t)  BY <1>11 DEF SaveReview
<1>12. CASE BeginApproveReview(t)  BY <1>12 DEF BeginApproveReview
<1>13. CASE ApproveReview(t)  BY <1>13 DEF ApproveReview
<1>14. CASE RecordApproval(t)  BY <1>14 DEF RecordApproval
<1> QED BY <1>1, <1>2, <1>3, <1>4, <1>5, <1>6, <1>7, <1>8, <1>9, <1>10, <1>11, <1>12, <1>13, <1>14 DEF
  FindingStep

(* A request of the journals goes from one of its phases to another,       *)
(* starting from idle and ending with done.                                *)
LEMMA JournalPasses ==
  ASSUME Shaped, NEW t \in Requests, JournalStep(t) PROVE Passes(t, JournalPhases)
<1> USE BeginMoves, GotoMoves, DoneMoves, OnceMoves DEF Passes, Takes, JournalPhases, At, Free
<1>1. CASE SaveAudit(t)  BY <1>1 DEF SaveAudit, Add
<1>2. CASE AddReviewOutput(t)  BY <1>2 DEF AddReviewOutput, Add
<1>3. CASE SaveEffectiveness(t)  BY <1>3 DEF SaveEffectiveness, Add
<1>4. CASE SaveVendorAssessment(t)  BY <1>4 DEF SaveVendorAssessment, Add
<1>5. CASE SaveEvidence(t)  BY <1>5 DEF SaveEvidence, Add
<1> QED BY <1>1, <1>2, <1>3, <1>4, <1>5 DEF JournalStep

(* A request of the standing records goes from one of its phases to        *)
(* another, starting from idle and ending with done.                       *)
LEMMA StandingPasses ==
  ASSUME Shaped, NEW t \in Requests, StandingStep(t) PROVE Passes(t, StandingPhases)
<1> USE BeginMoves, GotoMoves, DoneMoves, OnceMoves DEF Passes, Takes, StandingPhases, At, Free
<1>1. CASE SaveContextIssue(t)  BY <1>1 DEF SaveContextIssue, Save
<1>2. CASE SaveInterestedParty(t)  BY <1>2 DEF SaveInterestedParty, Save
<1>3. CASE SaveLegalRequirement(t)  BY <1>3 DEF SaveLegalRequirement, Save
<1>4. CASE SaveContinuityPlan(t)  BY <1>4 DEF SaveContinuityPlan, Save
<1>5. CASE SaveObjective(t)  BY <1>5 DEF SaveObjective, Save
<1>6. CASE UpdateContextIssue(t)  BY <1>6 DEF UpdateContextIssue, Edit
<1>7. CASE UpdateInterestedParty(t)  BY <1>7 DEF UpdateInterestedParty, Edit
<1>8. CASE UpdateLegalRequirement(t)  BY <1>8 DEF UpdateLegalRequirement, Edit
<1>9. CASE UpdateContinuityPlan(t)  BY <1>9 DEF UpdateContinuityPlan, Edit
<1>10. CASE ReviewContext(t)  BY <1>10 DEF ReviewContext, Judge
<1>11. CASE AssessLegalRequirement(t)  BY <1>11 DEF AssessLegalRequirement, Judge
<1>12. CASE EvaluateObjective(t)  BY <1>12 DEF EvaluateObjective, Judge
<1>13. CASE RetireContext(t)  BY <1>13 DEF RetireContext, SetActive
<1>14. CASE ReactivateContext(t)  BY <1>14 DEF ReactivateContext, SetActive
<1>15. CASE RetireLegalRequirement(t)  BY <1>15 DEF RetireLegalRequirement, SetActive
<1>16. CASE ReactivateLegalRequirement(t)  BY <1>16 DEF ReactivateLegalRequirement, SetActive
<1>17. CASE RetireContinuityPlan(t)  BY <1>17 DEF RetireContinuityPlan, SetActive
<1>18. CASE ReactivateContinuityPlan(t)  BY <1>18 DEF ReactivateContinuityPlan, SetActive
<1>19. CASE BeginRecordContinuityTest(t)  BY <1>19 DEF BeginRecordContinuityTest
<1>20. CASE RecordContinuityTest(t)  BY <1>20 DEF RecordContinuityTest
<1>21. CASE CommitTest(t)  BY <1>21 DEF CommitTest
<1> QED BY <1>1, <1>2, <1>3, <1>4, <1>5, <1>6, <1>7, <1>8, <1>9, <1>10, <1>11, <1>12, <1>13, <1>14, <1>15,
  <1>16, <1>17, <1>18, <1>19, <1>20, <1>21 DEF StandingStep

(* A request of training goes from one of its phases to another, starting  *)
(* from idle and ending with done.                                         *)
LEMMA CompetencePasses ==
  ASSUME Shaped, NEW t \in Requests, TrainingStep(t) PROVE Passes(t, CompetencePhases)
<1> USE BeginMoves, GotoMoves, DoneMoves, OnceMoves DEF Passes, Takes, CompetencePhases, At, Free
<1>1. CASE BeginSync(t)  BY <1>1 DEF BeginSync
<1>2. CASE MatchUsers(t)  BY <1>2 DEF MatchUsers
<1>3. CASE ImportRows(t)  BY <1>3 DEF ImportRows
<1>4. CASE EvaluateTrainingRecord(t)  BY <1>4 DEF EvaluateTrainingRecord
<1>5. CASE BeginSaveFulfillment(t)  BY <1>5 DEF BeginSaveFulfillment
<1>6. CASE SaveFulfillment(t)  BY <1>6 DEF SaveFulfillment
<1> QED BY <1>1, <1>2, <1>3, <1>4, <1>5, <1>6 DEF TrainingStep

(* A request of posture reports goes from one of its phases to another,    *)
(* starting from idle and ending with done.                                *)
LEMMA DevicesPasses ==
  ASSUME Shaped, NEW t \in Requests, PostureStep(t) PROVE Passes(t, DevicesPhases)
<1> USE BeginMoves, GotoMoves, DoneMoves, OnceMoves DEF Passes, Takes, DevicesPhases, At, Free
<1>1. CASE BeginPosture(t)  BY <1>1 DEF BeginPosture
<1>2. CASE ReadDefinition(t)  BY <1>2 DEF ReadDefinition
<1>3. CASE ExamineReport(t)  BY <1>3 DEF ExamineReport
<1>4. CASE InsertReport(t)  BY <1>4 DEF InsertReport
<1>5. CASE TouchDevice(t)  BY <1>5 DEF TouchDevice
<1>6. CASE DetachDevice(t)  BY <1>6 DEF DetachDevice
<1>7. CASE EnrollAgain(t)  BY <1>7 DEF EnrollAgain
<1> QED BY <1>1, <1>2, <1>3, <1>4, <1>5, <1>6, <1>7 DEF PostureStep

(* A request of the page of the steps goes from one of its phases to       *)
(* another, starting from idle and ending with done.                       *)
LEMMA StepsPasses ==
  ASSUME Shaped, NEW t \in Requests, StepPageStep(t) PROVE Passes(t, StepsPhases)
<1> USE BeginMoves, GotoMoves, DoneMoves, OnceMoves DEF Passes, Takes, StepsPhases, At, Free
<1>1. CASE BeginStepPage(t)  BY <1>1 DEF BeginStepPage
<1>2. CASE ReadOneFact(t)  BY <1>2 DEF ReadOneFact
<1>3. CASE ShowSteps(t)  BY <1>3 DEF ShowSteps
<1> QED BY <1>1, <1>2, <1>3 DEF StepPageStep

(* A request of device control goes from one of its phases to another,     *)
(* starting from idle and ending with done.                                *)
LEMMA ControlPasses ==
  ASSUME Shaped, NEW t \in Requests, ControlStep(t) PROVE Passes(t, ControlPhases)
<1> USE BeginMoves, GotoMoves, DoneMoves, OnceMoves DEF Passes, Takes, ControlPhases, At, Free
<1>1. CASE BeginDispatch(t)  BY <1>1 DEF BeginDispatch, Refuse, Told
<1>2. CASE BeginRecover(t)  BY <1>2 DEF BeginRecover, Refuse, Told
<1>3. CASE CheckSession(t)  BY <1>3 DEF CheckSession, Say, Told
<1>4. CASE Send(t)  BY <1>4 DEF Send
<1>5. CASE Answered(t)  BY <1>5 DEF Answered, Say, Told
<1>6. CASE GiveUp(t)  BY <1>6 DEF GiveUp, Say, Told
<1>7. CASE ConnectionFails(t)  BY <1>7 DEF ConnectionFails, Say, Told
<1> QED BY <1>1, <1>2, <1>3, <1>4, <1>5, <1>6, <1>7 DEF ControlStep

(* A request of the page of the password server goes from one of its       *)
(* phases to another, starting from idle and ending with done.             *)
LEMMA PasswordsPasses ==
  ASSUME Shaped, NEW t \in Requests, PasswordsStep(t) PROVE Passes(t, PasswordsPhases)
<1> USE BeginMoves, GotoMoves, DoneMoves, OnceMoves DEF Passes, Takes, PasswordsPhases, At, Free
<1>1. CASE BeginPasswords(t)  BY <1>1 DEF BeginPasswords
<1>2. CASE ReadStatusFile(t)
  <2>1. PICK file \in Plan.statusFiles :
          IF Readable(file) THEN Examine(t, FromFile(file))
          ELSE Goto(t, "showPasswords", <<>>,
                    Seen(req[t].arg, FromEnvironment(req[t].arg), FALSE, "invalid_config", None))
    BY <1>2 DEF ReadStatusFile
  <2>2. pc[t] = "readStatusFile" /\ plan' = plan /\ active' = active /\ Granted(t)
    BY <1>2 DEF ReadStatusFile
  <2>3. CASE Readable(file)
    BY <2>1, <2>2, <2>3 DEF Examine, Show
  <2>4. CASE ~Readable(file)
    <3>1. PICK saw : Goto(t, "showPasswords", <<>>, saw)
      BY <2>1, <2>4, Zenon
    <3> QED
      BY <2>2, <3>1
  <2> QED
    BY <2>3, <2>4
<1>3. CASE ExamineConfig(t)  BY <1>3 DEF ExamineConfig, Examine, Show
<1>4. CASE ResolveHost(t)  BY <1>4 DEF ResolveHost, Show
<1>5. CASE AskServer(t)  BY <1>5 DEF AskServer, Show
<1>6. CASE LeavePasswords(t)  BY <1>6 DEF LeavePasswords
<1> QED BY <1>1, <1>2, <1>3, <1>4, <1>5, <1>6 DEF PasswordsStep

-----------------------------------------------------------------------------
(* It stays where it is, or gets the first of several locks it waits for.  *)
Waits(s) ==
  \/ held'[s] = held[s] /\ want'[s] = want[s]
  \/ Len(want[s]) > 1 /\ held'[s] = held[s] \cup {Head(want[s])} /\ want'[s] = Tail(want[s])

(* A step that the requests in these phases have no part in, except that   *)
(* one of them may get a lock that it waits for, or be ended.  Who is done *)
(* stays so.                                                               *)
Elsewhere(phases) ==
  /\ Shaped' /\ plan' = plan
  /\ \A s \in Requests :
       /\ pc[s] = "done" => pc'[s] = "done"
       /\ pc[s] \in phases => pc'[s] \in {pc[s], "done"}
       /\ pc'[s] \in phases =>
            /\ pc[s] = pc'[s] /\ req'[s] = req[s] /\ held[s] \subseteq held'[s]
            /\ Len(want[s]) <= 1 => want'[s] = want[s]
            /\ Waits(s)

(* A step of another screen is elsewhere.                                  *)
LEMMA PassesElsewhere ==
  ASSUME Shaped, NEW own, NEW phases, own \cap phases = {}, {"idle", "done"} \cap (own \cup phases) = {},
         NEW t \in Requests, Passes(t, own)
  PROVE  Elsewhere(phases)
BY DEF Passes, OnlyMoves, Elsewhere, Waits

(* So is one that all screens share: to get a lock, to be ended by the     *)
(* database, to stop a person.                                             *)
LEMMA SharedElsewhere ==
  ASSUME Shaped, NEW phases, phases \cap {"idle", "stop_person", "done"} = {}, NEW t \in Requests,
    Shared(t)
  PROVE  Elsewhere(phases)
<1>1. CASE TakeLock(t)  BY <1>1 DEF TakeLock, Elsewhere, Waits, Shaped
<1>2. CASE DeadlockAbort(t)  BY <1>2, DoneMoves DEF DeadlockAbort, Elsewhere, Waits, OnlyMoves
<1>3. CASE BeginStopPerson(t)  BY <1>3, BeginMoves DEF BeginStopPerson, Elsewhere, Waits, OnlyMoves
<1>4. CASE StopPerson(t)  BY <1>4, DoneMoves DEF StopPerson, Elsewhere, Waits, OnlyMoves, At
<1> QED BY <1>1, <1>2, <1>3, <1>4 DEF Shared

(* And one that no request makes.                                          *)
LEMMA RestElsewhere ==
  ASSUME Shaped, NEW phases, plan' = plan, UNCHANGED requestVars
  PROVE  Elsewhere(phases)
BY DEF Elsewhere, Waits, Shaped, requestVars

(* At the start every request is idle and holds nothing.                   *)
LEMMA ShapedInit ==
  ASSUME Init
  PROVE  /\ Shaped
         /\ \A t \in Requests : pc[t] = "idle" /\ held[t] = {} /\ want[t] = <<>>
BY DEF Init, RequestsInit, Shaped
-----------------------------------------------------------------------------
(* No two requests hold locks that exclude each other.                     *)

Modes == {Key, Share, Write, Update, Inserting, Frozen}

Compatible(locks, others) ==
  \A l \in locks, m \in others : l[1] \in Modes /\ m[1] \in Modes /\ l[2] = m[2] => ~Conflict(l[1], m[1])

LocksApart == \A s, t \in Requests : s # t => Compatible(held[s], held[t])

(* Exclusion is mutual.                                                    *)
LEMMA CompatibleIsMutual ==
  ASSUME NEW locks, NEW others, Compatible(locks, others)
  PROVE  Compatible(others, locks)
<1>1. ASSUME NEW m \in Modes, NEW n \in Modes, Conflict(m, n) PROVE Conflict(n, m)
  BY <1>1 DEF Modes, Conflict, Key, Share, Write, Update, Inserting, Frozen
<1> QED
  BY <1>1 DEF Compatible

(* What a request gets excludes nothing that others hold.                  *)
LEMMA TakenApart ==
  ASSUME LocksApart, NEW s \in Requests, NEW t \in Requests, s # t, ~Blocks(s, t)
  PROVE  Compatible(held[s], Taken(t))
BY DEF LocksApart, Compatible, Blocks, Taken

(* So a step leaves the locks apart that keeps locks, drops them or takes  *)
(* one that is free.                                                       *)
LEMMA MoveKeepsApart ==
  ASSUME Shaped, LocksApart, NEW t \in Requests, OnlyMoves(t),
         held'[t] \in {held[t], {}} \/ (held'[t] = Taken(t) /\ \A s \in Requests : ~Blocks(s, t))
  PROVE  LocksApart'
<1>1. ASSUME NEW s \in Requests, s # t PROVE Compatible(held'[s], held'[t]) /\ Compatible(held'[t], held'[s])
  <2>1. held'[s] = held[s]
    BY <1>1 DEF OnlyMoves
  <2>2. CASE held'[t] = held[t]
    BY <1>1, <2>1, <2>2 DEF LocksApart
  <2>3. CASE held'[t] = {}
    BY <2>3 DEF Compatible
  <2>4. CASE held'[t] = Taken(t) /\ ~Blocks(s, t)
    BY <1>1, <2>1, <2>4, TakenApart, CompatibleIsMutual
  <2> QED
    BY <2>2, <2>3, <2>4
<1>2. ASSUME NEW r \in Requests \ {t}, NEW s \in Requests \ {t}, r # s PROVE Compatible(held'[r], held'[s])
  BY <1>2 DEF OnlyMoves, LocksApart
<1> QED
  BY <1>1, <1>2 DEF LocksApart

(* Who is idle holds nothing and waits for nothing.                        *)
LocksInv == LocksApart /\ \A t \in Requests : pc[t] = "idle" => held[t] = {} /\ want[t] = <<>>

(* A step of a request keeps the locks apart.                              *)
LEMMA PassesKeepsLocks ==
  ASSUME Shaped, LocksInv, NEW t \in Requests, NEW phases, Passes(t, phases)
  PROVE  LocksInv'
<1>1. LocksApart'
  BY MoveKeepsApart DEF LocksInv, Passes, Takes, Granted
<1> QED
  BY <1>1 DEF LocksInv, Passes, Takes, OnlyMoves

(* No step of Workspace gives two requests locks that exclude each other.  *)
LEMMA LocksKept ==
  ASSUME Shaped, LocksInv, [Next]_vars
  PROVE  LocksInv'
<1>1. ASSUME NEW t \in Requests, Files(t) \/ Register(t) \/ Applications(t) \/ Organisation(t) \/ Policies(t) \/ Work(t)
                                 \/ ChangeControl(t) \/ Incident(t) \/ Decision(t)
      PROVE  LocksInv'
  BY <1>1, PassesKeepsLocks, FilesPasses, RegisterPasses, ApplicationsPasses, OrganisationPasses, ChartPasses,
     PoliciesPasses, WorkPasses, ChangeControlPasses, IncidentPasses, DecisionPasses
     DEF Files, Register, Applications, Organisation, Policies, Work, ChangeControl, Incident, Decision
<1>2. ASSUME NEW t \in Requests, Audit(t) \/ Journal(t) \/ Standing(t) \/ Competence(t) \/ Devices(t) \/ Steps(t)
                                 \/ Control(t) \/ Passwords(t)
      PROVE  LocksInv'
  BY <1>2, PassesKeepsLocks, AuditPasses, JournalPasses, StandingPasses, CompetencePasses, DevicesPasses,
     StepsPasses, ControlPasses, PasswordsPasses
     DEF Audit, Journal, Standing, Competence, Devices, Steps, Control, Passwords
<1>3. ASSUME NEW t \in Requests, Shared(t)
      PROVE  LocksInv'
  <2>0. LocksApart
    BY DEF LocksInv
  <2>a. ASSUME OnlyMoves(t), pc'[t] # "idle", LocksApart' PROVE LocksInv'
    BY <2>a DEF LocksInv, OnlyMoves
  <2>1. CASE TakeLock(t)
    <3>1. Len(<<>>) = 0
      OBVIOUS
    <3>2. OnlyMoves(t) /\ held'[t] = held[t] \cup {Head(want[t])} /\ want[t] # <<>> /\ pc'[t] = pc[t]
      BY <2>1, <3>1 DEF TakeLock, Shaped, OnlyMoves
    <3>3. held'[t] = Taken(t) /\ pc'[t] # "idle"
      BY <3>2 DEF Taken, LocksInv
    <3> QED
      BY <2>0, <2>a, <2>1, <3>2, <3>3, MoveKeepsApart DEF TakeLock
  <2>2. CASE DeadlockAbort(t)
    BY <2>0, <2>a, <2>2, DoneMoves, MoveKeepsApart DEF DeadlockAbort
  <2>3. CASE BeginStopPerson(t)
    BY <2>0, <2>a, <2>3, BeginMoves, MoveKeepsApart DEF BeginStopPerson
  <2>4. CASE StopPerson(t)
    BY <2>0, <2>a, <2>4, DoneMoves, MoveKeepsApart DEF StopPerson
  <2> QED
    BY <1>3, <2>1, <2>2, <2>3, <2>4 DEF Shared
<1>4. ASSUME TimePasses \/ Outside \/ Machinery \/ Terminated \/ UNCHANGED vars
      PROVE  UNCHANGED <<pc, held, want>>
  BY <1>4
     DEF TimePasses, ExpireException, ReviewDayComes, EntryFallsDue, DayPasses, DeviationLapses, Outside,
         PortalChanges, SeedLoads, Machinery, Orchestrator, Terminated, vars, requestVars
<1> QED
  BY <1>1, <1>2, <1>3, <1>4 DEF Next, LocksInv, LocksApart

-----------------------------------------------------------------------------
(* Functions that a definition gives by their values before, and folds.    *)

(* What holds of 0, and of a number when it holds of the one before, holds *)
(* of every number.                                                        *)
LEMMA CountingUp ==
  ASSUME NEW S, 0 \in S, \A n \in Nat : n \in S => n + 1 \in S
  PROVE  Nat \subseteq S
<1> DEFINE T == Nat \ S
           R == {ss \in Nat \X Nat : ss[1] < ss[2]}
<1>0. IsWellFoundedOn(R, Nat)
  BY NatLessThanWellFounded DEF OpToRel
<1>1. SUFFICES ASSUME T # {} PROVE FALSE
  OBVIOUS
<1> HIDE DEF R
<1>2. PICK n \in T : \A m \in T : <<m, n>> \notin R
  BY <1>0, <1>1, WFMin
<1> USE DEF R
<1>3. n # 0 /\ n - 1 \in Nat /\ n - 1 < n
  OBVIOUS
<1>4. n - 1 \notin T
  BY <1>2, <1>3
<1>5. n - 1 \in S
  BY <1>3, <1>4
<1>6. (n - 1) + 1 \in S
  BY <1>3, <1>5
<1> QED
  BY <1>6

(* What a function is that is defined by its value before, and where it    *)
(* stays.                                                                  *)
Stepping(S, first, next, n) ==
  first \in S /\ n \in Nat /\ \A x \in S : \A i \in 1..n : next[<<x, i>>] \in S

Stepwise(f, S, first, next, n) ==
  f \in [0..n -> S] /\ f[0] = first /\ \A i \in 1..n : f[i] = next[<<f[i - 1], i>>]

(* There is such a function.                                               *)
LEMMA StepByStep ==
  ASSUME NEW S, NEW first, NEW next, NEW n, Stepping(S, first, next, n)
  PROVE  \E f : Stepwise(f, S, first, next, n)
<1> USE DEF Stepping, Stepwise
<1> DEFINE Upto == {k \in Nat : k <= n => \E f : Stepwise(f, S, first, next, k)}
<1>1. 0 \in Upto
  <2> DEFINE f == [i \in 0..0 |-> first]
  <2>1. f \in [0..0 -> S] /\ f[0] = first /\ 1..0 = {}
    OBVIOUS
  <2> HIDE DEF f
  <2> QED
    BY <2>1
<1>2. ASSUME NEW k \in Nat, k \in Upto PROVE k + 1 \in Upto
  <2> SUFFICES ASSUME k + 1 <= n PROVE \E h : Stepwise(h, S, first, next, k + 1)
    BY <1>2
  <2>1. PICK f : Stepwise(f, S, first, next, k)
    BY <1>2
  <2> DEFINE h == [i \in 0..(k + 1) |-> IF i = k + 1 THEN next[<<f[k], k + 1>>] ELSE f[i]]
  <2>2. h \in [0..(k + 1) -> S]
    BY <2>1
  <2>3. \A i \in 0..k : h[i] = f[i]
    OBVIOUS
  <2>4. h[k + 1] = next[<<f[k], k + 1>>]
    OBVIOUS
  <2> HIDE DEF h
  <2>5. ASSUME NEW i \in 1..(k + 1) PROVE h[i] = next[<<h[i - 1], i>>]
    <3>1. CASE i = k + 1
      BY <2>3, <2>4, <3>1
    <3>2. CASE i # k + 1
      <4>1. i \in 1..k /\ i \in 0..k /\ i - 1 \in 0..k
        BY <3>2
      <4> QED
        BY <2>1, <2>3, <4>1
    <3> QED
      BY <3>1, <3>2
  <2>6. h[0] = first
    BY <2>1, <2>3
  <2> QED
    BY <2>2, <2>5, <2>6
<1> HIDE DEF Upto
<1>3. n \in Upto
  BY <1>1, <1>2, CountingUp
<1> QED
  BY <1>3 DEF Upto

(* Whatever goes by these steps stays in S.                                *)
StepsBy(f, S, first, next, n) ==
  f[0] = first /\ \A i \in 1..n : f[i - 1] \in S => f[i] = next[<<f[i - 1], i>>]

LEMMA StepsStay ==
  ASSUME NEW S, NEW first, NEW next, NEW n, NEW f, Stepping(S, first, next, n), StepsBy(f, S, first, next, n)
  PROVE  /\ \A i \in 0..n : f[i] \in S
         /\ \A i \in 1..n : f[i] = next[<<f[i - 1], i>>]
<1> DEFINE Right == {i \in Nat : i <= n => f[i] \in S}
<1>1. 0 \in Right
  BY DEF Stepping, StepsBy
<1>2. ASSUME NEW i \in Nat, i \in Right PROVE i + 1 \in Right
  <2> SUFFICES ASSUME i + 1 <= n PROVE f[i + 1] \in S
    OBVIOUS
  <2>1. f[i] \in S /\ i + 1 \in 1..n /\ (i + 1) - 1 = i
    BY <1>2 DEF Stepping
  <2> QED
    BY <2>1 DEF Stepping, StepsBy
<1> HIDE DEF Right
<1>3. Nat \subseteq Right
  BY <1>1, <1>2, CountingUp
<1>4. \A i \in 0..n : f[i] \in S
  BY <1>3 DEF Right, Stepping
<1>5. \A i \in 1..n : i - 1 \in 0..n
  BY DEF Stepping
<1> QED
  BY <1>4, <1>5 DEF StepsBy

(* The fold of a sequence from the left goes through the sets of its       *)
(* places, always leaving the last place of a set to the end.              *)
Foldwise(f, S, base, next, n) ==
  /\ f \in [SUBSET (1..n) -> S]
  /\ \A s \in SUBSET (1..n) : f[s] = IF s = {} THEN base ELSE next[<<f[s \ {Max(s)}], Max(s)>>]

(* The last place is one, and the last of the first i is i.                *)
LEMMA LastPlace ==
  ASSUME NEW i \in Nat \ {0}, NEW s \in SUBSET (1..i), i \in s
  PROVE  Max(s) = i
<1> DEFINE top == Max(s)
<1>1. \A y \in s : i >= y
  OBVIOUS
<1>2. top \in s /\ top >= i
  BY <1>1 DEF Max
<1> HIDE DEF top
<1>3. top \in 1..i
  BY <1>2
<1>4. top = i
  BY <1>2, <1>3
<1> QED
  BY <1>4 DEF top

(* Some places have a last one.                                            *)
LEMMA HasLast ==
  ASSUME NEW n \in Nat, NEW s \in SUBSET (1..n), s # {}
  PROVE  Max(s) \in s /\ \A y \in s : Max(s) >= y
<1> DEFINE Some == {k \in Nat : \A r \in SUBSET (1..k) : r # {} => \E x \in r : \A y \in r : x >= y}
<1>1. 0 \in Some
  <2>1. 1..0 = {}
    OBVIOUS
  <2> QED
    BY <2>1
<1>2. ASSUME NEW k \in Nat, k \in Some PROVE k + 1 \in Some
  <2> SUFFICES ASSUME NEW r \in SUBSET (1..(k + 1)), r # {} PROVE \E x \in r : \A y \in r : x >= y
    OBVIOUS
  <2>1. CASE k + 1 \in r
    <3>1. \A y \in r : k + 1 >= y
      OBVIOUS
    <3> QED
      BY <2>1, <3>1
  <2>2. CASE k + 1 \notin r
    <3>1. r \in SUBSET (1..k)
      BY <2>2
    <3> QED
      BY <1>2, <3>1
  <2> QED
    BY <2>1, <2>2
<1>3. n \in Some
  <2> HIDE DEF Some
  <2> QED
    BY <1>1, <1>2, CountingUp
<1>4. \E x \in s : \A y \in s : x >= y
  BY <1>3
<1> QED
  BY <1>4 DEF Max

(* There is such a fold.                                                   *)
LEMMA FoldByFold ==
  ASSUME NEW S, NEW base, NEW next, NEW n, Stepping(S, base, next, n)
  PROVE  \E f : Foldwise(f, S, base, next, n)
<1> DEFINE Upto == {k \in Nat : k <= n => \E f : Foldwise(f, S, base, next, k)}
<1>1. 0 \in Upto
  <2> DEFINE f == [s \in SUBSET (1..0) |-> base]
  <2>1. 1..0 = {} /\ SUBSET (1..0) = {{}}
    OBVIOUS
  <2>2. f \in [SUBSET (1..0) -> S]
    BY DEF Stepping
  <2>3. f[{}] = base
    BY <2>1
  <2> HIDE DEF f
  <2>4. Foldwise(f, S, base, next, 0)
    BY <2>1, <2>2, <2>3 DEF Foldwise
  <2> QED
    BY <2>4
<1>2. ASSUME NEW k \in Nat, k \in Upto PROVE k + 1 \in Upto
  <2> SUFFICES ASSUME k + 1 <= n PROVE \E h : Foldwise(h, S, base, next, k + 1)
    BY <1>2
  <2>0. PICK f : Foldwise(f, S, base, next, k)
    BY <1>2, n \in Nat DEF Stepping
  <2>1. /\ f \in [SUBSET (1..k) -> S]
        /\ \A s \in SUBSET (1..k) : f[s] = IF s = {} THEN base ELSE next[<<f[s \ {Max(s)}], Max(s)>>]
    BY <2>0 DEF Foldwise
  <2> DEFINE h == [s \in SUBSET (1..(k + 1)) |->
                     IF k + 1 \in s THEN next[<<f[s \ {k + 1}], k + 1>>] ELSE f[s]]
  <2>2. \A s \in SUBSET (1..(k + 1)) : (k + 1 \notin s => s \in SUBSET (1..k)) /\ s \ {k + 1} \in SUBSET (1..k)
    OBVIOUS
  <2>3. h \in [SUBSET (1..(k + 1)) -> S]
    BY <2>1, <2>2 DEF Stepping
  <2>4. \A s \in SUBSET (1..(k + 1)) : h[s] = IF k + 1 \in s THEN next[<<f[s \ {k + 1}], k + 1>>] ELSE f[s]
    OBVIOUS
  <2> HIDE DEF h
  <2>5. ASSUME NEW s \in SUBSET (1..(k + 1))
        PROVE  h[s] = IF s = {} THEN base ELSE next[<<h[s \ {Max(s)}], Max(s)>>]
    <3>1. CASE k + 1 \in s
      <4>1. Max(s) = k + 1
        BY <3>1, LastPlace
      <4>2. s # {} /\ s \ {k + 1} \in SUBSET (1..(k + 1)) /\ k + 1 \notin s \ {k + 1}
        BY <3>1
      <4>3. h[s] = next[<<f[s \ {k + 1}], k + 1>>] /\ h[s \ {k + 1}] = f[s \ {k + 1}]
        BY <2>4, <3>1, <4>2
      <4> QED
        BY <4>1, <4>2, <4>3
    <3>2. CASE k + 1 \notin s
      <4>1. s \in SUBSET (1..k) /\ s \ {Max(s)} \in SUBSET (1..(k + 1)) /\ k + 1 \notin s \ {Max(s)}
        BY <2>2, <3>2
      <4>2. h[s] = f[s] /\ h[s \ {Max(s)}] = f[s \ {Max(s)}]
        BY <2>4, <3>2, <4>1
      <4>3. f[s] = IF s = {} THEN base ELSE next[<<f[s \ {Max(s)}], Max(s)>>]
        BY <2>1, <4>1
      <4> QED
        BY <4>2, <4>3
    <3> QED
      BY <3>1, <3>2
  <2>6. Foldwise(h, S, base, next, k + 1)
    BY <2>3, <2>5 DEF Foldwise
  <2> QED
    BY <2>6
<1> HIDE DEF Upto
<1>3. n \in Upto /\ n \in Nat
  BY <1>1, <1>2, CountingUp DEF Stepping
<1> QED
  BY <1>3 DEF Upto

(* Whatever goes through the sets by these steps ends in S.                *)
FoldsBy(f, S, base, next, n) ==
  /\ f[{}] = base
  /\ \A s \in SUBSET (1..n) :
       s # {} /\ f[s \ {Max(s)}] \in S => f[s] = next[<<f[s \ {Max(s)}], Max(s)>>]

LEMMA FoldStays ==
  ASSUME NEW S, NEW base, NEW next, NEW n, NEW f, Stepping(S, base, next, n), FoldsBy(f, S, base, next, n)
  PROVE  f[1..n] \in S
<1> DEFINE Right == {i \in Nat : i <= n => f[1..i] \in S}
<1>1. 0 \in Right
  <2>1. 1..0 = {}
    OBVIOUS
  <2> QED
    BY <2>1 DEF Stepping, FoldsBy
<1>2. ASSUME NEW i \in Nat, i \in Right PROVE i + 1 \in Right
  <2> SUFFICES ASSUME i + 1 <= n PROVE f[1..(i + 1)] \in S
    OBVIOUS
  <2>1. i + 1 \in Nat \ {0} /\ 1..(i + 1) \in SUBSET (1..(i + 1)) /\ i + 1 \in 1..(i + 1)
    OBVIOUS
  <2>2. Max(1..(i + 1)) = i + 1
    BY <2>1, LastPlace
  <2>3. 1..(i + 1) # {} /\ (1..(i + 1)) \ {i + 1} = 1..i
    OBVIOUS
  <2>4. f[1..i] \in S /\ i + 1 \in 1..n /\ 1..(i + 1) \in SUBSET (1..n)
    BY <1>2 DEF Stepping
  <2>5. f[1..(i + 1)] = next[<<f[1..i], i + 1>>]
    BY <2>2, <2>3, <2>4 DEF FoldsBy
  <2> QED
    BY <2>4, <2>5 DEF Stepping
<1> HIDE DEF Right
<1>3. Nat \subseteq Right
  BY <1>1, <1>2, CountingUp
<1> QED
  BY <1>3 DEF Right, Stepping

(* And it goes there place by place.                                       *)
LEMMA FoldGoes ==
  ASSUME NEW S, NEW base, NEW next, NEW n, NEW f, Stepping(S, base, next, n), FoldsBy(f, S, base, next, n)
  PROVE  \E g : Stepwise(g, S, base, next, n) /\ f[1..n] = g[n]
<1> DEFINE g == [i \in 0..n |-> f[1..i]]
<1>0. n \in Nat
  BY DEF Stepping
<1>1. ASSUME NEW i \in 0..n PROVE f[1..i] \in S
  <2>1. i \in Nat /\ 1..i \subseteq 1..n /\ SUBSET (1..i) \subseteq SUBSET (1..n)
    BY <1>0
  <2>2. Stepping(S, base, next, i) /\ FoldsBy(f, S, base, next, i)
    BY <2>1 DEF Stepping, FoldsBy
  <2> QED
    BY <2>2, FoldStays
<1>2. ASSUME NEW i \in 1..n PROVE f[1..i] = next[<<f[1..(i - 1)], i>>]
  <2>1. i \in Nat \ {0} /\ 1..i \in SUBSET (1..i) /\ i \in 1..i /\ 1..i \in SUBSET (1..n) /\ i - 1 \in 0..n
    BY <1>0
  <2>2. Max(1..i) = i
    BY <2>1, LastPlace
  <2>3. 1..i # {} /\ (1..i) \ {i} = 1..(i - 1)
    BY <2>1
  <2>4. f[1..(i - 1)] \in S
    BY <1>1, <2>1
  <2> QED
    BY <2>1, <2>2, <2>3, <2>4 DEF FoldsBy
<1>3. f[1..0] = base
  <2>1. 1..0 = {}
    OBVIOUS
  <2> QED
    BY <2>1 DEF FoldsBy
<1>4. g \in [0..n -> S]
  BY <1>1
<1>5. g[0] = base /\ f[1..n] = g[n]
  BY <1>0, <1>3
<1>6. \A i \in 1..n : i \in 0..n /\ i - 1 \in 0..n
  BY <1>0
<1>7. \A i \in 1..n : g[i] = next[<<g[i - 1], i>>]
  BY <1>2, <1>6
<1> HIDE DEF g
<1> QED
  BY <1>4, <1>5, <1>7 DEF Stepwise

-----------------------------------------------------------------------------
(* Departments: what an import makes of its file.                          *)

(* A sequence with one element more.                                       *)
LEMMA OneMore ==
  ASSUME NEW S, NEW v \in Seq(S), NEW e \in S
  PROVE  /\ Append(v, e) \in Seq(S) \ {<<>>} /\ Len(v) \in Nat /\ (v # <<>> => Len(v) >= 1)
         /\ Len(Append(v, e)) = Len(v) + 1 /\ Append(v, e)[Len(v) + 1] = e
         /\ \A k \in 1..Len(v) : Append(v, e)[k] = v[k]
<1>1. Append(v, e) \in Seq(S) /\ Len(v) \in Nat /\ Len(Append(v, e)) = Len(v) + 1
  OBVIOUS
<1>2. v # <<>> => Len(v) >= 1
  OBVIOUS
<1>3. Append(v, e)[Len(v) + 1] = e /\ \A k \in 1..Len(v) : Append(v, e)[k] = v[k]
  OBVIOUS
<1>4. Append(v, e) # <<>>
  BY <1>1
<1> QED
  BY <1>1, <1>2, <1>3, <1>4

(* What is above a row of a file are rows of it, each the parent of the    *)
(* one before, as many as were asked for or up to the top.                 *)
LEMMA UpIsInFile ==
  ASSUME NEW file, NEW x \in NamesIn(file), NEW n \in Nat
  PROVE  LET up == ParentsUp(file, x, n)
         IN  /\ up \in Seq(NamesIn(file)) \ {<<>>} /\ up[1] = x
             /\ \A k \in 1..(Len(up) - 1) : up[k + 1] = RowOf(file, up[k]).parent
             /\ Len(up) = n + 1 \/ RowOf(file, up[Len(up)]).parent \notin NamesIn(file)
<1> DEFINE N == NamesIn(file)
           Parent(y) == RowOf(file, y).parent
           Rising(v) == v[1] = x /\ \A k \in 1..(Len(v) - 1) : v[k + 1] = Parent(v[k])
           S == {v \in Seq(N) \ {<<>>} : Rising(v)}
           step(v) == LET parent == RowOf(file, Last(v)).parent
                      IN  IF parent \in NamesIn(file) THEN Append(v, parent) ELSE v
           next == [v \in S \X (1..n) |-> step(v[1])]
           Rule(f) == f = [i \in 0..n |->
                             IF i = 0 THEN <<x>>
                             ELSE LET parent == RowOf(file, Last(f[i - 1])).parent
                                  IN  IF parent \in NamesIn(file) THEN Append(f[i - 1], parent) ELSE f[i - 1]]
<1>a. ASSUME NEW v \in S
      PROVE  LET p == Parent(v[Len(v)]) IN step(v) = IF p \in N THEN Append(v, p) ELSE v
  BY DEF Last
<1>1. ASSUME NEW v \in S PROVE step(v) \in S
  <2>0. PICK p : p = Parent(v[Len(v)])
    OBVIOUS
  <2>1. CASE p \notin N
    BY <1>a, <2>0, <2>1
  <2>2. CASE p \in N
    <3> HIDE DEF N, Parent
    <3>1. v \in Seq(N) /\ v # <<>> /\ v[1] = x /\ \A k \in 1..(Len(v) - 1) : v[k + 1] = Parent(v[k])
      OBVIOUS
    <3>2. PICK w, l : w = Append(v, p) /\ l = Len(v)
      OBVIOUS
    <3>3. /\ w \in Seq(N) \ {<<>>} /\ l \in Nat /\ l >= 1
          /\ Len(w) = l + 1 /\ w[l + 1] = p /\ \A k \in 1..l : w[k] = v[k]
      BY <2>2, <3>1, <3>2, OneMore
    <3>4. w # <<>> /\ w[1] = x
      BY <3>1, <3>3
    <3>5. ASSUME NEW k \in 1..((l + 1) - 1) PROVE w[k + 1] = Parent(w[k])
      <4>1. CASE k = l
        <5>1. w[k] = v[l] /\ w[k + 1] = p
          BY <3>3, <4>1
        <5> QED
          BY <2>0, <3>2, <4>1, <5>1
      <4>2. CASE k # l
        <5>1. k \in 1..(l - 1) /\ k + 1 \in 1..l /\ k \in 1..l
          BY <3>3, <4>2
        <5> QED
          BY <3>1, <3>2, <3>3, <5>1
      <4> QED
        BY <4>1, <4>2
    <3>6. w \in S
      BY <3>3, <3>4, <3>5
    <3>7. step(v) = w
      BY <1>a, <2>0, <2>2, <3>2 DEF Parent, N
    <3> QED
      BY <3>6, <3>7
  <2> QED
    BY <2>1, <2>2
<1>2. \A v \in S : \A i \in 1..n : next[<<v, i>>] = step(v)
  <2> HIDE DEF S, step
  <2> QED
    OBVIOUS
<1>3. <<x>> \in S
  <2> HIDE DEF N, Parent
  <2>1. x \in N
    BY DEF N
  <2>2. Len(<<x>>) = 1 /\ <<x>>[1] = x /\ 1..(1 - 1) = {} /\ <<x>> \in Seq(N) /\ <<x>> # <<>>
    BY <2>1
  <2> QED
    BY <2>2
<1>b. ASSUME NEW v \in S
      PROVE  v \in Seq(N) \ {<<>>} /\ Rising(v)
  OBVIOUS
<1> HIDE DEF S, next, step
<1>4. Stepping(S, <<x>>, next, n)
  BY <1>1, <1>2, <1>3 DEF Stepping
<1>5. PICK f : Stepwise(f, S, <<x>>, next, n)
  BY <1>4, StepByStep
<1>6. ASSUME NEW i \in 0..n PROVE f[i] = IF i = 0 THEN <<x>> ELSE step(f[i - 1])
  <2>1. i # 0 => i \in 1..n /\ i - 1 \in 0..n
    OBVIOUS
  <2>2. i # 0 => f[i - 1] \in S
    BY <1>5, <2>1 DEF Stepwise
  <2> QED
    BY <1>2, <1>5, <2>1, <2>2 DEF Stepwise
<1>7. Rule(f)
  <2>1. f = [i \in 0..n |-> f[i]]
    BY <1>5 DEF Stepwise
  <2> QED
    BY <1>6, <2>1, Zenon DEF step
<1>8. PICK up : Rule(up) /\ ParentsUp(file, x, n) = up[n]
  BY <1>7, Zenon DEF ParentsUp
<1>9. ASSUME NEW i \in 0..n PROVE up[i] = IF i = 0 THEN <<x>> ELSE step(up[i - 1])
  BY <1>8, Zenon DEF step
<1>10. StepsBy(up, S, <<x>>, next, n)
  <2>1. 0 \in 0..n /\ \A i \in 1..n : i \in 0..n /\ i # 0
    OBVIOUS
  <2> QED
    BY <1>2, <1>9, <2>1 DEF StepsBy
<1>11. \A i \in 0..n : up[i] \in S
  BY <1>4, <1>10, StepsStay
<1> DEFINE Top(v) == Parent(v[Len(v)]) \notin N
           High == {i \in Nat : i <= n => Len(up[i]) = i + 1 \/ Top(up[i])}
<1>12. 0 \in High
  <2>1. up[0] = <<x>> /\ Len(<<x>>) = 0 + 1
    BY <1>9
  <2>2. 0 \in Nat
    OBVIOUS
  <2> HIDE DEF Top
  <2> QED
    BY <2>1, <2>2
<1>13. ASSUME NEW i \in Nat, i \in High PROVE i + 1 \in High
  <2> SUFFICES ASSUME i + 1 <= n PROVE Len(up[i + 1]) = (i + 1) + 1 \/ Top(up[i + 1])
    OBVIOUS
  <2>1. i + 1 \in 0..n /\ i \in 0..n /\ i + 1 # 0 /\ (i + 1) - 1 = i
    OBVIOUS
  <2>2. PICK v \in S : v = up[i]
    BY <1>11, <2>1
  <2>3. up[i + 1] = step(v) /\ (Len(v) = i + 1 \/ Top(v))
    BY <1>9, <1>13, <2>1, <2>2
  <2>4. CASE Top(v)
    <3>1. step(v) = v
      BY <1>a, <2>4
    <3> QED
      BY <2>3, <2>4, <3>1
  <2>5. CASE ~Top(v)
    <3>1. PICK p : p = Parent(v[Len(v)])
      OBVIOUS
    <3>2. step(v) = Append(v, p)
      BY <1>a, <2>5, <3>1
    <3>3. v \in Seq(N) /\ p \in N
      BY <1>b, <2>5, <3>1
    <3> HIDE DEF N
    <3>4. Len(Append(v, p)) = Len(v) + 1
      BY <3>3
    <3> QED
      BY <2>3, <2>5, <3>2, <3>4
  <2> QED
    BY <2>4, <2>5
<1>14. n \in High
  <2> HIDE DEF High
  <2> QED
    BY <1>12, <1>13, CountingUp
<1>15. PICK v \in S : v = up[n]
  BY <1>11
<1>16. Len(v) = n + 1 \/ Top(v)
  BY <1>14, <1>15
<1> QED
  BY <1>8, <1>15, <1>16, <1>b

(* Of the first k places there are at most k.                              *)
LEMMA AtMostAll ==
  ASSUME NEW k \in Nat, NEW s \in SUBSET (1..k)
  PROVE  Cardinality(s) \in 0..k
<1>1. IsFiniteSet(1..k) /\ Cardinality(1..k) = k
  BY FS_Interval
<1>2. Cardinality(s) \in Nat /\ Cardinality(s) <= k
  BY <1>1, FS_Subset, FS_CardinalityType
<1> QED
  BY <1>2

(* What is placed of a file are rows of it.                                *)
LEMMA PlacedAreInFile ==
  ASSUME NEW file, Len(file) \in Nat, NEW out \in Seq(NamesIn(file)), NEW row, row.name \in NamesIn(file)
  PROVE  Visit(file, out, row) \in Seq(NamesIn(file))
<1> DEFINE up == ParentsUp(file, row.name, Len(file))
           open == {i \in DOMAIN up : \A j \in 1..i : ~Contains(out, up[j])}
           N == NamesIn(file)
<1>1. up \in Seq(N)
  BY UpIsInFile
<1> HIDE DEF N, up
<1>2. open \in SUBSET (1..Len(up)) /\ Len(up) \in Nat
  BY <1>1
<1> HIDE DEF open
<1>3. Cardinality(open) \in 0..Len(up)
  BY <1>2, AtMostAll
<1>4. ASSUME NEW k \in 0..Len(up) PROVE Reverse(SubSeq(up, 1, k)) \in Seq(N)
  <2>1. SubSeq(up, 1, k) \in Seq(N)
    BY <1>1, <1>4
  <2> QED
    BY <2>1 DEF Reverse
<1>5. \A tail \in Seq(N) : out \o tail \in Seq(N)
  BY DEF N
<1> QED
  BY <1>3, <1>4, <1>5 DEF Visit, up, open, N

(* So are all that are placed, row by row.                                 *)
LEMMA OrderByRows ==
  ASSUME NEW file, NEW R, file \in Seq(R)
  PROVE  \E g \in [0..Len(file) -> Seq(NamesIn(file))] :
           /\ g[0] = <<>> /\ \A i \in 1..Len(file) : g[i] = Visit(file, g[i - 1], file[i])
           /\ OrderDepartments(file) = g[Len(file)]
<1> DEFINE S == Seq(NamesIn(file))
           n == Len(file)
           next == [x \in S \X (1..n) |-> Visit(file, x[1], file[x[2]])]
           Rule(f) == f = [s \in SUBSET DOMAIN file |->
                             IF s = {} THEN <<>> ELSE Visit(file, f[s \ {Max(s)}], file[Max(s)])]
<1>1. n \in Nat /\ DOMAIN file = 1..n
  OBVIOUS
<1>2. \A i \in 1..n : file[i].name \in NamesIn(file)
  BY <1>1 DEF NamesIn
<1>3. \A x \in S : \A i \in 1..n : next[<<x, i>>] = Visit(file, x, file[i])
  <2> HIDE DEF S, n
  <2> QED
    BY Zenon
<1>4. Stepping(S, <<>>, next, n)
  <2>1. \A x \in S : \A i \in 1..n : next[<<x, i>>] \in S
    <3> HIDE DEF next
    <3> QED
      BY <1>1, <1>2, <1>3, PlacedAreInFile
  <2>2. <<>> \in S
    OBVIOUS
  <2> HIDE DEF S, next, n
  <2> QED
    BY <1>1, <2>1, <2>2 DEF Stepping
<1> HIDE DEF S, next, n
<1>5. PICK f : Foldwise(f, S, <<>>, next, n)
  BY <1>4, FoldByFold
<1>6. Rule(f)
  <2>1. \A s \in SUBSET (1..n) : f[s] = IF s = {} THEN <<>> ELSE Visit(file, f[s \ {Max(s)}], file[Max(s)])
    <3> SUFFICES ASSUME NEW s \in SUBSET (1..n), s # {}
                 PROVE  f[s] = Visit(file, f[s \ {Max(s)}], file[Max(s)])
      BY <1>5 DEF Foldwise
    <3>1. Max(s) \in 1..n
      BY <1>1, HasLast
    <3>2. f[s \ {Max(s)}] \in S
      BY <1>5 DEF Foldwise
    <3> QED
      BY <1>3, <1>5, <3>1, <3>2 DEF Foldwise
  <2>2. f = [s \in SUBSET (1..n) |-> f[s]]
    BY <1>5 DEF Foldwise
  <2> QED
    BY <1>1, <2>1, <2>2, Zenon
<1>7. PICK it : Rule(it) /\ OrderDepartments(file) = it[DOMAIN file]
  BY <1>6, Zenon DEF OrderDepartments, FoldLeft, MapThenFoldSet
<1>8. it[{}] = <<>>
  BY <1>7, Zenon
<1>9. ASSUME NEW s \in SUBSET (1..n), s # {}, it[s \ {Max(s)}] \in S
      PROVE  it[s] = next[<<it[s \ {Max(s)}], Max(s)>>]
  <2>1. it[s] = Visit(file, it[s \ {Max(s)}], file[Max(s)])
    BY <1>1, <1>7, <1>9, Zenon
  <2>2. Max(s) \in 1..n
    BY <1>1, <1>9, HasLast
  <2> QED
    BY <1>3, <1>9, <2>1, <2>2
<1>10. FoldsBy(it, S, <<>>, next, n)
  BY <1>8, <1>9 DEF FoldsBy
<1>11. PICK g : Stepwise(g, S, <<>>, next, n) /\ it[1..n] = g[n]
  BY <1>4, <1>10, FoldGoes
<1>12. g \in [0..n -> S] /\ g[0] = <<>> /\ \A i \in 1..n : i - 1 \in 0..n /\ g[i] = next[<<g[i - 1], i>>]
  BY <1>1, <1>11 DEF Stepwise
<1>13. \A i \in 1..n : g[i] = Visit(file, g[i - 1], file[i])
  BY <1>3, <1>12
<1> QED
  BY <1>1, <1>7, <1>11, <1>12, <1>13 DEF S, n

(* The order is of rows of the file.                                       *)
LEMMA OrderIsOfFile ==
  ASSUME NEW file, NEW R, file \in Seq(R)
  PROVE  OrderDepartments(file) \in Seq(NamesIn(file))
<1>1. PICK g \in [0..Len(file) -> Seq(NamesIn(file))] : OrderDepartments(file) = g[Len(file)]
  BY OrderByRows
<1>2. Len(file) \in 0..Len(file)
  OBVIOUS
<1> QED
  BY <1>1, <1>2

(* Functions on some of the keys.                                          *)
Partial(K, V) == UNION {[D -> V] : D \in SUBSET K}

(* A function is one of these when its keys and values are among them.     *)
LEMMA IsPartial ==
  ASSUME NEW K, NEW V, NEW f
  PROVE  f \in Partial(K, V) <=>
           f = [k \in DOMAIN f |-> f[k]] /\ DOMAIN f \subseteq K /\ \A k \in DOMAIN f : f[k] \in V
<1>1. ASSUME NEW D \in SUBSET K, f \in [D -> V]
      PROVE  f = [k \in DOMAIN f |-> f[k]] /\ DOMAIN f \subseteq K /\ \A k \in DOMAIN f : f[k] \in V
  BY <1>1
<1>2. ASSUME f = [k \in DOMAIN f |-> f[k]], DOMAIN f \subseteq K, \A k \in DOMAIN f : f[k] \in V
      PROVE  f \in [DOMAIN f -> V] /\ DOMAIN f \in SUBSET K
  BY <1>2
<1> QED
  BY <1>1, <1>2, Zenon DEF Partial

(* A row more is a row of these keys, too.                                 *)
LEMMA WithRowIsPartial ==
  ASSUME NEW K, NEW V, NEW f \in Partial(K, V), NEW k \in K, NEW v \in V
  PROVE  WithRow(f, k, v) \in Partial(K, V)
<1>1. DOMAIN f \subseteq K /\ \A x \in DOMAIN f : f[x] \in V
  BY IsPartial
<1> DEFINE g == WithRow(f, k, v)
<1>2. g = [x \in DOMAIN f \cup {k} |-> IF x = k THEN v ELSE f[x]]
  BY DEF WithRow
<1> HIDE DEF g
<1>3. DOMAIN g = DOMAIN f \cup {k} /\ g = [x \in DOMAIN g |-> g[x]]
  BY <1>2
<1>4. \A x \in DOMAIN g : g[x] \in V
  BY <1>1, <1>2
<1>5. g \in Partial(K, V)
  BY <1>1, <1>3, <1>4, IsPartial
<1> QED
  BY <1>5 DEF g

(* The rows that an import makes are its own, each named as a row of its   *)
(* file is.                                                                *)
LEMMA MadeIsOfFile ==
  ASSUME NEW t, NEW R, File(t) \in Seq(R), req[t].saw = [x \in DOMAIN req[t].saw |-> req[t].saw[x]]
  PROVE  /\ DOMAIN MadeFrom(t) \subseteq {t} \X NamesIn(File(t))
         /\ \A d \in DOMAIN MadeFrom(t) : MadeFrom(t)[d].name = d[2] /\ MadeFrom(t)[d].stamp = t
         /\ LET order == OrderDepartments(File(t))
            IN  \E g : /\ g[0] = [ids |-> req[t].saw, rows |-> <<>>]
                       /\ \A i \in 1..Len(order) : g[i] = Insert(t, g[i - 1], order[i])
                       /\ MadeFrom(t) = g[Len(order)].rows
<1> DEFINE N == NamesIn(File(t))
           saw == req[t].saw
           order == OrderDepartments(File(t))
           V == {saw[x] : x \in DOMAIN saw} \cup ({t} \X N) \cup {None}
           O == {RowOf(File(t), x).owner : x \in N}
           Row == [name : N, parent : V, owner : O, stamp : {t}]
           Ids == Partial(DOMAIN saw \cup N, V)
           Tables == Partial({t} \X N, Row)
           S == {x \in [ids : Ids, rows : Tables] : \A d \in DOMAIN x.rows : x.rows[d].name = d[2]}
           n == Len(order)
           base == [ids |-> saw, rows |-> <<>>]
           next == [x \in S \X (1..n) |-> Insert(t, x[1], order[x[2]])]
           Rule(f) == f = [s \in SUBSET DOMAIN order |->
                             IF s = {} THEN base ELSE Insert(t, f[s \ {Max(s)}], order[Max(s)])]
<1>1. order \in Seq(N)
  BY OrderIsOfFile
<1>2. saw \in Ids
  <2>1. \A x \in DOMAIN saw : saw[x] \in V
    OBVIOUS
  <2> HIDE DEF saw, V, N
  <2> QED
    BY <2>1, IsPartial DEF saw
<1>3. ASSUME NEW made \in S, NEW x \in N PROVE Insert(t, made, x) \in S
  <2> DEFINE row == RowOf(File(t), x)
             up == IF row.parent \in DOMAIN made.ids THEN made.ids[row.parent] ELSE None
             new == [name |-> x, parent |-> up, owner |-> row.owner, stamp |-> t]
             made2 == Insert(t, made, x)
  <2>1. made.ids \in Ids /\ made.rows \in Tables /\ \A d \in DOMAIN made.rows : made.rows[d].name = d[2]
    <3> HIDE DEF Ids, Tables
    <3> QED
      OBVIOUS
  <2>2. made2 = [ids |-> WithRow(made.ids, x, <<t, x>>), rows |-> WithRow(made.rows, <<t, x>>, new)]
    BY DEF Insert
  <2>3. up \in V
    <3>1. row.parent \in DOMAIN made.ids => made.ids[row.parent] \in V
      <4> HIDE DEF V, row
      <4> QED
        BY <2>1, IsPartial
    <3> HIDE DEF row
    <3> QED
      BY <3>1
  <2>4. new \in Row
    <3>1. row.owner \in O
      OBVIOUS
    <3> HIDE DEF V, O, row, N, up
    <3> QED
      BY <2>3, <3>1
  <2>5. WithRow(made.ids, x, <<t, x>>) \in Ids
    <3>1. <<t, x>> \in V /\ x \in DOMAIN saw \cup N
      OBVIOUS
    <3> HIDE DEF V, N, saw
    <3> QED
      BY <2>1, <3>1, WithRowIsPartial
  <2>6. /\ WithRow(made.rows, <<t, x>>, new) \in Tables
        /\ DOMAIN WithRow(made.rows, <<t, x>>, new) = DOMAIN made.rows \cup {<<t, x>>}
        /\ WithRow(made.rows, <<t, x>>, new)[<<t, x>>] = new
        /\ \A d \in DOMAIN made.rows \ {<<t, x>>} : WithRow(made.rows, <<t, x>>, new)[d] = made.rows[d]
    <3>1. <<t, x>> \in {t} \X N
      OBVIOUS
    <3> HIDE DEF Row, N, new
    <3>2. WithRow(made.rows, <<t, x>>, new) \in Tables
      BY <2>1, <2>4, <3>1, WithRowIsPartial
    <3> HIDE DEF S, Tables
    <3> QED
      BY <3>2 DEF WithRow
  <2>7. new.name = x
    OBVIOUS
  <2> HIDE DEF new, Ids, Tables, made2
  <2> DEFINE rows == WithRow(made.rows, <<t, x>>, new)
  <2>8. \A d \in DOMAIN rows : rows[d].name = d[2]
    <3> SUFFICES ASSUME NEW d \in DOMAIN rows PROVE rows[d].name = d[2]
      OBVIOUS
    <3>1. CASE d = <<t, x>>
      BY <2>6, <2>7, <3>1
    <3>2. CASE d # <<t, x>>
      BY <2>1, <2>6, <3>2
    <3> QED
      BY <3>1, <3>2
  <2> HIDE DEF rows
  <2>9. made2 = [ids |-> WithRow(made.ids, x, <<t, x>>), rows |-> rows] /\ rows \in Tables
    BY <2>2, <2>6 DEF rows
  <2>10. made2 \in S
    BY <2>5, <2>8, <2>9
  <2> QED
    BY <2>10 DEF made2
<1>4. base \in S
  <2>1. <<>> \in Tables /\ DOMAIN <<>> = {}
    <3> HIDE DEF Row, N
    <3>1. DOMAIN <<>> = {} /\ <<>> = [k \in DOMAIN <<>> |-> <<>>[k]]
      OBVIOUS
    <3> QED
      BY <3>1, IsPartial
  <2> HIDE DEF Tables, Ids, saw
  <2> QED
    BY <1>2, <2>1
<1> DEFINE Put(made, x) == Insert(t, made, x)
<1>5. \A x \in S : \A i \in 1..n : next[<<x, i>>] = Put(x, order[i])
  <2> HIDE DEF S, n, order
  <2> QED
    BY Zenon
<1>6. n \in Nat /\ DOMAIN order = 1..n /\ \A i \in 1..n : order[i] \in N
  <2> HIDE DEF N, order
  <2> QED
    BY <1>1
<1>7. \A x \in S : \A i \in 1..n : Put(x, order[i]) \in S
  <2> HIDE DEF S, n, order, N
  <2> QED
    BY <1>3, <1>6
<1> HIDE DEF S, n, order, base, next, Put
<1>8. Stepping(S, base, next, n)
  BY <1>4, <1>5, <1>6, <1>7 DEF Stepping
<1>9. PICK f : Foldwise(f, S, base, next, n)
  BY <1>8, FoldByFold
<1>10. Rule(f)
  <2>1. \A s \in SUBSET (1..n) : f[s] = IF s = {} THEN base ELSE Put(f[s \ {Max(s)}], order[Max(s)])
    <3> SUFFICES ASSUME NEW s \in SUBSET (1..n), s # {}
                 PROVE  f[s] = Put(f[s \ {Max(s)}], order[Max(s)])
      BY <1>9 DEF Foldwise
    <3>1. Max(s) \in 1..n
      BY <1>6, HasLast
    <3>2. f[s \ {Max(s)}] \in S
      BY <1>9 DEF Foldwise
    <3> QED
      BY <1>5, <1>9, <3>1, <3>2 DEF Foldwise
  <2>2. f = [s \in SUBSET (1..n) |-> f[s]]
    BY <1>9 DEF Foldwise
  <2> QED
    BY <1>6, <2>1, <2>2, Zenon DEF Put
<1>11. PICK it : Rule(it) /\ MadeFrom(t) = it[DOMAIN order].rows
  BY <1>10, Zenon DEF MadeFrom, FoldLeft, MapThenFoldSet, base, order
<1>12. it[{}] = base
  BY <1>11, Zenon
<1>13. ASSUME NEW s \in SUBSET (1..n), s # {}, it[s \ {Max(s)}] \in S
       PROVE  it[s] = next[<<it[s \ {Max(s)}], Max(s)>>]
  <2>1. it[s] = Put(it[s \ {Max(s)}], order[Max(s)])
    BY <1>6, <1>11, <1>13, Zenon DEF Put
  <2>2. Max(s) \in 1..n
    BY <1>6, <1>13, HasLast
  <2> QED
    BY <1>5, <1>13, <2>1, <2>2
<1>14. FoldsBy(it, S, base, next, n)
  BY <1>12, <1>13 DEF FoldsBy
<1>15. it[1..n] \in S
  BY <1>8, <1>14, FoldStays
<1>16. MadeFrom(t) \in Tables /\ \A d \in DOMAIN MadeFrom(t) : MadeFrom(t)[d].name = d[2]
  <2> HIDE DEF Tables, Ids
  <2> QED
    BY <1>6, <1>11, <1>15 DEF S
<1>17. DOMAIN MadeFrom(t) \subseteq {t} \X N /\ \A d \in DOMAIN MadeFrom(t) : MadeFrom(t)[d] \in Row
  <2> HIDE DEF Row, N
  <2> QED
    BY <1>16, IsPartial
<1>18. PICK g : Stepwise(g, S, base, next, n) /\ it[1..n] = g[n]
  BY <1>8, <1>14, FoldGoes
<1>19. g \in [0..n -> S] /\ g[0] = base /\ \A i \in 1..n : i - 1 \in 0..n /\ g[i] = next[<<g[i - 1], i>>]
  BY <1>6, <1>18 DEF Stepwise
<1>20. \A i \in 1..n : g[i] = Put(g[i - 1], order[i])
  BY <1>5, <1>19
<1>21. MadeFrom(t) = g[n].rows
  BY <1>6, <1>11, <1>18
<1> QED
  BY <1>16, <1>17, <1>19, <1>20, <1>21 DEF Put, base, order, n

-----------------------------------------------------------------------------
(* The organisation chart: what it draws of the departments it has read.   *)

(* Above a department is its parent, and so on until there is none.        *)
LEMMA AboveIs ==
  ASSUME NEW read, NEW d
  PROVE  /\ Above(read, d)[0] = d
         /\ \A n \in 1..(MAX_DEPTH + 1) :
              Above(read, d)[n] = IF Above(read, d)[n - 1] \in Nodes(read)
                                  THEN read.parent[Above(read, d)[n - 1]] ELSE Above(read, d)[n - 1]
<1> DEFINE N == Nodes(read)
           p == read.parent
           S == {d} \cup {p[x] : x \in N}
           M == MAX_DEPTH + 1
           next == [x \in S \X (1..M) |-> IF x[1] \in N THEN p[x[1]] ELSE x[1]]
           Rule(f) == f = [n \in 0..M |-> IF n = 0 THEN d ELSE IF f[n - 1] \in N THEN p[f[n - 1]] ELSE f[n - 1]]
<1>1. M \in Nat
  BY DepthAssumption
<1>2. \A x \in S : \A i \in 1..M : next[<<x, i>>] = (IF x \in N THEN p[x] ELSE x) /\ next[<<x, i>>] \in S
  <2> HIDE DEF N, p, M
  <2> QED
    OBVIOUS
<1>3. \A x \in S : \A i \in 1..M : next[<<x, i>>] \in S
  BY <1>2
<1>4. d \in S
  OBVIOUS
<1> HIDE DEF N, p, S, M, next
<1>5. PICK f : Stepwise(f, S, d, next, M)
  BY <1>1, <1>3, <1>4, StepByStep DEF Stepping
<1>6. ASSUME NEW i \in 0..M PROVE f[i] = IF i = 0 THEN d ELSE IF f[i - 1] \in N THEN p[f[i - 1]] ELSE f[i - 1]
  <2>1. i # 0 => i \in 1..M /\ i - 1 \in 0..M
    BY <1>1
  <2>2. i # 0 => f[i - 1] \in S
    BY <1>5, <2>1 DEF Stepwise
  <2> QED
    BY <1>2, <1>5, <2>1, <2>2 DEF Stepwise
<1>7. Rule(f)
  BY <1>5, <1>6 DEF Stepwise
<1>8. Rule(Above(read, d))
  BY <1>7, Zenon DEF Above, N, p, M
<1>9. \A n \in 0..M : Above(read, d)[n] =
        IF n = 0 THEN d ELSE IF Above(read, d)[n - 1] \in N THEN p[Above(read, d)[n - 1]] ELSE Above(read, d)[n - 1]
  BY <1>8
<1>10. 0 \in 0..M /\ \A n \in 1..M : n \in 0..M /\ n # 0
  BY <1>1
<1> QED
  BY <1>9, <1>10 DEF N, p, M

(* Above a department is what is above its parent, one step further.       *)
LEMMA AboveTheParent ==
  ASSUME NEW read, NEW d \in Nodes(read), NEW n \in 0..MAX_DEPTH
  PROVE  Above(read, d)[n + 1] = Above(read, read.parent[d])[n]
<1> DEFINE p == read.parent[d]
           S == {i \in Nat : i <= MAX_DEPTH => Above(read, d)[i + 1] = Above(read, p)[i]}
<1>1. MAX_DEPTH \in Nat
  BY DepthAssumption
<1> HIDE DEF p
<1>2. 0 \in S
  <2>1. 1 \in 1..(MAX_DEPTH + 1) /\ 1 - 1 = 0
    BY <1>1
  <2>2. Above(read, d)[1] = p /\ Above(read, p)[0] = p
    BY <2>1, AboveIs DEF p
  <2> QED
    BY <2>2
<1>3. ASSUME NEW i \in Nat, i \in S PROVE i + 1 \in S
  <2> SUFFICES ASSUME i + 1 <= MAX_DEPTH PROVE Above(read, d)[(i + 1) + 1] = Above(read, p)[i + 1]
    OBVIOUS
  <2>1. Above(read, d)[i + 1] = Above(read, p)[i]
    BY <1>1, <1>3
  <2>2. /\ (i + 1) + 1 \in 1..(MAX_DEPTH + 1) /\ ((i + 1) + 1) - 1 = i + 1
        /\ i + 1 \in 1..(MAX_DEPTH + 1) /\ (i + 1) - 1 = i
    BY <1>1
  <2>3. Above(read, d)[(i + 1) + 1] = IF Above(read, d)[i + 1] \in Nodes(read)
                                      THEN read.parent[Above(read, d)[i + 1]] ELSE Above(read, d)[i + 1]
    BY <2>2, AboveIs
  <2>4. Above(read, p)[i + 1] = IF Above(read, p)[i] \in Nodes(read)
                                THEN read.parent[Above(read, p)[i]] ELSE Above(read, p)[i]
    BY <2>2, AboveIs
  <2> QED
    BY <2>1, <2>3, <2>4
<1>4. n \in Nat /\ n <= MAX_DEPTH
  BY <1>1
<1>5. n \in S
  <2> HIDE DEF S
  <2> QED
    BY <1>2, <1>3, <1>4, CountingUp
<1> QED
  BY <1>4, <1>5 DEF p

(* Nobody is above what is not a department.                               *)
LEMMA NobodyAbove ==
  ASSUME NEW read, NEW d, d \notin Nodes(read), NEW n \in 0..(MAX_DEPTH + 1)
  PROVE  Above(read, d)[n] = d
<1> DEFINE S == {i \in Nat : i <= MAX_DEPTH + 1 => Above(read, d)[i] = d}
<1>1. MAX_DEPTH \in Nat
  BY DepthAssumption
<1>2. 0 \in S
  BY AboveIs
<1>3. ASSUME NEW i \in Nat, i \in S PROVE i + 1 \in S
  <2> SUFFICES ASSUME i + 1 <= MAX_DEPTH + 1 PROVE Above(read, d)[i + 1] = d
    OBVIOUS
  <2>1. Above(read, d)[i] = d /\ i + 1 \in 1..(MAX_DEPTH + 1) /\ (i + 1) - 1 = i
    BY <1>1, <1>3
  <2>2. Above(read, d)[i + 1] = IF Above(read, d)[i] \in Nodes(read)
                                THEN read.parent[Above(read, d)[i]] ELSE Above(read, d)[i]
    BY <2>1, AboveIs
  <2> QED
    BY <2>1, <2>2
<1>4. n \in Nat /\ n <= MAX_DEPTH + 1
  BY <1>1
<1>5. n \in S
  <2> HIDE DEF S
  <2> QED
    BY <1>2, <1>3, <1>4, CountingUp
<1> QED
  BY <1>4, <1>5

(* The level at a depth holds the departments that many steps under a top. *)
LEMMA DepthIsLevel ==
  ASSUME NEW read, NEW n \in 0..MAX_DEPTH
  PROVE  /\ AtDepth(read, n) \subseteq Nodes(read)
         /\ \A d \in Nodes(read) :
              d \in AtDepth(read, n) <=> Above(read, d)[n] \in Nodes(read) /\ Above(read, d)[n + 1] \notin Nodes(read)
<1> DEFINE N == Nodes(read)
           p == read.parent
           S == SUBSET N
           next == [x \in S \X (1..n) |-> UNION {Children(read, e) : e \in x[1]}]
           Rule(f) == f = [i \in 0..n |-> IF i = 0 THEN TreeRoots(read)
                                          ELSE UNION {Children(read, e) : e \in f[i - 1]}]
<1>1. n \in Nat /\ n <= MAX_DEPTH /\ MAX_DEPTH \in Nat
  BY DepthAssumption
<1>2. \A x \in S : UNION {Children(read, e) : e \in x} = {c \in N : p[c] \in x}
  BY DEF Children
<1>3. \A x \in S : \A i \in 1..n : next[<<x, i>>] = UNION {Children(read, e) : e \in x}
  <2> HIDE DEF N
  <2> QED
    OBVIOUS
<1>4. TreeRoots(read) = {c \in N : p[c] \notin N}
  BY DEF TreeRoots
<1> HIDE DEF N, p, next
<1>5. Stepping(S, TreeRoots(read), next, n)
  <2>1. \A x \in S : \A i \in 1..n : next[<<x, i>>] \in S
    BY <1>2, <1>3
  <2> QED
    BY <1>1, <1>4, <2>1 DEF Stepping
<1>6. PICK f : Stepwise(f, S, TreeRoots(read), next, n)
  <2> HIDE DEF S
  <2> QED
    BY <1>5, StepByStep
<1>7. Rule(f)
  <2>1. ASSUME NEW i \in 0..n
        PROVE  f[i] = IF i = 0 THEN TreeRoots(read) ELSE UNION {Children(read, e) : e \in f[i - 1]}
    <3>1. i # 0 => i \in 1..n /\ i - 1 \in 0..n
      BY <1>1
    <3>2. i # 0 => f[i - 1] \in S
      BY <1>6, <3>1 DEF Stepwise
    <3> QED
      BY <1>3, <1>6, <3>1, <3>2 DEF Stepwise
  <2>2. f = [i \in 0..n |-> f[i]]
    BY <1>6 DEF Stepwise
  <2> QED
    BY <2>1, <2>2, Zenon
<1>8. PICK level : Rule(level) /\ AtDepth(read, n) = level[n]
  BY <1>7, Zenon DEF AtDepth
<1> DEFINE Up(c) == Above(read, c)
           Right == {i \in Nat : i <= n =>
                       /\ level[i] \in S
                       /\ \A c \in N : c \in level[i] <=> Up(c)[i] \in N /\ Up(c)[i + 1] \notin N}
<1>9. \A c \in N : Up(c)[0] = c /\ Up(c)[1] = p[c]
  BY <1>1, AboveIs DEF N, p
<1>10. 0 \in Right
  <2>1. level[0] = TreeRoots(read)
    BY <1>1, <1>8
  <2> QED
    BY <1>4, <1>9, <2>1
<1>11. ASSUME NEW i \in Nat, i \in Right PROVE i + 1 \in Right
  <2> SUFFICES ASSUME i + 1 <= n
               PROVE  /\ level[i + 1] \in S
                      /\ \A c \in N : c \in level[i + 1] <=> Up(c)[i + 1] \in N /\ Up(c)[(i + 1) + 1] \notin N
    OBVIOUS
  <2>1. /\ level[i] \in S
        /\ \A c \in N : c \in level[i] <=> Up(c)[i] \in N /\ Up(c)[i + 1] \notin N
    BY <1>1, <1>11
  <2>2. level[i + 1] = UNION {Children(read, e) : e \in level[i]}
    <3>1. i + 1 \in 0..n /\ i + 1 # 0 /\ (i + 1) - 1 = i
      BY <1>1
    <3> QED
      BY <1>8, <3>1, Zenon
  <2>3. level[i + 1] = {c \in N : p[c] \in level[i]}
    BY <1>2, <2>1, <2>2
  <2>4. ASSUME NEW c \in N PROVE c \in level[i + 1] <=> Up(c)[i + 1] \in N /\ Up(c)[(i + 1) + 1] \notin N
    <3>1. i \in 0..MAX_DEPTH /\ i + 1 \in 0..MAX_DEPTH
      BY <1>1
    <3>2. Up(c)[i + 1] = Up(p[c])[i] /\ Up(c)[(i + 1) + 1] = Up(p[c])[i + 1]
      BY <3>1, AboveTheParent DEF N, p
    <3>3. CASE p[c] \in N
      BY <2>1, <2>3, <3>2, <3>3
    <3>4. CASE p[c] \notin N
      <4>1. Up(p[c])[i] = p[c]
        BY <1>1, <3>1, <3>4, NobodyAbove DEF N
      <4> QED
        BY <2>1, <2>3, <3>2, <3>4, <4>1
    <3> QED
      BY <3>3, <3>4
  <2> QED
    BY <2>3, <2>4
<1>12. n \in Right
  <2> HIDE DEF Right
  <2> QED
    BY <1>1, <1>10, <1>11, CountingUp
<1> QED
  BY <1>1, <1>8, <1>12 DEF N

(* Whoever belongs to a department that was read, or to none, is shown     *)
(* once: there is no department that is none.                              *)
LEMMA ShownOnce ==
  ASSUME NEW read, NEW w \in DOMAIN read.of, None \notin Nodes(read), read.of[w] \in Nodes(read) \cup {None}
  PROVE  TimesShown(read, w) = 1
<1>1. Reached(read) \subseteq Nodes(read)
  <2> SUFFICES ASSUME NEW n \in 0..MAX_DEPTH PROVE AtDepth(read, n) \subseteq Nodes(read)
    BY Zenon DEF Reached
  <2> QED
    BY DepthIsLevel
<1>2. Cardinality({read.of[w]}) = 1 /\ Cardinality({w}) = 1
  BY FS_Singleton
<1>3. Cardinality({}) = 0
  BY FS_EmptySet
<1> DEFINE at == read.of[w]
           inTree == {d \in Reached(read) : w \in MembersOf(read, d)}
           beside == {w} \cap UnassignedTo(read)
           left   == {w} \cap ExcludedMembers(read)
<1>4. /\ inTree = IF at \in Reached(read) THEN {at} ELSE {}
      /\ beside = IF at = None THEN {w} ELSE {}
      /\ left = IF at \in Excluded(read) THEN {w} ELSE {}
  BY DEF MembersOf, UnassignedTo, ExcludedMembers
<1>5. TimesShown(read, w) = Cardinality(inTree) + Cardinality(beside) + Cardinality(left)
  BY DEF TimesShown
<1> HIDE DEF inTree, beside, left
<1>6. CASE at = None
  <2>1. inTree = {} /\ beside = {w} /\ left = {}
    BY <1>1, <1>4, <1>6 DEF Excluded
  <2> QED
    BY <1>2, <1>3, <1>5, <2>1
<1>7. CASE at \in Reached(read)
  <2>1. inTree = {at} /\ beside = {} /\ left = {}
    BY <1>1, <1>4, <1>7 DEF Excluded
  <2> QED
    BY <1>2, <1>3, <1>5, <2>1
<1>8. CASE at \in Excluded(read)
  <2>1. inTree = {} /\ beside = {} /\ left = {w}
    BY <1>1, <1>4, <1>8 DEF Excluded
  <2> QED
    BY <1>2, <1>3, <1>5, <2>1
<1> QED
  BY <1>6, <1>7, <1>8 DEF Excluded

(* The departments that are drawn are those not too far under a top.       *)
LEMMA DrawnToDepth ==
  ASSUME NEW read, NEW d \in Nodes(read)
  PROVE  d \in Reached(read) <=> DepthOf(read, d) # {}
<1>1. d \in Reached(read) <=> \E n \in 0..MAX_DEPTH : d \in AtDepth(read, n)
  BY Zenon DEF Reached
<1>2. DepthOf(read, d) # {} <=>
        \E n \in 0..MAX_DEPTH : Above(read, d)[n] \in Nodes(read) /\ Above(read, d)[n + 1] \notin Nodes(read)
  BY Zenon DEF DepthOf
<1> QED
  BY <1>1, <1>2, DepthIsLevel

-----------------------------------------------------------------------------
(* What the steps of each screen import.                                   *)

(* Every transaction has a batch, or the row of one that imported nothing. *)
BatchesKept ==
  /\ DOMAIN batches = Stamps
  /\ \A b \in Stamps : DOMAIN batches[b] = {"kind", "items", "undone"}

(* A step after which no transaction more has imported departments.        *)
KindsStay ==
  /\ BatchesKept'
  /\ \A b \in Stamps :
       batches'[b].kind = "departments" => batches[b].kind = "departments" /\ batches'[b].items = batches[b].items

(* A step of t, which imports rows of these kinds or nothing.              *)
ImportsOnly(t, kinds) ==
  /\ BatchesKept'
  /\ \A b \in Stamps :
       \/ batches'[b].kind = batches[b].kind /\ batches'[b].items = batches[b].items
       \/ b = t /\ batches'[b].kind \in kinds

(* Such is one that leaves the batches alone,                              *)
LEMMA SameKinds ==
  ASSUME BatchesKept, UNCHANGED batches PROVE KindsStay /\ \A t, kinds : ImportsOnly(t, kinds)
BY DEF BatchesKept, ImportsOnly, KindsStay

(* an import,                                                              *)
LEMMA ImportedKinds ==
  ASSUME BatchesKept, NEW t, NEW kind, NEW items, Imported(t, kind, items)
  PROVE  /\ kind # "departments" => KindsStay
         /\ \A kinds : kind \in kinds => ImportsOnly(t, kinds)
BY DEF Imported, Batch, BatchesKept, ImportsOnly, KindsStay

(* and an undo.                                                            *)
LEMMA UndoneKinds ==
  ASSUME BatchesKept, NEW s, Undone(s) PROVE KindsStay /\ \A t, kinds : ImportsOnly(t, kinds)
BY DEF Undone, BatchesKept, ImportsOnly, KindsStay

(* A step that imports rows of other kinds imports no departments.         *)
LEMMA OtherKinds ==
  ASSUME NEW t, NEW kinds, ImportsOnly(t, kinds), "departments" \notin kinds PROVE KindsStay
BY DEF ImportsOnly, KindsStay

(* A step of the register imports assets or risks.                         *)
LEMMA RegisterImports ==
  ASSUME BatchesKept, NEW t, RegisterStep(t)
  PROVE  ImportsOnly(t, {"assets", "risks"}) /\ uses' = uses
<1> USE SameKinds, ImportedKinds, UndoneKinds DEF registerVars
<1>1. CASE BeginImportAssets(t)  BY <1>1 DEF BeginImportAssets, BeginImport
<1>2. CASE ExamineAssets(t)  BY <1>2 DEF ExamineAssets, Refused
<1>3. CASE InsertAssets(t)  BY <1>3 DEF InsertAssets, Refused
<1>4. CASE BeginImportRisks(t)  BY <1>4 DEF BeginImportRisks, BeginImport
<1>5. CASE ExamineRisks(t)  BY <1>5 DEF ExamineRisks, Refused
<1>6. CASE InsertRisks(t)  BY <1>6 DEF InsertRisks, Refused
<1>7. CASE CommitRisks(t)  BY <1>7 DEF CommitRisks
<1>8. CASE BeginUndoAssets(t)  BY <1>8 DEF BeginUndoAssets, BeginUndo
<1>9. CASE UndoAssets(t)  BY <1>9 DEF UndoAssets, Refused
<1>10. CASE BeginUndoRisks(t)  BY <1>10 DEF BeginUndoRisks, BeginUndo
<1>11. CASE UndoRisks(t)  BY <1>11 DEF UndoRisks, Refused
<1>12. CASE BeginSaveAsset(t)  BY <1>12 DEF BeginSaveAsset
<1>13. CASE SaveAsset(t)  BY <1>13 DEF SaveAsset
<1>14. CASE BeginSaveRisk(t)  BY <1>14 DEF BeginSaveRisk
<1>15. CASE SaveRisk(t)  BY <1>15 DEF SaveRisk
<1>16. CASE CommitRisk(t)  BY <1>16 DEF CommitRisk
<1>17. CASE BeginAddRiskSnapshot(t)  BY <1>17 DEF BeginAddRiskSnapshot
<1>18. CASE AddRiskSnapshot(t)  BY <1>18 DEF AddRiskSnapshot
<1>19. CASE InsertSnapshot(t)  BY <1>19 DEF InsertSnapshot
<1>20. CASE CommitSnapshot(t)  BY <1>20 DEF CommitSnapshot
<1> QED BY <1>1, <1>2, <1>3, <1>4, <1>5, <1>6, <1>7, <1>8, <1>9, <1>10, <1>11, <1>12, <1>13, <1>14,
      <1>15, <1>16, <1>17, <1>18, <1>19, <1>20 DEF RegisterStep

(* A step of an uploaded file imports nothing yet.                         *)
LEMMA FilesImports ==
  ASSUME BatchesKept, NEW t, CsvStep(t)
  PROVE  ImportsOnly(t, {})
<1> USE SameKinds, ImportedKinds, UndoneKinds DEF registerVars
<1>1. CASE BeginPreviewImport(t)  BY <1>1 DEF BeginPreviewImport
<1>2. CASE PreviewImport(t)  BY <1>2 DEF PreviewImport
<1>3. CASE ApplyImport(t)  BY <1>3 DEF ApplyImport
<1> QED BY <1>1, <1>2, <1>3 DEF CsvStep

(* A step of the policies imports policies.                                *)
LEMMA PoliciesImports ==
  ASSUME BatchesKept, NEW t, PolicyStep(t)
  PROVE  ImportsOnly(t, {"policies"})
<1> USE SameKinds, ImportedKinds, UndoneKinds DEF registerVars
<1>1. CASE BeginCreatePolicyDraft(t)  BY <1>1 DEF BeginCreatePolicyDraft
<1>2. CASE InsertDraft(t)  BY <1>2 DEF InsertDraft
<1>3. CASE ReferPolicy(t)  BY <1>3 DEF ReferPolicy
<1>4. CASE CommitDraft(t)  BY <1>4 DEF CommitDraft
<1>5. CASE BeginApprovePolicyVersion(t)  BY <1>5 DEF BeginApprovePolicyVersion, BeginApproval
<1>6. CASE ApprovePolicyVersion(t)  BY <1>6 DEF ApprovePolicyVersion
<1>7. CASE BeginActivatePolicyVersion(t)  BY <1>7 DEF BeginActivatePolicyVersion, BeginApproval
<1>8. CASE ActivatePolicyVersion(t)  BY <1>8 DEF ActivatePolicyVersion
<1>9. CASE SupersedeVersions(t)  BY <1>9 DEF SupersedeVersions
<1>10. CASE BeginImportPolicies(t)  BY <1>10 DEF BeginImportPolicies, BeginImport
<1>11. CASE ReadPolicies(t)  BY <1>11 DEF ReadPolicies
<1>12. CASE ExaminePolicies(t)  BY <1>12 DEF ExaminePolicies, Refused
<1>13. CASE InsertVersions(t)  BY <1>13 DEF InsertVersions
<1>14. CASE BeginUndoPolicies(t)  BY <1>14 DEF BeginUndoPolicies, BeginUndo
<1>15. CASE UndoPolicies(t)  BY <1>15 DEF UndoPolicies, Refused
<1> QED BY <1>1, <1>2, <1>3, <1>4, <1>5, <1>6, <1>7, <1>8, <1>9, <1>10, <1>11, <1>12, <1>13, <1>14,
      <1>15 DEF PolicyStep

(* A step of the changes imports nothing.                                  *)
LEMMA ChangeControlImports ==
  ASSUME BatchesKept, NEW t, ChangeStep(t)
  PROVE  ImportsOnly(t, {}) /\ UNCHANGED <<asset, risk, evaluations>>
<1> USE SameKinds, ImportedKinds, UndoneKinds DEF registerVars
<1>1. CASE BeginSaveVulnerability(t)  BY <1>1 DEF BeginSaveVulnerability
<1>2. CASE SaveVulnerability(t)  BY <1>2 DEF SaveVulnerability
<1>3. CASE InsertVulnerability(t)  BY <1>3 DEF InsertVulnerability
<1>4. CASE ProgressVulnerability(t)  BY <1>4 DEF ProgressVulnerability
<1>5. CASE BeginRequestChange(t)  BY <1>5 DEF BeginRequestChange
<1>6. CASE RequestChange(t)  BY <1>6 DEF RequestChange
<1>7. CASE CommitChange(t)  BY <1>7 DEF CommitChange
<1>8. CASE BeginUpdateChangeRequest(t)  BY <1>8 DEF BeginUpdateChangeRequest
<1>9. CASE UpdateChangeRequest(t)  BY <1>9 DEF UpdateChangeRequest
<1>10. CASE LinkChange(t)  BY <1>10 DEF LinkChange
<1>11. CASE WriteChange(t)  BY <1>11 DEF WriteChange
<1>12. CASE BeginDecideChangeRequest(t)  BY <1>12 DEF BeginDecideChangeRequest
<1>13. CASE DecideChangeRequest(t)  BY <1>13 DEF DecideChangeRequest
<1>14. CASE RecordDecision(t)  BY <1>14 DEF RecordDecision
<1>15. CASE ImplementChange(t)  BY <1>15 DEF ImplementChange
<1>16. CASE CancelChange(t)  BY <1>16 DEF CancelChange
<1> QED BY <1>1, <1>2, <1>3, <1>4, <1>5, <1>6, <1>7, <1>8, <1>9, <1>10, <1>11, <1>12, <1>13, <1>14,
      <1>15, <1>16 DEF ChangeStep

(* A step of the used systems imports nothing and leaves the departments   *)
(* and the register alone.                                                 *)
LEMMA ApplicationsImports ==
  ASSUME BatchesKept, NEW t, SystemsStep(t)
  PROVE  ImportsOnly(t, {}) /\ UNCHANGED <<dept, member, asset, risk, evaluations, uses>>
<1> USE SameKinds, ImportedKinds, UndoneKinds DEF organisationVars, registerVars
<1>1. CASE BeginSaveSystem(t)  BY <1>1 DEF BeginSaveSystem
<1>2. CASE ReadSystemKeys(t)  BY <1>2 DEF ReadSystemKeys
<1>3. CASE CreateSystem(t)  BY <1>3 DEF CreateSystem
<1>4. CASE BeginUpdateSystem(t)  BY <1>4 DEF BeginUpdateSystem
<1>5. CASE CountLocated(t)  BY <1>5 DEF CountLocated, LooksForAssets
<1>6. CASE LookAgain(t)  BY <1>6 DEF LookAgain, LooksForAssets
<1>7. CASE WriteSystem(t)  BY <1>7 DEF WriteSystem
<1>8. CASE BeginSaveDepartmentSystem(t)  BY <1>8 DEF BeginSaveDepartmentSystem
<1>9. CASE SaveDepartmentSystem(t)  BY <1>9 DEF SaveDepartmentSystem
<1>10. CASE ReferDepartment(t)  BY <1>10 DEF ReferDepartment
<1>11. CASE CommitUsage(t)  BY <1>11 DEF CommitUsage
<1>12. CASE BeginRemoveDepartmentSystem(t)  BY <1>12 DEF BeginRemoveDepartmentSystem
<1>13. CASE RemoveDepartmentSystem(t)  BY <1>13 DEF RemoveDepartmentSystem
<1> QED BY <1>1, <1>2, <1>3, <1>4, <1>5, <1>6, <1>7, <1>8, <1>9, <1>10, <1>11, <1>12, <1>13 DEF
      SystemsStep

(* A step of the assignments imports nothing.                              *)
LEMMA WorkImports ==
  ASSUME BatchesKept, NEW t, WorkStep(t)
  PROVE  ImportsOnly(t, {}) /\ UNCHANGED <<organisationVars, registerVars>>
<1> USE SameKinds, ImportedKinds, UndoneKinds DEF organisationVars, registerVars
<1>1. CASE BeginSaveAssignment(t)  BY <1>1 DEF BeginSaveAssignment
<1>2. CASE SaveAssignment(t)  BY <1>2 DEF SaveAssignment, Quiet
<1>3. CASE CommitAssignment(t)  BY <1>3 DEF CommitAssignment, Quiet
<1>4. CASE BeginAddAssignees(t)  BY <1>4 DEF BeginAddAssignees
<1>5. CASE AddAssignees(t)  BY <1>5 DEF AddAssignees, Quiet
<1>6. CASE CommitAssignees(t)  BY <1>6 DEF CommitAssignees, Quiet
<1>7. CASE BeginRemoveAssignee(t)  BY <1>7 DEF BeginRemoveAssignee
<1>8. CASE RemoveAssignee(t)  BY <1>8 DEF RemoveAssignee, Quiet
<1>9. CASE BeginCancelAssignment(t)  BY <1>9 DEF BeginCancelAssignment
<1>10. CASE CancelAssignment(t)  BY <1>10 DEF CancelAssignment, Quiet
<1>11. CASE CancelRows(t)  BY <1>11 DEF CancelRows, Quiet
<1>12. CASE BeginUpdateAssignment(t)  BY <1>12 DEF BeginUpdateAssignment
<1>13. CASE UpdateAssignment(t)  BY <1>13 DEF UpdateAssignment, Quiet
<1>14. CASE ReportRow(t)  BY <1>14 DEF ReportRow, Quiet
<1>15. CASE ReportItem(t)  BY <1>15 DEF ReportItem, Quiet
<1> QED BY <1>1, <1>2, <1>3, <1>4, <1>5, <1>6, <1>7, <1>8, <1>9, <1>10, <1>11, <1>12, <1>13, <1>14,
      <1>15 DEF WorkStep

(* A step of the incidents imports nothing.                                *)
LEMMA IncidentImports ==
  ASSUME BatchesKept, NEW t, IncidentStep(t)
  PROVE  ImportsOnly(t, {}) /\ UNCHANGED <<organisationVars, asset, risk, evaluations>>
<1> USE SameKinds, ImportedKinds, UndoneKinds DEF organisationVars, registerVars
<1>1. CASE BeginRegisterIncident(t)  BY <1>1 DEF BeginRegisterIncident
<1>2. CASE BeginEditIncident(t)  BY <1>2 DEF BeginEditIncident
<1>3. CASE ReadIncident(t)  BY <1>3 DEF ReadIncident
<1>4. CASE CheckOwner(t)  BY <1>4 DEF CheckOwner
<1>5. CASE WriteIncident(t)  BY <1>5 DEF WriteIncident
<1>6. CASE ReferIncident(t)  BY <1>6 DEF ReferIncident
<1>7. CASE CommitIncident(t)  BY <1>7 DEF CommitIncident
<1> QED BY <1>1, <1>2, <1>3, <1>4, <1>5, <1>6, <1>7 DEF IncidentStep

(* A step of the decisions imports nothing.                                *)
LEMMA DecisionImports ==
  ASSUME BatchesKept, NEW t, DecisionStep(t)
  PROVE  ImportsOnly(t, {}) /\ UNCHANGED <<organisationVars, asset, risk, evaluations, policy>>
<1> USE SameKinds, ImportedKinds, UndoneKinds DEF organisationVars, registerVars
<1>1. CASE BeginAcceptRisk(t)  BY <1>1 DEF BeginAcceptRisk
<1>2. CASE AcceptRisk(t)  BY <1>2 DEF AcceptRisk
<1>3. CASE AcceptOperation(t)  BY <1>3 DEF AcceptOperation
<1>4. CASE ApproveAcceptance(t)  BY <1>4 DEF ApproveAcceptance
<1>5. CASE AcceptSnapshot(t)  BY <1>5 DEF AcceptSnapshot
<1>6. CASE RecordAcceptance(t)  BY <1>6 DEF RecordAcceptance
<1>7. CASE BeginRequestDeviation(t)  BY <1>7 DEF BeginRequestDeviation
<1>8. CASE RequestDeviation(t)  BY <1>8 DEF RequestDeviation
<1>9. CASE InsertDeviation(t)  BY <1>9 DEF InsertDeviation
<1>10. CASE LinkDeviation(t)  BY <1>10 DEF LinkDeviation
<1>11. CASE CommitDeviation(t)  BY <1>11 DEF CommitDeviation
<1>12. CASE BeginDecideDeviation(t)  BY <1>12 DEF BeginDecideDeviation
<1>13. CASE DecideDeviation(t)  BY <1>13 DEF DecideDeviation
<1> QED BY <1>1, <1>2, <1>3, <1>4, <1>5, <1>6, <1>7, <1>8, <1>9, <1>10, <1>11, <1>12, <1>13 DEF
      DecisionStep

(* A step of the departments imports departments, which then it commits,   *)
(* or assignments.                                                         *)
LEMMA OrganisationImports ==
  ASSUME BatchesKept, NEW t, OrganisationStep(t)
  PROVE  /\ ImportsOnly(t, {"departments", "assignments"})
         /\ CommitDepartments(t) \/ ImportsOnly(t, {"assignments"})
         /\ CommitDepartments(t) \/ CommitAssignments(t) \/ ImportsOnly(t, {})
<1> USE SameKinds, ImportedKinds, UndoneKinds
<1>1. CASE BeginImportDepartments(t)  BY <1>1 DEF BeginImportDepartments, BeginImport
<1>2. CASE ReadDepartments(t)  BY <1>2 DEF ReadDepartments
<1>3. CASE ExamineDepartments(t)  BY <1>3 DEF ExamineDepartments, Refused
<1>4. CASE InsertDepartments(t)  BY <1>4 DEF InsertDepartments, Refused
<1>5. CASE CommitDepartments(t)  BY <1>5 DEF CommitDepartments
<1>6. CASE BeginUndoDepartments(t)  BY <1>6 DEF BeginUndoDepartments, BeginUndo
<1>7. CASE UndoDepartments(t)  BY <1>7 DEF UndoDepartments, Refused
<1>8. CASE BeginImportAssignments(t)  BY <1>8 DEF BeginImportAssignments, BeginImport
<1>9. CASE ReadAssignments(t)  BY <1>9 DEF ReadAssignments
<1>10. CASE ExamineAssignments(t)  BY <1>10 DEF ExamineAssignments, AssignFrom, Refused
<1>11. CASE AssignMember(t)  BY <1>11 DEF AssignMember, AssignFrom, Refused
<1>12. CASE CommitAssignments(t)  BY <1>12 DEF CommitAssignments, Refused
<1>13. CASE BeginUndoAssignments(t)  BY <1>13 DEF BeginUndoAssignments, BeginUndo
<1>14. CASE UndoAssignments(t)  BY <1>14 DEF UndoAssignments
<1>15. CASE RestoreAssignments(t)  BY <1>15 DEF RestoreAssignments, Refused
<1>16. CASE BeginSaveDepartment(t)  BY <1>16 DEF BeginSaveDepartment
<1>17. CASE SaveDepartment(t)  BY <1>17 DEF SaveDepartment
<1>18. CASE CommitDepartment(t)  BY <1>18 DEF CommitDepartment
<1>19. CASE BeginUpdateDepartment(t)  BY <1>19 DEF BeginUpdateDepartment
<1>20. CASE UpdateDepartment(t)  BY <1>20 DEF UpdateDepartment
<1>21. CASE WriteDepartment(t)  BY <1>21 DEF WriteDepartment
<1>22. CASE BeginSaveMembership(t)  BY <1>22 DEF BeginSaveMembership
<1>23. CASE SaveMembership(t)  BY <1>23 DEF SaveMembership
<1>24. CASE CommitMembership(t)  BY <1>24 DEF CommitMembership
<1>25. CASE BeginSaveMemberRole(t)  BY <1>25 DEF BeginSaveMemberRole
<1>26. CASE SaveMemberRole(t)  BY <1>26 DEF SaveMemberRole
<1> QED BY <1>1, <1>2, <1>3, <1>4, <1>5, <1>6, <1>7, <1>8, <1>9, <1>10, <1>11, <1>12, <1>13, <1>14,
      <1>15, <1>16, <1>17, <1>18, <1>19, <1>20, <1>21, <1>22, <1>23, <1>24, <1>25, <1>26
      DEF OrganisationStep

(* A step of the journals leaves the departments alone.                    *)
LEMMA JournalKeepsOrganisation ==
  ASSUME NEW t, JournalStep(t) PROVE UNCHANGED organisationVars
<1> USE DEF organisationVars
<1>1. CASE SaveAudit(t)  BY <1>1 DEF SaveAudit, Add
<1>2. CASE AddReviewOutput(t)  BY <1>2 DEF AddReviewOutput, Add
<1>3. CASE SaveEffectiveness(t)  BY <1>3 DEF SaveEffectiveness, Add
<1>4. CASE SaveVendorAssessment(t)  BY <1>4 DEF SaveVendorAssessment, Add
<1>5. CASE SaveEvidence(t)  BY <1>5 DEF SaveEvidence, Add
<1> QED BY <1>1, <1>2, <1>3, <1>4, <1>5 DEF JournalStep

(* A step is one of the departments or of their chart, or it leaves the    *)
(* departments alone and imports none.                                     *)
LEMMA OrganisationSteps ==
  ASSUME Shaped, BatchesKept, [Next]_vars
  PROVE  \/ \E t \in Requests : OrganisationStep(t) /\ Passes(t, OrganisationPhases)
         \/ \E t \in Requests : ChartStep(t) /\ Passes(t, ChartPhases)
         \/ KindsStay /\ dept' = dept /\ Elsewhere(OrganisationPhases \cup ChartPhases)
<1> DEFINE Apart == Elsewhere(OrganisationPhases \cup ChartPhases)
<1>1. ASSUME NEW t \in Requests, Shared(t) \/ Files(t) \/ Register(t) \/ Applications(t) \/ Policies(t) \/ Work(t)
                                 \/ ChangeControl(t) \/ Incident(t) \/ Decision(t)
      PROVE  KindsStay /\ dept' = dept
  BY <1>1, SameKinds, OtherKinds, FilesImports, RegisterImports, ApplicationsImports, PoliciesImports, WorkImports,
     ChangeControlImports, IncidentImports, DecisionImports
     DEF Shared, Files, Register, Applications, Policies, Work, ChangeControl, Incident, Decision, organisationVars
<1>2. ASSUME NEW t \in Requests, Audit(t) \/ Journal(t) \/ Standing(t) \/ Competence(t) \/ Devices(t) \/ Steps(t)
                                 \/ Control(t) \/ Passwords(t)
      PROVE  KindsStay /\ dept' = dept
  BY <1>2, SameKinds, OtherKinds, JournalKeepsOrganisation
     DEF Audit, Journal, Standing, Competence, Devices, Steps, Control, Passwords, organisationVars
<1>3. ASSUME NEW t \in Requests, Files(t) \/ Register(t) \/ Applications(t) \/ Policies(t) \/ Work(t)
                                 \/ ChangeControl(t) \/ Incident(t) \/ Decision(t)
      PROVE  Apart
  BY <1>3, PassesElsewhere, FilesPasses, RegisterPasses, ApplicationsPasses, PoliciesPasses, WorkPasses,
     ChangeControlPasses, IncidentPasses, DecisionPasses
     DEF OrganisationPhases, ChartPhases, Files, FilesPhases, Register, RegisterPhases, Applications,
         ApplicationsPhases, Policies, PoliciesPhases, Work, WorkPhases, ChangeControl, ChangeControlPhases,
         Incident, IncidentPhases, Decision, DecisionPhases
<1>4. ASSUME NEW t \in Requests, Audit(t) \/ Journal(t) \/ Standing(t) \/ Competence(t) \/ Devices(t) \/ Steps(t)
                                 \/ Control(t) \/ Passwords(t)
      PROVE  Apart
  BY <1>4, PassesElsewhere, AuditPasses, JournalPasses, StandingPasses, CompetencePasses, DevicesPasses,
     StepsPasses, ControlPasses, PasswordsPasses
     DEF OrganisationPhases, ChartPhases, Audit, AuditPhases, Journal, JournalPhases, Standing, StandingPhases,
         Competence, CompetencePhases, Devices, DevicesPhases, Steps, StepsPhases, Control, ControlPhases,
         Passwords, PasswordsPhases
<1>5. ASSUME NEW t \in Requests, Shared(t)
      PROVE  Apart
  BY <1>5, SharedElsewhere DEF OrganisationPhases, ChartPhases
<1>6. ASSUME NEW t \in Requests, Organisation(t)
      PROVE  \/ OrganisationStep(t) /\ Passes(t, OrganisationPhases)
             \/ ChartStep(t) /\ Passes(t, ChartPhases)
  BY <1>6, OrganisationPasses, ChartPasses DEF Organisation
<1>7. ASSUME TimePasses \/ Outside \/ Machinery \/ Terminated \/ UNCHANGED vars
      PROVE  KindsStay /\ dept' = dept /\ Apart
  BY <1>7, SameKinds, RestElsewhere
     DEF TimePasses, ExpireException, ReviewDayComes, EntryFallsDue, DayPasses, DeviationLapses, Outside,
         PortalChanges, SeedLoads, Machinery, Orchestrator, Terminated, vars, organisationVars
<1> QED
  BY <1>1, <1>2, <1>3, <1>4, <1>5, <1>6, <1>7 DEF Next

-----------------------------------------------------------------------------
(* The undo of an import: what the rows it retires are locked by.          *)

(* A set put in an order is all in it.                                     *)
LEMMA OrderIsAll ==
  ASSUME NEW S, IsFiniteSet(S), NEW order \in SetToSeqs(S)
  PROVE  order \in Seq(S) /\ S = {order[i] : i \in DOMAIN order}
<1>1. PICK n \in Nat : n = Cardinality(S)
  BY FS_CardinalityType
<1>2. order \in [1..n -> S] /\ \A i, j \in 1..n : i # j => order[i] # order[j]
  BY <1>1 DEF SetToSeqs
<1>3. order \in Injection(1..n, S)
  BY <1>2 DEF Injection, IsInjective
<1>4. IsFiniteSet(1..n) /\ Cardinality(1..n) = n
  BY FS_Interval
<1>5. order \in Surjection(1..n, S)
  BY <1>1, <1>3, <1>4, FS_Injection
<1> QED
  BY <1>2, <1>5 DEF Surjection

(* What a short sequence has is finite.                                    *)
LEMMA ShortIsFinite ==
  ASSUME NEW S, NEW n \in Nat, NEW s \in BoundedSeq(S, n)
  PROVE  s \in Seq(S) /\ IsFiniteSet(ToSet(s))
<1>1. PICK m \in 0..n : s \in [1..m -> S]
  BY DEF BoundedSeq, SeqOf
<1>2. s \in Surjection(1..m, ToSet(s)) /\ IsFiniteSet(1..m)
  <2>1. IsFiniteSet(1..m)
    BY FS_Interval
  <2>2. DOMAIN s = 1..m /\ s = [i \in 1..m |-> s[i]]
    BY <1>1
  <2>3. s \in [1..m -> ToSet(s)]
    BY <2>2 DEF ToSet
  <2> QED
    BY <2>1, <2>2, <2>3 DEF Surjection, ToSet
<1> QED
  BY <1>1, <1>2, FS_Surjection

RegisterKinds == {"assets", "risks"}

(* A step that leaves the imports of assets and of risks as they are:      *)
(* another import is of a request that is not done.                        *)
RegistersStay ==
  /\ BatchesKept'
  /\ \A b \in Stamps :
       \/ batches'[b].kind = batches[b].kind /\ batches'[b].items = batches[b].items
       \/ b \in Requests /\ pc[b] # "done" /\ batches'[b].kind \notin RegisterKinds

(* Such is one that leaves the batches alone, or imports something else.   *)
LEMMA OthersStay ==
  ASSUME BatchesKept, NEW t \in Requests
  PROVE  /\ UNCHANGED batches => RegistersStay
         /\ \A kinds : ImportsOnly(t, kinds) /\ kinds \cap RegisterKinds = {} /\ pc[t] # "done" => RegistersStay
BY DEF BatchesKept, ImportsOnly, RegistersStay

(* A step is one of the register, or it leaves the rows and the imports of *)
(* the register alone.                                                     *)
LEMMA RegisterSteps ==
  ASSUME Shaped, BatchesKept, [Next]_vars
  PROVE  \/ \E t \in Requests : RegisterStep(t) /\ Passes(t, RegisterPhases)
         \/ RegistersStay /\ UNCHANGED <<asset, risk>> /\ Elsewhere(RegisterPhases)
<1> DEFINE Apart == Elsewhere(RegisterPhases)
           Same == UNCHANGED <<asset, risk>>
<1>1. ASSUME NEW t \in Requests, Files(t) \/ Applications(t) \/ Policies(t) \/ Work(t) \/ ChangeControl(t)
                                 \/ Incident(t) \/ Decision(t)
      PROVE  RegistersStay /\ Same
  <2>1. pc[t] # "done"
    BY <1>1, FilesPasses, ApplicationsPasses, PoliciesPasses, WorkPasses, ChangeControlPasses, IncidentPasses,
       DecisionPasses
       DEF Passes, Files, FilesPhases, Applications, ApplicationsPhases, Policies, PoliciesPhases, Work, WorkPhases,
           ChangeControl, ChangeControlPhases, Incident, IncidentPhases, Decision, DecisionPhases
  <2>2. /\ ImportsOnly(t, {}) \/ ImportsOnly(t, {"policies"})
        /\ Same
    BY <1>1, FilesImports, ApplicationsImports, PoliciesImports, WorkImports, ChangeControlImports, IncidentImports,
       DecisionImports
       DEF Files, Applications, Policies, Work, ChangeControl, Incident, Decision, registerVars
  <2>3. {} \cap RegisterKinds = {} /\ {"policies"} \cap RegisterKinds = {}
    BY DEF RegisterKinds
  <2> QED
    BY <2>1, <2>2, <2>3, OthersStay
<1>2. ASSUME NEW t \in Requests, Organisation(t)
      PROVE  RegistersStay /\ Same /\ Apart
  <2>1. Same
    BY <1>2 DEF Organisation, registerVars
  <2>2. CASE OrganisationStep(t)
    <3>1. Passes(t, OrganisationPhases) /\ ImportsOnly(t, {"departments", "assignments"})
      BY <2>2, OrganisationPasses, OrganisationImports
    <3>2. pc[t] # "done" /\ {"departments", "assignments"} \cap RegisterKinds = {}
      BY <3>1 DEF Passes, OrganisationPhases, RegisterKinds
    <3> QED
      BY <2>1, <3>1, <3>2, OthersStay, PassesElsewhere DEF OrganisationPhases, RegisterPhases
  <2>3. CASE ChartStep(t)
    <3>1. Passes(t, ChartPhases)
      BY <2>3, ChartPasses
    <3>2. UNCHANGED batches
      BY <2>3 DEF ChartStep, BeginOrgChart, ReadNodes, ReadMemberships, ShowOrgChart
    <3> QED
      BY <2>1, <3>1, <3>2, OthersStay, PassesElsewhere DEF ChartPhases, RegisterPhases
  <2> QED
    BY <1>2, <2>2, <2>3 DEF Organisation
<1>3. ASSUME NEW t \in Requests, Shared(t) \/ Audit(t) \/ Journal(t) \/ Standing(t) \/ Competence(t) \/ Devices(t)
                                 \/ Steps(t) \/ Control(t) \/ Passwords(t)
      PROVE  RegistersStay /\ Same
  BY <1>3, OthersStay
     DEF Shared, Audit, Journal, Standing, Competence, Devices, Steps, Control, Passwords, registerVars
<1>4. ASSUME NEW t \in Requests, Files(t) \/ Applications(t) \/ Policies(t) \/ Work(t) \/ ChangeControl(t)
                                 \/ Incident(t) \/ Decision(t)
      PROVE  Apart
  BY <1>4, PassesElsewhere, FilesPasses, ApplicationsPasses, PoliciesPasses, WorkPasses,
     ChangeControlPasses, IncidentPasses, DecisionPasses
     DEF RegisterPhases, Files, FilesPhases, Applications,
         ApplicationsPhases, Policies, PoliciesPhases, Work, WorkPhases, ChangeControl, ChangeControlPhases,
         Incident, IncidentPhases, Decision, DecisionPhases
<1>5. ASSUME NEW t \in Requests, Audit(t) \/ Journal(t) \/ Standing(t) \/ Competence(t) \/ Devices(t) \/ Steps(t)
                                 \/ Control(t) \/ Passwords(t)
      PROVE  Apart
  BY <1>5, PassesElsewhere, AuditPasses, JournalPasses, StandingPasses, CompetencePasses, DevicesPasses,
     StepsPasses, ControlPasses, PasswordsPasses
     DEF RegisterPhases, Audit, AuditPhases, Journal, JournalPhases, Standing, StandingPhases,
         Competence, CompetencePhases, Devices, DevicesPhases, Steps, StepsPhases, Control, ControlPhases,
         Passwords, PasswordsPhases
<1>6. ASSUME NEW t \in Requests, Shared(t)
      PROVE  Apart
  BY <1>6, SharedElsewhere DEF RegisterPhases
<1>7. ASSUME NEW t \in Requests, Register(t)
      PROVE  RegisterStep(t) /\ Passes(t, RegisterPhases)
  BY <1>7, RegisterPasses DEF Register
<1>8. ASSUME TimePasses \/ Outside \/ Machinery \/ Terminated \/ UNCHANGED vars
      PROVE  RegistersStay /\ Same /\ Apart
  <2>1. UNCHANGED batches => RegistersStay
    BY DEF BatchesKept, RegistersStay
  <2> QED
    BY <1>8, <2>1, RestElsewhere
       DEF TimePasses, ExpireException, ReviewDayComes, EntryFallsDue, DayPasses, DeviationLapses, Outside,
           PortalChanges, SeedLoads, Machinery, Orchestrator, Terminated, vars, registerVars
<1> QED
  BY <1>1, <1>2, <1>3, <1>4, <1>5, <1>6, <1>7, <1>8 DEF Next

(* The locks of rows, as they are taken one by one.                        *)
LocksOfAll(table, S) == {Lock(Update, <<table, k>>) : k \in S}
LockByLock(table, order) == [i \in DOMAIN order |-> Lock(Update, <<table, order[i]>>)]

(* The undo of a batch holds the locks of all it made, except those that   *)
(* it still waits for.                                                     *)
Undoing(t, phase, kind, table) ==
  pc[t] = phase =>
    LET b     == req[t].arg
        locks == LocksOfAll(table, batches[b].items)
    IN  /\ b \in Stamps /\ batches[b].kind = kind
        /\ want[t] \in Seq(locks) /\ held[t] \cup ToSet(want[t]) = locks

(* Who is not done has imported nothing; an import of assets has a file of *)
(* assets.                                                                 *)
RegisterUnderWay(t) ==
  /\ pc[t] # "done" => batches[t].kind \notin RegisterKinds
  /\ pc[t] \in {"importAssets", "insertAssets"} => File(t) \in Seq(Assets) /\ IsFiniteSet(ToSet(File(t)))
  /\ Undoing(t, "undoAssets", "assets", "assets")
  /\ Undoing(t, "undoRisks", "risks", "risk_scenarios")

RegisterInv ==
  /\ Shaped /\ LocksInv /\ BatchesKept
  /\ DOMAIN asset = Assets /\ DOMAIN risk = Risks
  /\ \A b \in Stamps : batches[b].kind \in RegisterKinds => IsFiniteSet(batches[b].items)
  /\ \A t \in Requests : RegisterUnderWay(t)

(* A step of the register that imports or undoes is the last of a request. *)
LEMMA RegisterEnds ==
  ASSUME NEW t \in Requests, RegisterStep(t)
  PROVE  \/ UNCHANGED batches
         \/ Undone(t)
         \/ pc[t] = "insertAssets" /\ Imported(t, "assets", ToSet(File(t)))
         \/ Imported(t, "risks", {File(t)[1][1]})
<1>1. CASE BeginImportAssets(t)  BY <1>1 DEF BeginImportAssets, BeginImport
<1>2. CASE ExamineAssets(t)  BY <1>2 DEF ExamineAssets, Refused
<1>3. CASE InsertAssets(t)  BY <1>3 DEF InsertAssets, Refused, At
<1>4. CASE BeginImportRisks(t)  BY <1>4 DEF BeginImportRisks, BeginImport
<1>5. CASE ExamineRisks(t)  BY <1>5 DEF ExamineRisks, Refused
<1>6. CASE InsertRisks(t)  BY <1>6 DEF InsertRisks, Refused
<1>7. CASE CommitRisks(t)  BY <1>7 DEF CommitRisks
<1>8. CASE BeginUndoAssets(t)  BY <1>8 DEF BeginUndoAssets, BeginUndo
<1>9. CASE UndoAssets(t)  BY <1>9 DEF UndoAssets, Refused
<1>10. CASE BeginUndoRisks(t)  BY <1>10 DEF BeginUndoRisks, BeginUndo
<1>11. CASE UndoRisks(t)  BY <1>11 DEF UndoRisks, Refused
<1>12. CASE BeginSaveAsset(t)  BY <1>12 DEF BeginSaveAsset
<1>13. CASE SaveAsset(t)  BY <1>13 DEF SaveAsset
<1>14. CASE BeginSaveRisk(t)  BY <1>14 DEF BeginSaveRisk
<1>15. CASE SaveRisk(t)  BY <1>15 DEF SaveRisk
<1>16. CASE CommitRisk(t)  BY <1>16 DEF CommitRisk
<1>17. CASE BeginAddRiskSnapshot(t)  BY <1>17 DEF BeginAddRiskSnapshot
<1>18. CASE AddRiskSnapshot(t)  BY <1>18 DEF AddRiskSnapshot
<1>19. CASE InsertSnapshot(t)  BY <1>19 DEF InsertSnapshot
<1>20. CASE CommitSnapshot(t)  BY <1>20 DEF CommitSnapshot
<1> QED BY <1>1, <1>2, <1>3, <1>4, <1>5, <1>6, <1>7, <1>8, <1>9, <1>10, <1>11, <1>12, <1>13, <1>14,
      <1>15, <1>16, <1>17, <1>18, <1>19, <1>20
      DEF RegisterStep

(* What assets and risks were imported is remembered.                      *)
BatchesStand ==
  /\ BatchesKept'
  /\ \A b \in Stamps :
       batches[b].kind \in RegisterKinds => batches'[b].kind = batches[b].kind /\ batches'[b].items = batches[b].items

(* So an undo that stays where it is, or gets a lock, holds what it held.  *)
LEMMA UndoingStays ==
  ASSUME NEW s \in Requests, NEW phase, NEW kind \in RegisterKinds, NEW table,
         Undoing(s, phase, kind, table), BatchesStand,
         pc'[s] = phase => pc[s] = phase /\ req'[s] = req[s] /\ Waits(s)
  PROVE  Undoing(s, phase, kind, table)'
<1> SUFFICES ASSUME pc'[s] = phase PROVE Undoing(s, phase, kind, table)'
  BY DEF Undoing
<1>0. PICK b : b = req[s].arg
  OBVIOUS
<1>1. PICK locks : locks = LocksOfAll(table, batches[b].items)
  OBVIOUS
<1>2. b \in Stamps /\ batches[b].kind = kind /\ want[s] \in Seq(locks) /\ held[s] \cup ToSet(want[s]) = locks
  BY <1>0, <1>1 DEF Undoing
<1>3. batches'[b].kind = kind /\ batches'[b].items = batches[b].items /\ req'[s].arg = b
  BY <1>0, <1>2 DEF BatchesStand
<1>4. want'[s] \in Seq(locks) /\ held'[s] \cup ToSet(want'[s]) = locks
  <2>1. CASE held'[s] = held[s] /\ want'[s] = want[s]
    BY <1>2, <2>1
  <2>2. CASE Len(want[s]) > 1 /\ held'[s] = held[s] \cup {Head(want[s])} /\ want'[s] = Tail(want[s])
    <3>1. PICK w \in Seq(locks) : w = want[s]
      BY <1>2
    <3>2. w # <<>> /\ Tail(w) \in Seq(locks) /\ DOMAIN w = 1..Len(w) /\ DOMAIN Tail(w) = 1..(Len(w) - 1)
      BY <2>2, <3>1
    <3>3. \A i \in 1..(Len(w) - 1) : Tail(w)[i] = w[i + 1]
      BY <2>2, <3>1
    <3>4. ToSet(w) = {Head(w)} \cup ToSet(Tail(w))
      <4>1. ToSet(w) \subseteq {Head(w)} \cup ToSet(Tail(w))
        <5>1. ASSUME NEW i \in 1..Len(w), i # 1 PROVE i - 1 \in 1..(Len(w) - 1) /\ w[i] = Tail(w)[i - 1]
          BY <3>3, <5>1
        <5>2. Head(w) = w[1]
          BY <3>2
        <5> QED
          BY <3>2, <5>1, <5>2 DEF ToSet
      <4>2. {Head(w)} \cup ToSet(Tail(w)) \subseteq ToSet(w)
        <5>1. \A i \in 1..(Len(w) - 1) : i + 1 \in 1..Len(w)
          OBVIOUS
        <5>2. 1 \in 1..Len(w) /\ Head(w) = w[1]
          BY <2>2, <3>1
        <5> QED
          BY <3>2, <3>3, <5>1, <5>2 DEF ToSet
      <4> QED
        BY <4>1, <4>2
    <3> QED
      BY <1>2, <2>2, <3>1, <3>2, <3>4
  <2> QED
    BY <2>1, <2>2, <1>0 DEF Waits
<1> QED
  BY <1>1, <1>3, <1>4 DEF Undoing

(* A sequence is one of what is in it.                                     *)
LEMMA IsSeq ==
  ASSUME NEW S, NEW n \in Nat, NEW s \in [1..n -> S] PROVE s \in Seq(S)
OBVIOUS

(* What an undo waits for when it begins are the locks of all it undoes.   *)
LEMMA UndoWaits ==
  ASSUME NEW S, IsFiniteSet(S), NEW order \in SetToSeqs(S), NEW table
  PROVE  /\ LockByLock(table, order) \in Seq(LocksOfAll(table, S))
         /\ ToSet(LockByLock(table, order)) = LocksOfAll(table, S)
<1>a. PICK locks : locks = LocksOfAll(table, S)
  OBVIOUS
<1>b. PICK waits : waits = LockByLock(table, order)
  OBVIOUS
<1> USE <1>a, <1>b DEF LocksOfAll, LockByLock
<1>1. order \in Seq(S) /\ S = {order[i] : i \in DOMAIN order}
  BY OrderIsAll
<1>2. PICK n \in Nat : DOMAIN order = 1..n
  BY <1>1
<1>3. \A i \in 1..n : waits[i] \in locks
  BY <1>1, <1>2
<1>4. waits \in [1..n -> locks]
  BY <1>2, <1>3
<1>5. waits \in Seq(locks)
  BY <1>4, IsSeq
<1>6. locks \subseteq ToSet(waits)
  BY <1>1 DEF ToSet
<1>7. ToSet(waits) \subseteq locks
  BY <1>2, <1>3 DEF ToSet
<1> QED
  BY <1>5, <1>6, <1>7

(* A step of the register leaves a row to every key.  Unless it begins an  *)
(* undo, or an import of assets or its insertion, it goes where nothing is *)
(* to be remembered.                                                       *)
LEMMA RegisterGoes ==
  ASSUME Shaped, DOMAIN asset = Assets, DOMAIN risk = Risks, NEW t \in Requests, RegisterStep(t)
  PROVE  /\ DOMAIN asset' = Assets /\ DOMAIN risk' = Risks
         /\ \/ BeginImportAssets(t) \/ ExamineAssets(t) \/ BeginUndoAssets(t) \/ BeginUndoRisks(t)
            \/ pc'[t] \notin {"importAssets", "insertAssets", "undoAssets", "undoRisks"}
<1> USE BeginMoves, GotoMoves, DoneMoves DEF registerVars
<1>1. CASE BeginImportAssets(t)  BY <1>1 DEF BeginImportAssets
<1>2. CASE ExamineAssets(t)  BY <1>2 DEF ExamineAssets
<1>3. CASE InsertAssets(t)  BY <1>3 DEF InsertAssets, Refused, Imported
<1>4. CASE BeginImportRisks(t)  BY <1>4 DEF BeginImportRisks, BeginImport
<1>5. CASE ExamineRisks(t)
  <2>1. CASE Refused(t)
    BY <1>5, <2>1 DEF ExamineRisks, Refused
  <2>2. CASE ~Refused(t)
    <3>1. PICK locks : Goto(t, "insertRisks", locks, None)
      BY <1>5, <2>2, Zenon DEF ExamineRisks
    <3>2. plan' = plan /\ UNCHANGED registerVars
      BY <1>5, <2>2 DEF ExamineRisks
    <3> QED
      BY <3>1, <3>2
  <2> QED
    BY <2>1, <2>2
<1>6. CASE InsertRisks(t)  BY <1>6 DEF InsertRisks, Refused
<1>7. CASE CommitRisks(t)  BY <1>7 DEF CommitRisks, Imported
<1>8. CASE BeginUndoAssets(t)  BY <1>8 DEF BeginUndoAssets
<1>9. CASE UndoAssets(t)  BY <1>9 DEF UndoAssets, Refused, Undone
<1>10. CASE BeginUndoRisks(t)  BY <1>10 DEF BeginUndoRisks
<1>11. CASE UndoRisks(t)  BY <1>11 DEF UndoRisks, Refused, Undone
<1>12. CASE BeginSaveAsset(t)  BY <1>12 DEF BeginSaveAsset
<1>13. CASE SaveAsset(t)  BY <1>13 DEF SaveAsset
<1>14. CASE BeginSaveRisk(t)  BY <1>14 DEF BeginSaveRisk
<1>15. CASE SaveRisk(t)  BY <1>15 DEF SaveRisk
<1>16. CASE CommitRisk(t)  BY <1>16 DEF CommitRisk
<1>17. CASE BeginAddRiskSnapshot(t)  BY <1>17 DEF BeginAddRiskSnapshot
<1>18. CASE AddRiskSnapshot(t)  BY <1>18 DEF AddRiskSnapshot
<1>19. CASE InsertSnapshot(t)  BY <1>19 DEF InsertSnapshot
<1>20. CASE CommitSnapshot(t)  BY <1>20 DEF CommitSnapshot
<1> QED BY <1>1, <1>2, <1>3, <1>4, <1>5, <1>6, <1>7, <1>8, <1>9, <1>10, <1>11, <1>12, <1>13, <1>14,
      <1>15, <1>16, <1>17, <1>18, <1>19, <1>20
      DEF RegisterStep

(* A step elsewhere keeps all of this,                                     *)
LEMMA RegisterStands ==
  ASSUME RegisterInv, LocksInv', RegistersStay, UNCHANGED <<asset, risk>>, Elsewhere(RegisterPhases)
  PROVE  RegisterInv'
<1>1. \A b \in Requests : b \in Stamps
  BY DEF Stamps
<1>2. BatchesStand
  BY DEF RegisterInv, RegisterUnderWay, RegistersStay, BatchesStand
<1>3. \A b \in Stamps : batches'[b].kind \in RegisterKinds => IsFiniteSet(batches'[b].items)
  BY DEF RegisterInv, RegistersStay
<1>4. ASSUME NEW s \in Requests PROVE RegisterUnderWay(s)'
  <2>1. RegisterUnderWay(s) /\ "assets" \in RegisterKinds /\ "risks" \in RegisterKinds
    BY DEF RegisterInv, RegisterKinds
  <2>2. \A phase \in {"importAssets", "insertAssets", "undoAssets", "undoRisks"} :
          pc'[s] = phase => pc[s] = phase /\ req'[s] = req[s] /\ Waits(s)
    BY DEF Elsewhere, RegisterPhases
  <2>3. Undoing(s, "undoAssets", "assets", "assets")' /\ Undoing(s, "undoRisks", "risks", "risk_scenarios")'
    BY <1>2, <2>1, <2>2, UndoingStays DEF RegisterUnderWay
  <2>4. pc'[s] # "done" => batches'[s].kind \notin RegisterKinds
    BY <1>1, <2>1 DEF RegisterUnderWay, RegistersStay, Elsewhere
  <2> QED
    BY <2>1, <2>2, <2>3, <2>4 DEF RegisterUnderWay, File
<1> QED
  BY <1>2, <1>3, <1>4 DEF RegisterInv, BatchesStand, Elsewhere

(* and so does a step of the register.                                     *)
LEMMA RegisterStepKept ==
  ASSUME RegisterInv, LocksInv', NEW t \in Requests, RegisterStep(t), Passes(t, RegisterPhases)
  PROVE  RegisterInv'
<1>0. /\ t \in Stamps /\ Shaped /\ OnlyMoves(t) /\ pc[t] # "done" /\ BatchesKept /\ RegisterUnderWay(t)
      /\ batches[t].kind \notin RegisterKinds /\ "assets" \in RegisterKinds /\ "risks" \in RegisterKinds
  BY DEF Stamps, RegisterInv, RegisterUnderWay, Passes, RegisterPhases, RegisterKinds
<1>1. ImportsOnly(t, {"assets", "risks"})
  BY <1>0, RegisterImports
<1>2. BatchesStand
  BY <1>0, <1>1 DEF ImportsOnly, BatchesStand
<1>3. (pc'[t] # "done" => UNCHANGED batches)
      /\ \A b \in Stamps : batches'[b].kind \in RegisterKinds => IsFiniteSet(batches'[b].items)
  <2>1. CASE UNCHANGED batches
    BY <2>1 DEF RegisterInv
  <2>2. CASE Undone(t)
    BY <1>0, <2>2, DoneMoves DEF Undone, RegisterInv, BatchesKept
  <2>3. CASE pc[t] = "insertAssets" /\ Imported(t, "assets", ToSet(File(t)))
    BY <1>0, <2>3, DoneMoves DEF Imported, Batch, RegisterInv, RegisterUnderWay, BatchesKept
  <2>4. CASE Imported(t, "risks", {File(t)[1][1]})
    BY <1>0, <2>4, DoneMoves, FS_Singleton DEF Imported, Batch, RegisterInv, BatchesKept
  <2> QED
    BY <2>1, <2>2, <2>3, <2>4, RegisterEnds
<1>4. ASSUME NEW s \in Requests \ {t} PROVE RegisterUnderWay(s)'
  <2>1. RegisterUnderWay(s) /\ pc'[s] = pc[s] /\ req'[s] = req[s] /\ Waits(s) /\ s \in Stamps
    BY <1>0 DEF RegisterInv, OnlyMoves, Waits, Stamps
  <2>2. Undoing(s, "undoAssets", "assets", "assets")' /\ Undoing(s, "undoRisks", "risks", "risk_scenarios")'
    BY <1>0, <1>2, <2>1, UndoingStays DEF RegisterUnderWay
  <2> QED
    BY <1>1, <2>1, <2>2 DEF RegisterUnderWay, File, ImportsOnly
<1>5. RegisterUnderWay(t)'
  <2>0. pc'[t] # "done" => batches'[t].kind \notin RegisterKinds
    BY <1>0, <1>3
  <2>1. CASE pc'[t] \notin {"importAssets", "insertAssets", "undoAssets", "undoRisks"}
    BY <2>0, <2>1 DEF RegisterUnderWay, Undoing
  <2>2. CASE BeginImportAssets(t)
    <3>1. PICK file \in BoundedSeq(Assets, 2) : Begin(t, "importAssets", file, "importAssets", ImportLocks)
      BY <2>2 DEF BeginImportAssets, BeginImport
    <3>2. pc'[t] = "importAssets" /\ req'[t].arg = file
      BY <1>0, <3>1, BeginMoves
    <3>3. file \in Seq(Assets) /\ IsFiniteSet(ToSet(file))
      BY ShortIsFinite
    <3> QED
      BY <2>0, <3>2, <3>3 DEF RegisterUnderWay, Undoing, File
  <2>3. CASE ExamineAssets(t)
    <3>1. pc[t] = "importAssets" /\ plan' = plan
      BY <2>3 DEF ExamineAssets, Refused, At
    <3>2. CASE Done(t)
      BY <1>0, <2>0, <3>1, <3>2, DoneMoves DEF RegisterUnderWay, Undoing
    <3>3. CASE ~Done(t)
      <4>1. PICK locks : Goto(t, "insertAssets", locks, None)
        BY <2>3, <3>3 DEF ExamineAssets, Refused
      <4>2. pc'[t] = "insertAssets" /\ req'[t].arg = req[t].arg
        BY <1>0, <3>1, <4>1, GotoMoves
      <4> QED
        BY <1>0, <2>0, <3>1, <4>2 DEF RegisterUnderWay, Undoing, File
    <3> QED
      BY <3>2, <3>3
  <2>4. CASE BeginUndoAssets(t)
    <3>0. PICK b \in Stamps :
            /\ batches[b].kind = "assets"
            /\ \E order \in SetToSeqs(batches[b].items) :
                 BeginUndo(t, "undoAssets", b, UndoLocks([i \in DOMAIN order |-> AssetRow(order[i])]))
      BY <2>4 DEF BeginUndoAssets
    <3>1. PICK order \in SetToSeqs(batches[b].items) :
            BeginUndo(t, "undoAssets", b, UndoLocks([i \in DOMAIN order |-> AssetRow(order[i])]))
      BY <3>0
    <3>2. /\ pc'[t] = "undoAssets" /\ req'[t].arg = b /\ held'[t] = held[t] /\ pc[t] = "idle"
          /\ want'[t] = LockByLock("assets", order)
          /\ UNCHANGED batches
      <4>1. PICK rows : rows = [i \in DOMAIN order |-> <<"assets", order[i]>>]
        OBVIOUS
      <4>2. Begin(t, "undoAssets", b, "undoAssets", Locks(Update, rows)) /\ UNCHANGED batches
        BY <3>1, <4>1 DEF BeginUndo, UndoLocks, AssetRow
      <4>3. Locks(Update, rows) = LockByLock("assets", order)
        BY <4>1 DEF Locks, LockByLock
      <4> QED
        BY <1>0, <4>2, <4>3, BeginMoves
    <3>3. held[t] = {} /\ IsFiniteSet(batches[b].items)
      BY <1>0, <3>0, <3>2 DEF RegisterInv, LocksInv
    <3>4. Undoing(t, "undoAssets", "assets", "assets")'
      <4>1. PICK locks : locks = LocksOfAll("assets", batches[b].items)
        OBVIOUS
      <4>2. want'[t] \in Seq(locks) /\ ToSet(want'[t]) = locks
        BY <3>2, <3>3, <4>1, UndoWaits
      <4>3. held'[t] \cup ToSet(want'[t]) = locks
        BY <3>2, <3>3, <4>2
      <4> QED
        BY <3>0, <3>2, <4>1, <4>2, <4>3 DEF Undoing
    <3> QED
      BY <2>0, <3>2, <3>4 DEF RegisterUnderWay, Undoing
  <2>5. CASE BeginUndoRisks(t)
    <3>0. PICK b \in Stamps :
            /\ batches[b].kind = "risks"
            /\ \E order \in SetToSeqs(batches[b].items) :
                 BeginUndo(t, "undoRisks", b, UndoLocks([i \in DOMAIN order |-> RiskRow(order[i])]))
      BY <2>5 DEF BeginUndoRisks
    <3>1. PICK order \in SetToSeqs(batches[b].items) :
            BeginUndo(t, "undoRisks", b, UndoLocks([i \in DOMAIN order |-> RiskRow(order[i])]))
      BY <3>0
    <3>2. /\ pc'[t] = "undoRisks" /\ req'[t].arg = b /\ held'[t] = held[t] /\ pc[t] = "idle"
          /\ want'[t] = LockByLock("risk_scenarios", order)
          /\ UNCHANGED batches
      <4>1. PICK rows : rows = [i \in DOMAIN order |-> <<"risk_scenarios", order[i]>>]
        OBVIOUS
      <4>2. Begin(t, "undoRisks", b, "undoRisks", Locks(Update, rows)) /\ UNCHANGED batches
        BY <3>1, <4>1 DEF BeginUndo, UndoLocks, RiskRow
      <4>3. Locks(Update, rows) = LockByLock("risk_scenarios", order)
        BY <4>1 DEF Locks, LockByLock
      <4> QED
        BY <1>0, <4>2, <4>3, BeginMoves
    <3>3. held[t] = {} /\ IsFiniteSet(batches[b].items)
      BY <1>0, <3>0, <3>2 DEF RegisterInv, LocksInv
    <3>4. Undoing(t, "undoRisks", "risks", "risk_scenarios")'
      <4>1. PICK locks : locks = LocksOfAll("risk_scenarios", batches[b].items)
        OBVIOUS
      <4>2. want'[t] \in Seq(locks) /\ ToSet(want'[t]) = locks
        BY <3>2, <3>3, <4>1, UndoWaits
      <4>3. held'[t] \cup ToSet(want'[t]) = locks
        BY <3>2, <3>3, <4>2
      <4> QED
        BY <3>0, <3>2, <4>1, <4>2, <4>3 DEF Undoing
    <3> QED
      BY <2>0, <3>2, <3>4 DEF RegisterUnderWay, Undoing
  <2> QED
    BY <1>0, <2>1, <2>2, <2>3, <2>4, <2>5, RegisterGoes DEF RegisterInv
<1>6. DOMAIN asset' = Assets /\ DOMAIN risk' = Risks
  BY <1>0, RegisterGoes DEF RegisterInv
<1> QED
  BY <1>0, <1>2, <1>3, <1>4, <1>5, <1>6 DEF RegisterInv, BatchesStand, OnlyMoves

(* No step of Workspace breaks it.                                         *)
LEMMA RegisterKept ==
  ASSUME RegisterInv, [Next]_vars PROVE RegisterInv'
<1>1. Shaped /\ LocksInv /\ BatchesKept
  BY DEF RegisterInv
<1>2. LocksInv'
  BY <1>1, LocksKept
<1> QED
  BY <1>1, <1>2, RegisterSteps, RegisterStands, RegisterStepKept

(* At first no undo is under way.                                          *)
LEMMA RegisterInitial == Init => RegisterInv
<1> SUFFICES ASSUME Init PROVE RegisterInv
  OBVIOUS
<1>1. PICK name \in DOMAIN Plans :
        /\ batches = [b \in Stamps |-> IF b = First THEN Plans[name].tables.batch ELSE NoBatch]
        /\ asset = Plans[name].tables.asset /\ risk = Plans[name].tables.risk
  BY DEF Init
<1>2. BatchesKept
  BY <1>1, BatchAssumption DEF BatchesKept, NoBatch
<1>3. LocksInv
  BY ShapedInit DEF LocksInv, LocksApart, Compatible
<1>4. \A b \in Stamps : batches[b].kind \in RegisterKinds => IsFiniteSet(batches[b].items)
  BY <1>1, RegisterAssumption DEF NoBatch, RegisterKinds
<1>5. \A t \in Requests : RegisterUnderWay(t)
  BY <1>1, BatchAssumption, ShapedInit DEF RegisterUnderWay, Undoing, Stamps, NoBatch, RegisterKinds
<1> QED
  BY <1>1, <1>2, <1>3, <1>4, <1>5, ShapedInit, RegisterAssumption DEF RegisterInv

(* An undo that goes on keeps everybody from referring to what it undoes.  *)
LEMMA NobodyRefers ==
  ASSUME LocksInv, NEW t \in Requests, Granted(t), NEW table, NEW S, NEW k \in S,
         want[t] \in Seq(LocksOfAll(table, S)), held[t] \cup ToSet(want[t]) = LocksOfAll(table, S)
  PROVE  ~Referring(<<table, k>>)
<1>1. PICK locks : locks = LocksOfAll(table, S)
  OBVIOUS
<1>2. PICK w \in Seq(locks) : w = want[t]
  BY <1>1
<1>3. Taken(t) = locks
  <2>1. CASE w = <<>>
    <3>1. ToSet(w) = {}
      BY <2>1 DEF ToSet
    <3> QED
      BY <1>1, <1>2, <2>1, <3>1 DEF Taken
  <2>2. CASE w # <<>>
    <3>1. Len(w) = 1
      <4>1. PICK n \in Nat : n = Len(w)
        OBVIOUS
      <4>2. n <= 1
        BY <1>2, <4>1 DEF Granted
      <4>3. n # 0
        BY <2>2, <4>1
      <4> QED
        BY <4>1, <4>2, <4>3
    <3>2. DOMAIN w = {1} /\ Head(w) = w[1]
      BY <2>2, <3>1
    <3>3. ToSet(w) = {Head(w)}
      BY <3>2 DEF ToSet
    <3> QED
      BY <1>1, <1>2, <2>2, <3>3 DEF Taken
  <2> QED
    BY <2>1, <2>2
<1>4. Lock(Update, <<table, k>>) \in Taken(t) /\ \A l \in held[t] : l[1] = Update
  BY <1>1, <1>3 DEF LocksOfAll, Lock
<1>5. ASSUME NEW s \in Requests \ {t} PROVE Compatible(held[s], Taken(t))
  BY <1>5, TakenApart DEF LocksInv, Granted
<1>6. ASSUME NEW s \in Requests \ {t}, NEW l \in held[s], l[2] = <<table, k>>, l[1] \in {Key, Share} PROVE FALSE
  <2>1. PICK m : m = Lock(Update, <<table, k>>)
    OBVIOUS
  <2>2. m \in Taken(t) /\ m[1] = Update /\ m[2] = <<table, k>>
    BY <1>4, <2>1 DEF Lock
  <2>3. l[1] \in Modes /\ m[1] \in Modes
    BY <1>6, <2>2 DEF Modes
  <2>4. ~Conflict(l[1], m[1])
    BY <1>5, <1>6, <2>2, <2>3 DEF Compatible
  <2> QED
    BY <1>6, <2>2, <2>4 DEF Conflict, Key, Share, Update
<1>7. ASSUME NEW l \in held[t], l[1] \in {Key, Share} PROVE FALSE
  BY <1>4, <1>7 DEF Key, Share, Update
<1> QED
  BY <1>6, <1>7 DEF Referring

(* The steps of the register that write assets, and those that write risks. *)
LEMMA RegisterWrites ==
  ASSUME NEW t, RegisterStep(t)
  PROVE  /\ asset' = asset \/ InsertAssets(t) \/ UndoAssets(t) \/ SaveAsset(t)
         /\ risk' = risk \/ CommitRisks(t) \/ UndoRisks(t) \/ CommitRisk(t)
<1> USE DEF registerVars
<1>1. CASE BeginImportAssets(t)  BY <1>1 DEF BeginImportAssets
<1>2. CASE ExamineAssets(t)  BY <1>2 DEF ExamineAssets
<1>3. CASE InsertAssets(t)  BY <1>3 DEF InsertAssets
<1>4. CASE BeginImportRisks(t)  BY <1>4 DEF BeginImportRisks
<1>5. CASE ExamineRisks(t)  BY <1>5 DEF ExamineRisks
<1>6. CASE InsertRisks(t)  BY <1>6 DEF InsertRisks
<1>7. CASE CommitRisks(t)  BY <1>7 DEF CommitRisks
<1>8. CASE BeginUndoAssets(t)  BY <1>8 DEF BeginUndoAssets
<1>9. CASE UndoAssets(t)  BY <1>9 DEF UndoAssets
<1>10. CASE BeginUndoRisks(t)  BY <1>10 DEF BeginUndoRisks
<1>11. CASE UndoRisks(t)  BY <1>11 DEF UndoRisks
<1>12. CASE BeginSaveAsset(t)  BY <1>12 DEF BeginSaveAsset
<1>13. CASE SaveAsset(t)  BY <1>13 DEF SaveAsset
<1>14. CASE BeginSaveRisk(t)  BY <1>14 DEF BeginSaveRisk
<1>15. CASE SaveRisk(t)  BY <1>15 DEF SaveRisk
<1>16. CASE CommitRisk(t)  BY <1>16 DEF CommitRisk
<1>17. CASE BeginAddRiskSnapshot(t)  BY <1>17 DEF BeginAddRiskSnapshot
<1>18. CASE AddRiskSnapshot(t)  BY <1>18 DEF AddRiskSnapshot
<1>19. CASE InsertSnapshot(t)  BY <1>19 DEF InsertSnapshot
<1>20. CASE CommitSnapshot(t)  BY <1>20 DEF CommitSnapshot
<1> QED BY <1>1, <1>2, <1>3, <1>4, <1>5, <1>6, <1>7, <1>8, <1>9, <1>10, <1>11, <1>12, <1>13, <1>14,
      <1>15, <1>16, <1>17, <1>18, <1>19, <1>20
      DEF RegisterStep

(* An asset or a risk that is no longer active was referred to by nothing, *)
(* and nobody was about to refer to it.                                    *)
LEMMA RetiredUnused ==
  ASSUME RegisterInv, [Next]_vars
  PROVE  /\ \A a \in Assets : asset[a].status = "active" /\ asset'[a].status # "active"
                               => ~AssetReferred(a) /\ ~Referring(AssetRow(a))
         /\ \A r \in Risks : risk[r].status = "active" /\ risk'[r].status # "active"
                              => ~RiskReferred(r) /\ ~Referring(RiskRow(r))
<1>0. Shaped /\ LocksInv /\ BatchesKept /\ DOMAIN asset = Assets /\ DOMAIN risk = Risks
  BY DEF RegisterInv
<1>1. CASE UNCHANGED <<asset, risk>>
  BY <1>1
<1>2. ASSUME NEW t \in Requests, RegisterStep(t) PROVE
        \A a \in Assets : asset[a].status = "active" /\ asset'[a].status # "active"
                           => ~AssetReferred(a) /\ ~Referring(AssetRow(a))
  <2>1. CASE asset' = asset
    BY <2>1
  <2>2. CASE InsertAssets(t)
    BY <1>0, <2>2 DEF InsertAssets
  <2>3. CASE SaveAsset(t)
    BY <1>0, <2>3 DEF SaveAsset
  <2>4. CASE UndoAssets(t)
    <3>1. PICK b : b = req[t].arg
      OBVIOUS
    <3>2. \A a \in Assets : asset[a].status = "active" /\ asset'[a].status # "active" => a \in RetiredAssets(b)
      BY <2>4, <3>1 DEF UndoAssets
    <3>3. Granted(t) /\ pc[t] = "undoAssets"
      BY <2>4 DEF UndoAssets, At
    <3>4. PICK S : S = batches[b].items
      OBVIOUS
    <3>5. want[t] \in Seq(LocksOfAll("assets", S)) /\ held[t] \cup ToSet(want[t]) = LocksOfAll("assets", S)
      BY <3>1, <3>3, <3>4 DEF RegisterInv, RegisterUnderWay, Undoing
    <3>6. \A a \in S : ~Referring(AssetRow(a))
      BY <1>0, <3>3, <3>5, NobodyRefers DEF AssetRow
    <3> QED
      BY <3>2, <3>4, <3>6 DEF RetiredAssets
  <2> QED
    BY <1>2, <2>1, <2>2, <2>3, <2>4, RegisterWrites
<1>3. ASSUME NEW t \in Requests, RegisterStep(t) PROVE
        \A r \in Risks : risk[r].status = "active" /\ risk'[r].status # "active"
                          => ~RiskReferred(r) /\ ~Referring(RiskRow(r))
  <2>1. CASE risk' = risk
    BY <2>1
  <2>2. CASE CommitRisks(t)
    BY <1>0, <2>2 DEF CommitRisks
  <2>3. CASE CommitRisk(t)
    BY <1>0, <2>3 DEF CommitRisk
  <2>4. CASE UndoRisks(t)
    <3>1. PICK b : b = req[t].arg
      OBVIOUS
    <3>2. \A r \in Risks : risk[r].status = "active" /\ risk'[r].status # "active" => r \in RetiredRisks(b)
      BY <2>4, <3>1 DEF UndoRisks
    <3>3. Granted(t) /\ pc[t] = "undoRisks"
      BY <2>4 DEF UndoRisks, At
    <3>4. PICK S : S = batches[b].items
      OBVIOUS
    <3>5. /\ want[t] \in Seq(LocksOfAll("risk_scenarios", S))
          /\ held[t] \cup ToSet(want[t]) = LocksOfAll("risk_scenarios", S)
      BY <3>1, <3>3, <3>4 DEF RegisterInv, RegisterUnderWay, Undoing
    <3>6. \A r \in S : ~Referring(RiskRow(r))
      BY <1>0, <3>3, <3>5, NobodyRefers DEF RiskRow
    <3> QED
      BY <3>2, <3>4, <3>6 DEF RetiredRisks
  <2> QED
    BY <1>3, <2>1, <2>2, <2>3, <2>4, RegisterWrites
<1> QED
  BY <1>0, <1>1, <1>2, <1>3, RegisterSteps

-----------------------------------------------------------------------------
(* What the rows of a file become.                                         *)

(* A file has no more names than rows.                                     *)
LEMMA NamesAreFew ==
  ASSUME NEW file, NEW R, file \in Seq(R)
  PROVE  IsFiniteSet(NamesIn(file)) /\ Cardinality(NamesIn(file)) <= Len(file)
<1> DEFINE n == Len(file)
           N == NamesIn(file)
           f == [i \in 1..n |-> file[i].name]
<1>1. n \in Nat /\ DOMAIN file = 1..n
  OBVIOUS
<1>2. N = {file[i].name : i \in 1..n}
  BY <1>1 DEF NamesIn
<1>3. f \in Surjection(1..n, N)
  <2>1. f \in [1..n -> N] /\ \A y \in N : \E i \in 1..n : f[i] = y
    BY <1>2
  <2> HIDE DEF f, N, n
  <2> QED
    BY <2>1 DEF Surjection
<1>4. IsFiniteSet(1..n) /\ Cardinality(1..n) = n
  BY <1>1, FS_Interval
<1> HIDE DEF f, N, n
<1>5. IsFiniteSet(N) /\ Cardinality(N) <= Cardinality(1..n)
  BY <1>3, <1>4, FS_Surjection
<1> QED
  BY <1>4, <1>5 DEF N, n

(* A valid file has the parents of a row up to one that is not in it.      *)
LEMMA TopIsReached ==
  ASSUME NEW file, NEW R, file \in Seq(R), ValidDepartments(file), NEW x \in NamesIn(file)
  PROVE  LET up == ParentsUp(file, x, Len(file))
         IN  RowOf(file, up[Len(up)]).parent \notin NamesIn(file)
<1> DEFINE n == Len(file)
           N == NamesIn(file)
<1>0. n \in Nat /\ DOMAIN file = 1..n
  OBVIOUS
<1>1. PICK up : up = ParentsUp(file, x, n)
  OBVIOUS
<1>2. up \in Seq(N) /\ (Len(up) = n + 1 \/ RowOf(file, up[Len(up)]).parent \notin N)
  BY <1>0, <1>1, UpIsInFile
<1>3. IsInjective(up)
  <2>1. PICK i \in DOMAIN file : x = file[i].name
    BY DEF NamesIn
  <2> QED
    BY <1>1, <2>1 DEF ValidDepartments
<1>4. IsFiniteSet(N) /\ Cardinality(N) <= n
  BY NamesAreFew
<1> HIDE DEF N, n
<1>5. Len(up) # n + 1
  <2> SUFFICES ASSUME Len(up) = n + 1 PROVE FALSE
    OBVIOUS
  <2>1. up \in [1..(n + 1) -> N] /\ DOMAIN up = 1..(n + 1)
    BY <1>2
  <2>2. IsFiniteSet(1..(n + 1)) /\ Cardinality(1..(n + 1)) = n + 1
    BY <1>0, FS_Interval
  <2>3. Cardinality(N) < Cardinality(1..(n + 1))
    <3>1. Cardinality(N) \in Nat
      BY <1>4, FS_CardinalityType
    <3> QED
      BY <1>0, <1>4, <2>2, <3>1
  <2>4. \E i, j \in 1..(n + 1) : i # j /\ up[i] = up[j]
    BY <1>4, <2>1, <2>2, <2>3, FS_PigeonHole
  <2> QED
    BY <1>3, <2>1, <2>4 DEF IsInjective
<1> QED
  BY <1>1, <1>2, <1>5 DEF N, n

(* Places of which each comes with those before it are the first ones.     *)
LEMMA FirstPlaces ==
  ASSUME NEW n \in Nat, NEW s \in SUBSET (1..n), \A i \in s : \A j \in 1..i : j \in s
  PROVE  \E m \in 0..n : s = 1..m /\ Cardinality(s) = m
<1>1. CASE s = {}
  <2>1. s = 1..0 /\ 0 \in 0..n
    BY <1>1
  <2> QED
    BY <1>1, <2>1, FS_EmptySet
<1>2. CASE s # {}
  <2>1. PICK m \in s : \A i \in s : m >= i
    BY <1>2, HasLast
  <2>2. m \in 1..n /\ s = 1..m
    <3>1. m \in 1..n
      OBVIOUS
    <3>2. \A i \in s : i \in 1..m
      BY <2>1
    <3>3. \A i \in 1..m : i \in s
      OBVIOUS
    <3> QED
      BY <3>1, <3>2, <3>3
  <2>3. Cardinality(1..m) = m
    BY <2>2, FS_Interval
  <2> QED
    BY <2>2, <2>3
<1> QED
  BY <1>1, <1>2

(* The elements of a sequence, then those of another.                      *)
LEMMA OneThenOther ==
  ASSUME NEW S, NEW v \in Seq(S), NEW w \in Seq(S)
  PROVE  /\ v \o w \in Seq(S) /\ Len(v \o w) = Len(v) + Len(w)
         /\ \A k \in 1..Len(v) : (v \o w)[k] = v[k]
         /\ \A k \in 1..Len(w) : (v \o w)[Len(v) + k] = w[k]
<1>1. PICK m \in Nat, n \in Nat : m = Len(v) /\ n = Len(w)
  OBVIOUS
<1>2. v \o w \in Seq(S) /\ Len(v \o w) = m + n
  BY <1>1
<1>3. \A k \in 1..(m + n) : (v \o w)[k] = IF k <= m THEN v[k] ELSE w[k - m]
  BY <1>1
<1>4. ASSUME NEW k \in 1..m PROVE (v \o w)[k] = v[k]
  <2>1. k \in 1..(m + n) /\ k <= m
    OBVIOUS
  <2> QED
    BY <1>3, <2>1
<1>5. ASSUME NEW k \in 1..n PROVE (v \o w)[m + k] = w[k]
  <2>1. m + k \in 1..(m + n) /\ ~(m + k <= m) /\ (m + k) - m = k
    OBVIOUS
  <2> QED
    BY <1>3, <2>1
<1> QED
  BY <1>1, <1>2, <1>4, <1>5

(* The first elements of a sequence.                                       *)
LEMMA FirstOnes ==
  ASSUME NEW S, NEW v \in Seq(S), NEW m \in 0..Len(v)
  PROVE  /\ SubSeq(v, 1, m) \in Seq(S) /\ Len(SubSeq(v, 1, m)) = m
         /\ \A k \in 1..m : SubSeq(v, 1, m)[k] = v[k]
<1>1. SubSeq(v, 1, m) \in Seq(S)
  OBVIOUS
<1>2. Len(SubSeq(v, 1, m)) = m
  OBVIOUS
<1>3. \A k \in 1..m : SubSeq(v, 1, m)[k] = v[k]
  OBVIOUS
<1> QED
  BY <1>1, <1>2, <1>3

(* In such a sequence of names, a name whose parent is in the file comes   *)
(* after it.                                                               *)
ParentsFirst(file, out) ==
  \A k \in DOMAIN out :
    LET parent == RowOf(file, out[k]).parent
    IN  parent \in NamesIn(file) => \E j \in 1..(k - 1) : out[j] = parent

(* A row is placed with all above it that was not placed before.           *)
LEMMA VisitPlaces ==
  ASSUME NEW file, NEW R, file \in Seq(R), ValidDepartments(file),
         NEW out \in Seq(NamesIn(file)), ParentsFirst(file, out), NEW row, row.name \in NamesIn(file)
  PROVE  LET new == Visit(file, out, row)
         IN  /\ ParentsFirst(file, new)
             /\ Len(out) <= Len(new) /\ \A k \in DOMAIN out : new[k] = out[k]
             /\ \E k \in DOMAIN new : new[k] = row.name
<1> DEFINE N == NamesIn(file)
           Parent(y) == RowOf(file, y).parent
<1>0. Len(file) \in Nat
  OBVIOUS
<1>1. PICK up : up = ParentsUp(file, row.name, Len(file))
  OBVIOUS
<1>2. /\ up \in Seq(N) \ {<<>>} /\ up[1] = row.name
      /\ \A k \in 1..(Len(up) - 1) : up[k + 1] = Parent(up[k])
  BY <1>0, <1>1, UpIsInFile
<1>3. Parent(up[Len(up)]) \notin N
  BY <1>1, TopIsReached
<1> DEFINE open == {i \in DOMAIN up : \A j \in 1..i : ~Contains(out, up[j])}
<1>4. Visit(file, out, row) = out \o Reverse(SubSeq(up, 1, Cardinality(open)))
  BY <1>1, Zenon DEF Visit
<1>5. \A i \in open : \A j \in 1..i : j \in open
  <2> SUFFICES ASSUME NEW i \in open, NEW j \in 1..i PROVE j \in open
    OBVIOUS
  <2>1. j \in DOMAIN up /\ 1..j \subseteq 1..i
    BY <1>2
  <2> QED
    BY <2>1
<1> HIDE DEF N, Parent
<1>6. PICK l \in Nat \ {0} : l = Len(up) /\ DOMAIN up = 1..l
  BY <1>2
<1>7. PICK m \in 0..l : open = 1..m /\ Cardinality(open) = m
  <2>1. open \in SUBSET (1..l)
    BY <1>6
  <2> HIDE DEF open
  <2> QED
    BY <1>5, <1>6, <2>1, FirstPlaces
<1>8. PICK n \in Nat : n = Len(out) /\ DOMAIN out = 1..n /\ \A k \in 1..n : out[k] \in N
  BY DEF N
<1>9. \A j \in 1..m : \A k \in 1..n : out[k] # up[j]
  <2> SUFFICES ASSUME NEW j \in 1..m, NEW k \in 1..n PROVE out[k] # up[j]
    OBVIOUS
  <2>1. j \in open /\ j \in 1..j
    BY <1>7
  <2> QED
    BY <1>8, <2>1 DEF Contains
<1>10. m < l => \E k \in 1..n : out[k] = up[m + 1]
  <2> SUFFICES ASSUME m < l PROVE \E k \in 1..n : out[k] = up[m + 1]
    OBVIOUS
  <2>1. m + 1 \in DOMAIN up /\ m + 1 \notin open
    BY <1>6, <1>7
  <2>2. PICK j \in 1..(m + 1) : Contains(out, up[j])
    BY <2>1
  <2>3. j = m + 1
    BY <1>8, <1>9, <2>2 DEF Contains
  <2> QED
    BY <1>8, <2>2, <2>3 DEF Contains
<1> HIDE DEF open
<1>11. PICK tail \in Seq(N) : tail = Reverse(SubSeq(up, 1, m)) /\ Len(tail) = m
                             /\ \A k \in 1..m : tail[k] = up[m + 1 - k]
  <2>0. up \in Seq(N) /\ m \in 0..Len(up)
    BY <1>2, <1>6
  <2>1. PICK s \in Seq(N) : s = SubSeq(up, 1, m) /\ Len(s) = m /\ \A k \in 1..m : s[k] = up[k]
    BY <2>0, FirstOnes, Zenon
  <2>2. Reverse(s) \in Seq(N) /\ Len(Reverse(s)) = m
    BY <2>1 DEF Reverse
  <2>3. \A k \in 1..m : Reverse(s)[k] = s[(m - k) + 1] /\ (m - k) + 1 \in 1..m /\ (m - k) + 1 = m + 1 - k
    BY <2>1 DEF Reverse
  <2> QED
    BY <2>1, <2>2, <2>3
<1>12. PICK new : new = out \o tail
  OBVIOUS
<1>13. /\ new \in Seq(N) /\ Len(new) = n + m /\ DOMAIN new = 1..(n + m)
       /\ \A k \in 1..n : new[k] = out[k]
       /\ \A k \in 1..m : new[n + k] = up[m + 1 - k]
  <2>1. out \in Seq(N)
    BY DEF N
  <2>2. new \in Seq(N) /\ Len(new) = n + m
    BY <1>8, <1>11, <1>12, <2>1, OneThenOther
  <2>3. \A k \in 1..n : new[k] = out[k]
    BY <1>8, <1>11, <1>12, <2>1, OneThenOther
  <2>4. \A k \in 1..m : new[n + k] = tail[k]
    BY <1>8, <1>11, <1>12, <2>1, OneThenOther
  <2>5. DOMAIN new = 1..(n + m)
    BY <2>2
  <2> QED
    BY <1>11, <2>2, <2>3, <2>4, <2>5
<1>14. ASSUME NEW k \in 1..n, Parent(out[k]) \in N
       PROVE  \E j \in 1..(k - 1) : new[j] = Parent(new[k])
  <2>1. PICK j \in 1..(k - 1) : out[j] = Parent(out[k])
    BY <1>8, <1>14 DEF ParentsFirst, Parent, N
  <2>2. j \in 1..n
    OBVIOUS
  <2> QED
    BY <1>13, <2>1, <2>2
<1>15. ASSUME NEW k \in 1..m, Parent(up[m + 1 - k]) \in N
       PROVE  \E j \in 1..(n + k - 1) : new[j] = Parent(new[n + k])
  <2>1. PICK i \in 1..m : i = m + 1 - k
    OBVIOUS
  <2>2. i # l
    BY <1>3, <1>6, <1>15, <2>1
  <2>3. i \in 1..(l - 1)
    BY <1>7, <2>2
  <2>4. up[i + 1] = Parent(up[i]) /\ new[n + k] = up[i]
    BY <1>2, <1>6, <1>13, <2>1, <2>3
  <2>5. CASE k = 1
    <3>1. m < l /\ i = m
      BY <2>1, <2>3, <2>5
    <3>2. PICK j \in 1..n : out[j] = up[m + 1]
      BY <1>10, <3>1
    <3>3. j \in 1..(n + k - 1) /\ new[j] = out[j]
      BY <1>13, <2>5
    <3> QED
      BY <2>4, <3>1, <3>2, <3>3
  <2>6. CASE k # 1
    <3>1. k - 1 \in 1..m /\ m + 1 - (k - 1) = i + 1 /\ n + (k - 1) = n + k - 1 /\ n + k - 1 \in 1..(n + k - 1)
      BY <2>1, <2>6
    <3>2. new[n + (k - 1)] = up[m + 1 - (k - 1)]
      BY <1>13, <3>1
    <3> QED
      BY <2>4, <3>1, <3>2
  <2> QED
    BY <2>5, <2>6
<1>16. ASSUME NEW k \in 1..(n + m), Parent(new[k]) \in N
       PROVE  \E j \in 1..(k - 1) : new[j] = Parent(new[k])
  <2>1. CASE k <= n
    <3>1. k \in 1..n
      BY <2>1
    <3>2. new[k] = out[k]
      BY <1>13, <3>1
    <3> QED
      BY <1>14, <1>16, <3>1, <3>2
  <2>2. CASE ~(k <= n)
    <3>1. PICK e \in 1..m : k = n + e
      <4>1. k - n \in 1..m /\ k = n + (k - n)
        BY <2>2
      <4> QED
        BY <4>1
    <3>2. Parent(up[m + 1 - e]) \in N
      BY <1>13, <1>16, <3>1
    <3> QED
      BY <1>15, <3>1, <3>2
  <2> QED
    BY <2>1, <2>2
<1>17. \E k \in 1..(n + m) : new[k] = row.name
  <2>1. CASE m = 0
    <3>1. 0 < l /\ 0 + 1 = 1
      OBVIOUS
    <3>2. PICK k \in 1..n : out[k] = up[1]
      BY <1>10, <2>1, <3>1
    <3>3. k \in 1..(n + m) /\ new[k] = out[k]
      BY <1>13
    <3> QED
      BY <1>2, <3>2, <3>3
  <2>2. CASE m # 0
    <3>1. m \in 1..m /\ m + 1 - m = 1 /\ n + m \in 1..(n + m)
      BY <2>2
    <3>2. new[n + m] = up[1]
      BY <1>13, <3>1
    <3> QED
      BY <1>2, <3>1, <3>2
  <2> QED
    BY <2>1, <2>2
<1>18. Visit(file, out, row) = new
  BY <1>4, <1>7, <1>11, <1>12
<1>19. ParentsFirst(file, new)
  BY <1>13, <1>16 DEF ParentsFirst, Parent, N
<1>20. Len(out) <= Len(new) /\ (\A k \in DOMAIN out : new[k] = out[k]) /\ \E k \in DOMAIN new : new[k] = row.name
  <2>1. n <= n + m
    OBVIOUS
  <2> QED
    BY <1>8, <1>13, <1>17, <2>1
<1> HIDE DEF ParentsFirst
<1> QED
  BY <1>18, <1>19, <1>20, Zenon

(* The order of a valid file has every row of it, after its parent if that *)
(* is in the file.                                                         *)
LEMMA OrderIsRight ==
  ASSUME NEW file, NEW R, file \in Seq(R), ValidDepartments(file)
  PROVE  LET order == OrderDepartments(file)
         IN  ParentsFirst(file, order) /\ \A x \in NamesIn(file) : \E k \in DOMAIN order : order[k] = x
<1> DEFINE N == NamesIn(file)
<1>1. PICK n \in Nat : n = Len(file) /\ DOMAIN file = 1..n /\ N = {file[i].name : i \in 1..n}
  BY DEF NamesIn
<1>2. PICK g \in [0..n -> Seq(N)] : /\ g[0] = <<>> /\ \A i \in 1..n : g[i] = Visit(file, g[i - 1], file[i])
                                   /\ OrderDepartments(file) = g[n]
  BY <1>1, OrderByRows
<1> DEFINE Placed(i) == \A j \in 1..i : \E k \in DOMAIN g[i] : g[i][k] = file[j].name
           Good == {i \in Nat : i <= n => ParentsFirst(file, g[i]) /\ Placed(i)}
<1>3. 0 \in Good
  <2>1. DOMAIN g[0] = {} /\ 1..0 = {}
    BY <1>2
  <2>2. ParentsFirst(file, g[0])
    BY <2>1 DEF ParentsFirst
  <2>3. Placed(0)
    BY <2>1
  <2>4. 0 \in Nat
    OBVIOUS
  <2> HIDE DEF Placed
  <2> QED
    BY <2>2, <2>3, <2>4
<1>4. ASSUME NEW i \in Nat, i \in Good PROVE i + 1 \in Good
  <2> SUFFICES ASSUME i + 1 <= n PROVE ParentsFirst(file, g[i + 1]) /\ Placed(i + 1)
    OBVIOUS
  <2>1. i + 1 \in 1..n /\ i \in 0..n /\ (i + 1) - 1 = i
    OBVIOUS
  <2>2. PICK out \in Seq(N) : out = g[i]
    BY <1>2, <2>1
  <2>3. PICK row, new : row = file[i + 1] /\ new = g[i + 1] /\ new = Visit(file, out, row) /\ row.name \in N
    BY <1>1, <1>2, <2>1, <2>2
  <2>4. ParentsFirst(file, out) /\ \A j \in 1..i : \E k \in DOMAIN out : out[k] = file[j].name
    BY <1>4, <2>1, <2>2
  <2> HIDE DEF Good
  <2>5. /\ ParentsFirst(file, new) /\ Len(out) <= Len(new)
        /\ (\A k \in DOMAIN out : new[k] = out[k]) /\ \E k \in DOMAIN new : new[k] = row.name
    BY <2>3, <2>4, VisitPlaces
  <2>6. DOMAIN out \subseteq DOMAIN new
    <3>0. i + 1 \in 0..n
      BY <2>1
    <3>1. new \in Seq(N)
      BY <1>2, <2>3, <3>0
    <3> HIDE DEF N
    <3>2. DOMAIN out = 1..Len(out) /\ DOMAIN new = 1..Len(new) /\ Len(out) \in Nat /\ Len(new) \in Nat
      BY <3>1
    <3> QED
      BY <2>5, <3>2
  <2>7. ASSUME NEW j \in 1..(i + 1) PROVE \E k \in DOMAIN new : new[k] = file[j].name
    <3>1. CASE j = i + 1
      BY <2>3, <2>5, <3>1
    <3>2. CASE j # i + 1
      <4>1. j \in 1..i
        BY <3>2
      <4>2. PICK k \in DOMAIN out : out[k] = file[j].name
        BY <2>4, <4>1
      <4> QED
        BY <2>5, <2>6, <4>2
    <3> QED
      BY <3>1, <3>2
  <2> QED
    BY <2>3, <2>5, <2>7
<1>5. n \in Good
  <2> HIDE DEF Good
  <2> QED
    BY <1>3, <1>4, CountingUp
<1> QED
  BY <1>1, <1>2, <1>5

(* The department that a row of the file is filed under: one that the file *)
(* makes, or one that was there.                                           *)
FiledUnder(t, x) ==
  LET parent == RowOf(File(t), x).parent
  IN  IF parent \in NamesIn(File(t)) THEN <<t, parent>>
      ELSE IF parent \in DOMAIN req[t].saw THEN req[t].saw[parent] ELSE None

(* What inserting a row of the file adds.                                  *)
Adds(t, made, y, more) ==
  /\ DOMAIN more.ids = DOMAIN made.ids \cup {y} /\ more.ids[y] = <<t, y>>
  /\ \A z \in DOMAIN made.ids \ {y} : more.ids[z] = made.ids[z]
  /\ DOMAIN more.rows = DOMAIN made.rows \cup {<<t, y>>}
  /\ LET parent == RowOf(File(t), y).parent
     IN  more.rows[<<t, y>>].parent = IF parent \in DOMAIN made.ids THEN made.ids[parent] ELSE None
  /\ \A d \in DOMAIN made.rows \ {<<t, y>>} : more.rows[d] = made.rows[d]

LEMMA InsertAdds ==
  ASSUME NEW t, NEW made, NEW y
  PROVE  Adds(t, made, y, Insert(t, made, y))
<1> DEFINE row == RowOf(File(t), y)
           new == [name |-> y, parent |-> IF row.parent \in DOMAIN made.ids THEN made.ids[row.parent] ELSE None,
                   owner |-> row.owner, stamp |-> t]
           ids == WithRow(made.ids, y, <<t, y>>)
           rows == WithRow(made.rows, <<t, y>>, new)
<1>1. Insert(t, made, y) = [ids |-> ids, rows |-> rows]
  BY DEF Insert
<1>2. /\ DOMAIN ids = DOMAIN made.ids \cup {y} /\ ids[y] = <<t, y>>
      /\ \A z \in DOMAIN made.ids \ {y} : ids[z] = made.ids[z]
  BY DEF WithRow
<1>3. new.parent = IF row.parent \in DOMAIN made.ids THEN made.ids[row.parent] ELSE None
  OBVIOUS
<1> HIDE DEF new
<1>4. /\ DOMAIN rows = DOMAIN made.rows \cup {<<t, y>>} /\ rows[<<t, y>>] = new
      /\ \A d \in DOMAIN made.rows \ {<<t, y>>} : rows[d] = made.rows[d]
  BY DEF WithRow
<1> HIDE DEF ids, rows
<1> QED
  BY <1>1, <1>2, <1>3, <1>4 DEF Adds

(* All rows of a valid file are made, and made under it.                   *)
LEMMA MadeAsFiled ==
  ASSUME NEW t, NEW R, File(t) \in Seq(R), ValidDepartments(File(t)),
         req[t].saw = [x \in DOMAIN req[t].saw |-> req[t].saw[x]],
         DOMAIN req[t].saw \cap NamesIn(File(t)) = {},
         NEW x \in NamesIn(File(t))
  PROVE  <<t, x>> \in DOMAIN MadeFrom(t) /\ MadeFrom(t)[<<t, x>>].parent = FiledUnder(t, x)
<1> DEFINE N == NamesIn(File(t))
           Parent(y) == RowOf(File(t), y).parent
<1>1. PICK order \in Seq(N) : order = OrderDepartments(File(t))
  BY OrderIsOfFile
<1>2. ParentsFirst(File(t), order) /\ \E k \in DOMAIN order : order[k] = x
  BY <1>1, OrderIsRight
<1>3. PICK n \in Nat : n = Len(order) /\ DOMAIN order = 1..n /\ \A k \in 1..n : order[k] \in N
  BY <1>1
<1>4. PICK saw : saw = req[t].saw
  OBVIOUS
<1>5. PICK g : /\ g[0] = [ids |-> saw, rows |-> <<>>]
               /\ \A i \in 1..n : g[i] = Insert(t, g[i - 1], order[i])
               /\ MadeFrom(t) = g[n].rows
  BY <1>1, <1>3, <1>4, MadeIsOfFile
<1> HIDE DEF N, Parent
<1> DEFINE Ids(i) == /\ DOMAIN g[i].ids = DOMAIN saw \cup {order[j] : j \in 1..i}
                     /\ \A p \in DOMAIN saw : g[i].ids[p] = saw[p]
                     /\ \A j \in 1..i : g[i].ids[order[j]] = <<t, order[j]>>
           Filed(i) == \A j \in 1..i : /\ <<t, order[j]>> \in DOMAIN g[i].rows
                                       /\ g[i].rows[<<t, order[j]>>].parent = FiledUnder(t, order[j])
           Good == {i \in Nat : i <= n => Ids(i) /\ Filed(i)}
<1>7. 0 \in Good
  <2>1. g[0].ids = saw /\ 1..0 = {} /\ 0 \in Nat
    BY <1>5
  <2>2. Ids(0) /\ Filed(0)
    BY <2>1
  <2> HIDE DEF Ids, Filed
  <2> QED
    BY <2>1, <2>2
<1>8. ASSUME NEW i \in Nat, i \in Good PROVE i + 1 \in Good
  <2> SUFFICES ASSUME i + 1 <= n PROVE Ids(i + 1) /\ Filed(i + 1)
    OBVIOUS
  <2>1. i + 1 \in 1..n /\ (i + 1) - 1 = i /\ 1..(i + 1) = 1..i \cup {i + 1} /\ 1..i \subseteq 1..n
    OBVIOUS
  <2>2. PICK made, y, more : made = g[i] /\ y = order[i + 1] /\ more = Insert(t, made, y) /\ more = g[i + 1]
    BY <1>5, <2>1
  <2>3. y \in N /\ y \notin DOMAIN saw
    BY <1>3, <1>4, <2>1, <2>2 DEF N
  <2>4. /\ DOMAIN made.ids = DOMAIN saw \cup {order[j] : j \in 1..i}
        /\ \A p \in DOMAIN saw : made.ids[p] = saw[p]
        /\ \A j \in 1..i : made.ids[order[j]] = <<t, order[j]>>
    BY <1>8, <2>2
  <2>5. \A j \in 1..i : /\ <<t, order[j]>> \in DOMAIN made.rows
                        /\ made.rows[<<t, order[j]>>].parent = FiledUnder(t, order[j])
    BY <1>8, <2>2
  <2> HIDE DEF Good
  <2>a. Adds(t, made, y, more)
    <3>1. more = Insert(t, made, y)
      BY <2>2
    <3>2. Adds(t, made, y, Insert(t, made, y))
      BY InsertAdds
    <3> QED
      BY <3>1, <3>2, Zenon
  <2>6. /\ DOMAIN more.ids = DOMAIN made.ids \cup {y} /\ more.ids[y] = <<t, y>>
        /\ \A z \in DOMAIN made.ids \ {y} : more.ids[z] = made.ids[z]
    BY <2>a DEF Adds
  <2>7. /\ DOMAIN more.rows = DOMAIN made.rows \cup {<<t, y>>}
        /\ more.rows[<<t, y>>].parent = IF Parent(y) \in DOMAIN made.ids THEN made.ids[Parent(y)] ELSE None
        /\ \A d \in DOMAIN made.rows \ {<<t, y>>} : more.rows[d] = made.rows[d]
    BY <2>a DEF Adds, Parent
  <2>8. Ids(i + 1)
    <3>1. DOMAIN more.ids = DOMAIN saw \cup {order[j] : j \in 1..(i + 1)}
      BY <2>1, <2>2, <2>4, <2>6
    <3>2. \A p \in DOMAIN saw : more.ids[p] = saw[p]
      BY <2>3, <2>4, <2>6
    <3>3. ASSUME NEW j \in 1..(i + 1) PROVE more.ids[order[j]] = <<t, order[j]>>
      <4>1. CASE order[j] = y
        BY <2>6, <4>1
      <4>2. CASE order[j] # y
        <5>1. j \in 1..i
          BY <2>1, <2>2, <4>2
        <5> QED
          BY <2>4, <2>6, <4>2, <5>1
      <4> QED
        BY <4>1, <4>2
    <3> QED
      BY <2>2, <3>1, <3>2, <3>3
  <2>9. more.rows[<<t, y>>].parent = FiledUnder(t, y)
    <3>1. CASE Parent(y) \in N
      <4>1. PICK j \in 1..((i + 1) - 1) : order[j] = Parent(y)
        BY <1>2, <1>3, <2>1, <2>2, <3>1 DEF ParentsFirst, N, Parent
      <4>2. j \in 1..i
        BY <2>1
      <4>3. Parent(y) \in DOMAIN made.ids /\ made.ids[Parent(y)] = <<t, Parent(y)>>
        BY <2>4, <4>1, <4>2
      <4> QED
        BY <2>7, <3>1, <4>3 DEF FiledUnder, N, Parent
    <3>2. CASE Parent(y) \notin N
      <4>1. \A j \in 1..i : order[j] # Parent(y)
        BY <1>3, <2>1, <3>2
      <4>2. Parent(y) \in DOMAIN made.ids <=> Parent(y) \in DOMAIN saw
        BY <2>4, <4>1
      <4> QED
        BY <1>4, <2>4, <2>7, <3>2, <4>2 DEF FiledUnder, N, Parent
    <3> QED
      BY <3>1, <3>2
  <2>10. Filed(i + 1)
    <3>1. ASSUME NEW j \in 1..(i + 1)
          PROVE  <<t, order[j]>> \in DOMAIN more.rows /\ more.rows[<<t, order[j]>>].parent = FiledUnder(t, order[j])
      <4>1. CASE order[j] = y
        BY <2>7, <2>9, <4>1
      <4>2. CASE order[j] # y
        <5>1. j \in 1..i
          BY <2>1, <2>2, <4>2
        <5>2. <<t, order[j]>> \in DOMAIN made.rows \ {<<t, y>>}
          BY <2>5, <4>2, <5>1
        <5> QED
          BY <2>5, <2>7, <5>1, <5>2
      <4> QED
        BY <4>1, <4>2
    <3> QED
      BY <2>2, <3>1
  <2> QED
    BY <2>8, <2>10
<1>9. n \in Good
  <2> HIDE DEF Good
  <2> QED
    BY <1>7, <1>8, CountingUp
<1>10. PICK k \in 1..n : order[k] = x
  BY <1>2, <1>3
<1>11. Filed(n)
  BY <1>9
<1> QED
  BY <1>5, <1>10, <1>11

-----------------------------------------------------------------------------
(* Tests: of which continuity plans one is recorded.                       *)

(* A step is one of the standing records, or leaves them and the tests.    *)
LEMMA StandingSteps ==
  ASSUME Shaped, [Next]_vars
  PROVE  \/ \E t \in Requests : StandingStep(t) /\ Passes(t, StandingPhases)
         \/ UNCHANGED <<standing, tests>> /\ Elsewhere(StandingPhases)
<1>1. ASSUME NEW t \in Requests, Files(t) \/ Register(t) \/ Applications(t) \/ Organisation(t)
                                 \/ Policies(t) \/ Work(t) \/ ChangeControl(t) \/ Incident(t)
      PROVE  UNCHANGED <<standing, tests>> /\ Elsewhere(StandingPhases)
  BY <1>1, PassesElsewhere, FilesPasses, RegisterPasses, ApplicationsPasses, OrganisationPasses,
     ChartPasses, PoliciesPasses, WorkPasses, ChangeControlPasses, IncidentPasses
     DEF StandingPhases, Files, Register, Applications, Organisation, Policies, Work, ChangeControl, Incident,
         FilesPhases, RegisterPhases, ApplicationsPhases, OrganisationPhases, ChartPhases, PoliciesPhases,
         WorkPhases, ChangeControlPhases, IncidentPhases, standingVars
<1>2. ASSUME NEW t \in Requests, Decision(t) \/ Audit(t) \/ Journal(t) \/ Competence(t) \/ Devices(t)
                                 \/ Steps(t) \/ Control(t) \/ Passwords(t)
      PROVE  UNCHANGED <<standing, tests>> /\ Elsewhere(StandingPhases)
  BY <1>2, PassesElsewhere, DecisionPasses, AuditPasses, JournalPasses, CompetencePasses, DevicesPasses,
     StepsPasses, ControlPasses, PasswordsPasses
     DEF StandingPhases, Decision, Audit, Journal, Competence, Devices, Steps, Control, Passwords,
         DecisionPhases, AuditPhases, JournalPhases, CompetencePhases, DevicesPhases, StepsPhases,
         ControlPhases, PasswordsPhases, standingVars
<1>3. ASSUME NEW t \in Requests, Shared(t)
      PROVE  UNCHANGED <<standing, tests>> /\ Elsewhere(StandingPhases)
  BY <1>3, SharedElsewhere DEF Shared, StandingPhases, standingVars
<1>4. ASSUME NEW t \in Requests, Standing(t)
      PROVE  StandingStep(t) /\ Passes(t, StandingPhases)
  BY <1>4, StandingPasses DEF Standing
<1>5. ASSUME TimePasses \/ Outside \/ Machinery \/ Terminated \/ UNCHANGED vars
      PROVE  UNCHANGED <<standing, tests>> /\ Elsewhere(StandingPhases)
  BY <1>5, RestElsewhere
     DEF TimePasses, ExpireException, ReviewDayComes, EntryFallsDue, DayPasses, DeviationLapses, Outside,
         PortalChanges, SeedLoads, Machinery, Orchestrator, Terminated, vars, standingVars
<1> QED
  BY <1>1, <1>2, <1>3, <1>4, <1>5 DEF Next

(* A plan that a request tests is there; it waits for the plan to share    *)
(* it, and what it records next is of a plan that is active.               *)
Testing(t) ==
  /\ pc[t] \in StandingPhases => req[t].arg \in DOMAIN standing
  /\ pc[t] = "recordContinuityTest" => want[t] = TestLocks(req[t].arg)
  /\ pc[t] = "commitTest" =>
       standing[req[t].arg].active /\ Lock(Share, StandingRow(req[t].arg)) \in held[t]

StandsInv == Shaped /\ \A t \in Requests : Testing(t)

(* A record that stands goes on standing, unless its row is written.       *)
Retires(t) ==
  /\ \A s \in DOMAIN standing :
       /\ s \in DOMAIN standing'
       /\ standing[s].active => standing'[s].active \/ \E op : Once(t, op, Lock(Write, StandingRow(s)))

(* A step of the standing records that is not one of the tests changes a   *)
(* record that stands only with its row locked, and tests nothing.         *)
LEMMA EditRetires ==
  ASSUME NEW t, NEW op, NEW kind, Save(t, op, kind) \/ Edit(t, op, kind) \/ Judge(t, op, kind)
                                    \/ SetActive(t, op, kind, TRUE) \/ SetActive(t, op, kind, FALSE)
  PROVE  Retires(t) /\ tests' = tests /\ \E lock : Once(t, op, lock)
<1>1. CASE Save(t, op, kind)  BY <1>1 DEF Save, Retires, WithRow
<1>2. CASE Edit(t, op, kind)  BY <1>2 DEF Edit, Retires
<1>3. CASE Judge(t, op, kind)  BY <1>3 DEF Judge, Retires
<1>4. CASE SetActive(t, op, kind, TRUE)  BY <1>4 DEF SetActive, Retires
<1>5. CASE SetActive(t, op, kind, FALSE)  BY <1>5 DEF SetActive, Retires
<1> QED
  BY <1>1, <1>2, <1>3, <1>4, <1>5

(* Nothing else is done to them but to test a plan.                        *)
LEMMA StandingMoves ==
  ASSUME Shaped, NEW t \in Requests, StandingStep(t)
  PROVE  \/ Retires(t) /\ tests' = tests /\ \E op, lock : Once(t, op, lock)
         \/ BeginRecordContinuityTest(t) \/ RecordContinuityTest(t) \/ CommitTest(t)
<1> USE EditRetires
<1>1. CASE SaveContextIssue(t) \/ SaveInterestedParty(t) \/ SaveLegalRequirement(t)
             \/ SaveContinuityPlan(t) \/ SaveObjective(t)
  BY <1>1 DEF SaveContextIssue, SaveInterestedParty, SaveLegalRequirement, SaveContinuityPlan, SaveObjective
<1>2. CASE UpdateContextIssue(t) \/ UpdateInterestedParty(t) \/ UpdateLegalRequirement(t) \/ UpdateContinuityPlan(t)
  BY <1>2 DEF UpdateContextIssue, UpdateInterestedParty, UpdateLegalRequirement, UpdateContinuityPlan
<1>3. CASE ReviewContext(t) \/ AssessLegalRequirement(t) \/ EvaluateObjective(t)
  BY <1>3 DEF ReviewContext, AssessLegalRequirement, EvaluateObjective
<1>4. CASE RetireContext(t) \/ ReactivateContext(t) \/ RetireLegalRequirement(t) \/ ReactivateLegalRequirement(t)
             \/ RetireContinuityPlan(t) \/ ReactivateContinuityPlan(t)
  BY <1>4 DEF RetireContext, ReactivateContext, RetireLegalRequirement, ReactivateLegalRequirement,
              RetireContinuityPlan, ReactivateContinuityPlan
<1> QED
  BY <1>1, <1>2, <1>3, <1>4 DEF StandingStep

(* What a request tests goes on standing, for nobody can write its row.    *)
LEMMA TestingStays ==
  ASSUME NEW s \in Requests, Testing(s), NEW t, Retires(t) \/ standing' = standing,
         pc'[s] = pc[s], req'[s] = req[s], held[s] \subseteq held'[s], Len(want[s]) <= 1 => want'[s] = want[s]
  PROVE  Testing(s)'
<1>1. PICK arg : arg = req[s].arg /\ arg = req'[s].arg
  OBVIOUS
<1>2. Len(TestLocks(arg)) <= 1
  BY DEF TestLocks
<1>3. pc[s] = "recordContinuityTest" => want'[s] = TestLocks(arg)
  BY <1>1, <1>2 DEF Testing
<1>4. pc[s] \in StandingPhases => arg \in DOMAIN standing'
  BY <1>1 DEF Testing, Retires
<1>5. ASSUME pc[s] = "commitTest" PROVE standing'[arg].active
  <2>1. arg \in DOMAIN standing /\ standing[arg].active /\ Lock(Share, StandingRow(arg)) \in held[s]
    BY <1>1, <1>5 DEF Testing, StandingPhases
  <2>2. ~\E op : Once(t, op, Lock(Write, StandingRow(arg)))
    BY <2>1 DEF Once, Conflict, Lock, Share, Write, Update
  <2> QED
    BY <2>1, <2>2 DEF Retires
<1> QED
  BY <1>1, <1>3, <1>4, <1>5 DEF Testing

(* The tests that are new after a step are of plans that stand.            *)
TestsStand == \A x \in DOMAIN tests' \ DOMAIN tests : standing[tests'[x]].active

(* Every step keeps what is tested standing, and records a test only of a  *)
(* plan that stands.                                                       *)
LEMMA StandsKept ==
  ASSUME StandsInv, [Next]_vars
  PROVE  StandsInv' /\ TestsStand
<1>0. Shaped /\ \A t \in Requests : Testing(t)
  BY DEF StandsInv
<1>1. CASE UNCHANGED <<standing, tests>> /\ Elsewhere(StandingPhases)
  <2>1. ASSUME NEW s \in Requests, pc'[s] \in StandingPhases PROVE Testing(s)'
    BY <1>0, <1>1, <2>1, TestingStays DEF Elsewhere
  <2>2. ASSUME NEW s \in Requests, pc'[s] \notin StandingPhases PROVE Testing(s)'
    BY <2>2 DEF Testing, StandingPhases
  <2> QED
    BY <1>1, <2>1, <2>2 DEF StandsInv, TestsStand, Elsewhere
<1>2. ASSUME NEW t \in Requests, StandingStep(t), Passes(t, StandingPhases)
      PROVE  StandsInv' /\ TestsStand
  <2>1. ASSUME Retires(t) \/ standing' = standing, NEW s \in Requests \ {t} PROVE Testing(s)'
    <3>1. pc'[s] = pc[s] /\ req'[s] = req[s] /\ held[s] \subseteq held'[s] /\ want'[s] = want[s]
      BY <1>2 DEF Passes, OnlyMoves
    <3> QED
      BY <1>0, <2>1, <3>1, TestingStays
  <2>2. ASSUME pc'[t] = "done" PROVE Testing(t)'
    BY <2>2 DEF Testing, StandingPhases
  <2>3. CASE Retires(t) /\ tests' = tests /\ \E op, lock : Once(t, op, lock)
    BY <1>0, <1>2, <2>1, <2>2, <2>3, OnceMoves DEF StandsInv, TestsStand, Passes, OnlyMoves
  <2>4. CASE BeginRecordContinuityTest(t)
    <3>1. PICK s \in DOMAIN standing :
            Begin(t, "recordContinuityTest", s, "recordContinuityTest", TestLocks(s))
      BY <2>4 DEF BeginRecordContinuityTest, Rows
    <3>2. Testing(t)'
      BY <1>0, <2>4, <3>1, BeginMoves DEF BeginRecordContinuityTest, Testing, standingVars
    <3> QED
      BY <1>2, <2>1, <2>4, <3>2 DEF StandsInv, TestsStand, Passes, OnlyMoves, BeginRecordContinuityTest, standingVars
  <2>5. CASE RecordContinuityTest(t)
    <3>0. PICK arg : arg = req[t].arg
      OBVIOUS
    <3>1. pc[t] = "recordContinuityTest" /\ plan' = plan /\ arg \in DOMAIN standing /\ want[t] = TestLocks(arg)
      BY <1>0, <2>5, <3>0 DEF RecordContinuityTest, At, Testing, StandingPhases
    <3>a. plan' = plan /\ Shaped
      BY <1>0, <3>1
    <3>2. ASSUME Done(t) PROVE Testing(t)'
      BY <2>2, <3>2, <3>a, DoneMoves
    <3>3. ASSUME standing[arg].active, Goto(t, "commitTest", <<>>, None) PROVE Testing(t)'
      <4>1. Lock(Share, StandingRow(arg)) \in Taken(t)
        BY <3>1, RowIsTaken DEF TestLocks
      <4>2. pc'[t] = "commitTest" /\ held'[t] = Taken(t) /\ req'[t].arg = arg
        BY <3>0, <3>3, <3>a, GotoMoves
      <4>3. standing' = standing
        BY <2>5 DEF RecordContinuityTest, standingVars
      <4> QED
        BY <3>1, <3>3, <4>1, <4>2, <4>3 DEF Testing
    <3>4. Testing(t)'
      BY <2>5, <3>0, <3>2, <3>3 DEF RecordContinuityTest
    <3> QED
      BY <1>2, <2>1, <2>5, <3>4 DEF StandsInv, TestsStand, Passes, OnlyMoves, RecordContinuityTest, standingVars
  <2>6. CASE CommitTest(t)
    <3>1. Testing(t)'
      BY <1>0, <2>2, <2>6, DoneMoves DEF CommitTest
    <3>2. TestsStand
      BY <1>0, <2>6 DEF CommitTest, At, TestsStand, Testing, WithRow
    <3> QED
      BY <1>2, <2>1, <2>6, <3>1, <3>2 DEF StandsInv, Passes, OnlyMoves, CommitTest
  <2> QED
    BY <1>0, <1>2, <2>3, <2>4, <2>5, <2>6, StandingMoves
<1> QED
  BY <1>0, <1>1, <1>2, StandingSteps

-----------------------------------------------------------------------------
(* Acceptances: what a risk is accepted with.                              *)

(* Two requests hold no locks that exclude each other.                     *)
LEMMA HeldApart ==
  ASSUME LocksApart, NEW s \in Requests, NEW t \in Requests, s # t,
         NEW row, NEW m \in Modes, NEW n \in Modes, Conflict(m, n), Lock(m, row) \in held[s], Lock(n, row) \in held[t]
  PROVE  FALSE
<1>1. Lock(m, row)[1] = m /\ Lock(n, row)[1] = n /\ Lock(m, row)[2] = Lock(n, row)[2]
  BY DEF Lock
<1> QED
  BY <1>1 DEF LocksApart, Compatible

DecidingPhases == RegisterPhases \cup DecisionPhases

(* A step is one of the register or the decisions, or leaves evaluations   *)
(* and acceptances alone.                                                  *)
LEMMA DecidingSteps ==
  ASSUME Shaped, BatchesKept, [Next]_vars
  PROVE  \/ \E t \in Requests : RegisterStep(t) /\ Passes(t, RegisterPhases) /\ acceptances' = acceptances
         \/ \E t \in Requests : DecisionStep(t) /\ Passes(t, DecisionPhases) /\ evaluations' = evaluations
         \/ UNCHANGED <<evaluations, acceptances>> /\ Elsewhere(DecidingPhases)
<1> DEFINE Apart == Elsewhere(DecidingPhases)
           Same == UNCHANGED <<evaluations, acceptances>>
<1>1. ASSUME NEW t \in Requests, Shared(t) \/ Files(t) \/ Applications(t) \/ Organisation(t) \/ Policies(t)
                                 \/ Work(t) \/ ChangeControl(t) \/ Incident(t)
      PROVE  Same
  BY <1>1, ApplicationsImports, WorkImports, ChangeControlImports, IncidentImports
     DEF Shared, Files, Applications, Organisation, Policies, Work, ChangeControl, Incident, registerVars, decisionVars
<1>2. ASSUME NEW t \in Requests, Audit(t) \/ Journal(t) \/ Standing(t) \/ Competence(t) \/ Devices(t) \/ Steps(t)
                                 \/ Control(t) \/ Passwords(t)
      PROVE  Same
  BY <1>2
     DEF Audit, Journal, Standing, Competence, Devices, Steps, Control, Passwords, registerVars, decisionVars
<1>3. ASSUME NEW t \in Requests, Files(t) \/ Applications(t) \/ Organisation(t) \/ Policies(t) \/ Work(t)
                                 \/ ChangeControl(t) \/ Incident(t)
      PROVE  Apart
  BY <1>3, PassesElsewhere, FilesPasses, ApplicationsPasses, OrganisationPasses, ChartPasses, PoliciesPasses,
     WorkPasses, ChangeControlPasses, IncidentPasses
     DEF DecidingPhases, RegisterPhases, DecisionPhases, Files, FilesPhases, Applications, ApplicationsPhases,
         Organisation, OrganisationPhases, ChartPhases, Policies, PoliciesPhases, Work, WorkPhases,
         ChangeControl, ChangeControlPhases, Incident, IncidentPhases
<1>4. ASSUME NEW t \in Requests, Audit(t) \/ Journal(t) \/ Standing(t) \/ Competence(t) \/ Devices(t) \/ Steps(t)
                                 \/ Control(t) \/ Passwords(t)
      PROVE  Apart
  BY <1>4, PassesElsewhere, AuditPasses, JournalPasses, StandingPasses, CompetencePasses, DevicesPasses,
     StepsPasses, ControlPasses, PasswordsPasses
     DEF DecidingPhases, RegisterPhases, DecisionPhases, Audit, AuditPhases, Journal, JournalPhases,
         Standing, StandingPhases, Competence, CompetencePhases, Devices, DevicesPhases, Steps, StepsPhases,
         Control, ControlPhases, Passwords, PasswordsPhases
<1>5. ASSUME NEW t \in Requests, Shared(t)
      PROVE  Apart
  BY <1>5, SharedElsewhere DEF DecidingPhases, RegisterPhases, DecisionPhases
<1>6. ASSUME NEW t \in Requests, Register(t)
      PROVE  RegisterStep(t) /\ Passes(t, RegisterPhases) /\ acceptances' = acceptances
  BY <1>6, RegisterPasses DEF Register, decisionVars
<1>7. ASSUME NEW t \in Requests, Decision(t)
      PROVE  DecisionStep(t) /\ Passes(t, DecisionPhases) /\ evaluations' = evaluations
  BY <1>7, DecisionPasses, DecisionImports DEF Decision
<1>8. ASSUME TimePasses \/ Outside \/ Machinery \/ Terminated \/ UNCHANGED vars
      PROVE  Same /\ Apart
  BY <1>8, RestElsewhere
     DEF TimePasses, ExpireException, ReviewDayComes, EntryFallsDue, DayPasses, DeviationLapses, Outside,
         PortalChanges, SeedLoads, Machinery, Orchestrator, Terminated, vars, registerVars, decisionVars
<1> QED
  BY <1>1, <1>2, <1>3, <1>4, <1>5, <1>6, <1>7, <1>8 DEF Next

(* Who adds an evaluation keeps everybody from freezing their table; who   *)
(* accepts a risk keeps everybody from adding one, and from accepting the  *)
(* same.                                                                   *)
AddsLock == Lock(Inserting, EvaluationTable)
FreezesLock == Lock(Frozen, EvaluationTable)

Evaluating(t) ==
  /\ pc[t] = "insertSnapshot" =>
       \E lock : want[t] = <<AddsLock, lock>> \/ (want[t] = <<lock>> /\ AddsLock \in held[t])
  /\ pc[t] = "commitSnapshot" => AddsLock \in held[t]

AcceptingPhases == {"approveAcceptance", "acceptSnapshot", "recordAcceptance"}

(* An acceptance that is about to be recorded is of the newest             *)
(* evaluations, and a measure has not made the risk worse.                 *)
ToBeAccepted(asked, day) ==
  /\ <<asked.residual, asked.inherent>> \in ToAccept(asked.risk, day)
  /\ evaluations[asked.residual].level <= evaluations[asked.inherent].level

AcceptsOnce(t, asked) ==
  /\ OperationLock("acceptRisk", asked) \in held[t]
  /\ \A x \in DOMAIN acceptances : acceptances[x].asked # asked

Accepting(t) ==
  /\ pc[t] = "acceptOperation" => want[t] = <<OperationLock("acceptRisk", req[t].arg)>>
  /\ pc[t] \in AcceptingPhases => AcceptsOnce(t, req[t].arg)
  /\ pc[t] = "approveAcceptance" => want[t] = <<FreezesLock>>
  /\ pc[t] \in {"acceptSnapshot", "recordAcceptance"} => FreezesLock \in held[t]
  /\ pc[t] = "recordAcceptance" =>
       /\ req[t].saw = [day |-> req[t].saw.day, version |-> req[t].saw.version]
       /\ ToBeAccepted(req[t].arg, req[t].saw.day)

AcceptsInv == RegisterInv /\ \A t \in Requests : Evaluating(t) /\ Accepting(t)

(* Nothing else is done with evaluations and acceptances.                  *)
LEMMA RegisterEvaluates ==
  ASSUME Shaped, NEW t \in Requests, RegisterStep(t)
  PROVE  \/ evaluations' = evaluations /\ pc'[t] \notin {"insertSnapshot", "commitSnapshot"}
         \/ AddRiskSnapshot(t) \/ InsertSnapshot(t) \/ CommitSnapshot(t)
<1> USE BeginMoves, GotoMoves, DoneMoves DEF registerVars, At
<1>1. CASE BeginImportAssets(t)  BY <1>1 DEF BeginImportAssets, BeginImport
<1>2. CASE ExamineAssets(t)  BY <1>2 DEF ExamineAssets, Refused
<1>3. CASE InsertAssets(t)  BY <1>3 DEF InsertAssets, Imported, Refused
<1>4. CASE BeginImportRisks(t)  BY <1>4 DEF BeginImportRisks, BeginImport
<1>5. CASE ExamineRisks(t)
  <2>1. plan' = plan /\ evaluations' = evaluations
    BY <1>5 DEF ExamineRisks, Refused
  <2>2. CASE Done(t)
    BY <2>1, <2>2
  <2>3. CASE ~Done(t)
    <3>1. PICK locks : Goto(t, "insertRisks", locks, None)
      BY <1>5, <2>3, Zenon DEF ExamineRisks, Refused
    <3> QED
      BY <2>1, <3>1
  <2> QED
    BY <2>2, <2>3
<1>6. CASE InsertRisks(t)  BY <1>6 DEF InsertRisks, Refused
<1>7. CASE CommitRisks(t)  BY <1>7 DEF CommitRisks, Imported
<1>8. CASE BeginUndoAssets(t)  BY <1>8 DEF BeginUndoAssets, BeginUndo
<1>9. CASE UndoAssets(t)  BY <1>9 DEF UndoAssets, Refused, Undone
<1>10. CASE BeginUndoRisks(t)  BY <1>10 DEF BeginUndoRisks, BeginUndo
<1>11. CASE UndoRisks(t)  BY <1>11 DEF UndoRisks, Refused, Undone
<1>12. CASE BeginSaveAsset(t)  BY <1>12 DEF BeginSaveAsset
<1>13. CASE SaveAsset(t)  BY <1>13 DEF SaveAsset
<1>14. CASE BeginSaveRisk(t)  BY <1>14 DEF BeginSaveRisk
<1>15. CASE SaveRisk(t)  BY <1>15 DEF SaveRisk
<1>16. CASE CommitRisk(t)  BY <1>16 DEF CommitRisk
<1>17. CASE BeginAddRiskSnapshot(t)  BY <1>17 DEF BeginAddRiskSnapshot
<1> QED BY <1>1, <1>2, <1>3, <1>4, <1>5, <1>6, <1>7, <1>8, <1>9, <1>10, <1>11, <1>12, <1>13, <1>14,
      <1>15, <1>16, <1>17 DEF RegisterStep

(* A step of the decisions evaluates nothing, and records an acceptance in *)
(* one place.                                                              *)
LEMMA DecisionAccepts ==
  ASSUME Shaped, NEW t \in Requests, DecisionStep(t)
  PROVE  \/ acceptances' = acceptances /\ pc'[t] \notin AcceptingPhases \cup {"acceptOperation"}
         \/ AcceptRisk(t) \/ AcceptOperation(t) \/ ApproveAcceptance(t) \/ AcceptSnapshot(t) \/ RecordAcceptance(t)
<1> USE BeginMoves, GotoMoves, DoneMoves DEF decisionVars, At, AcceptingPhases
<1>1. CASE BeginAcceptRisk(t)  BY <1>1 DEF BeginAcceptRisk
<1>2. CASE BeginRequestDeviation(t)  BY <1>2 DEF BeginRequestDeviation
<1>3. CASE RequestDeviation(t)  BY <1>3 DEF RequestDeviation
<1>4. CASE InsertDeviation(t)  BY <1>4 DEF InsertDeviation
<1>5. CASE LinkDeviation(t)  BY <1>5 DEF LinkDeviation
<1>6. CASE CommitDeviation(t)  BY <1>6 DEF CommitDeviation
<1>7. CASE BeginDecideDeviation(t)  BY <1>7 DEF BeginDecideDeviation
<1>8. CASE DecideDeviation(t)  BY <1>8 DEF DecideDeviation
<1> QED BY <1>1, <1>2, <1>3, <1>4, <1>5, <1>6, <1>7, <1>8 DEF DecisionStep

(* What is right of a request that stays where it is goes on being right   *)
(* while the evaluations do, and nobody accepts the same.                  *)
LEMMA EvaluatingStays ==
  ASSUME NEW s \in Requests, Evaluating(s), pc'[s] = pc[s], held[s] \subseteq held'[s], Waits(s)
  PROVE  Evaluating(s)'
<1>1. CASE held'[s] = held[s] /\ want'[s] = want[s]
  BY <1>1 DEF Evaluating
<1>2. CASE Len(want[s]) > 1 /\ held'[s] = held[s] \cup {Head(want[s])} /\ want'[s] = Tail(want[s])
  <2>1. \A l : Len(<<l>>) = 1
    OBVIOUS
  <2>2. \A l, m : Head(<<l, m>>) = l /\ Tail(<<l, m>>) = <<m>>
    OBVIOUS
  <2>3. CASE pc[s] = "insertSnapshot"
    <3>0. ASSUME NEW lock, want[s] = <<lock>> PROVE FALSE
      <4>1. Len(want[s]) = 1
        BY <2>1, <3>0
      <4> QED
        BY <1>2, <4>1
    <3>1. PICK lock : want[s] = <<AddsLock, lock>>
      BY <2>3, <3>0 DEF Evaluating
    <3>2. AddsLock \in held'[s] /\ want'[s] = <<lock>>
      BY <1>2, <2>2, <3>1
    <3> QED
      BY <2>3, <3>2 DEF Evaluating
  <2> QED
    BY <1>2, <2>3 DEF Evaluating
<1> QED
  BY <1>1, <1>2 DEF Waits

(* So does what is right of a request that is accepting a risk.            *)
LEMMA AcceptingStays ==
  ASSUME NEW s \in Requests, Accepting(s),
         pc'[s] = pc[s], req'[s] = req[s], held[s] \subseteq held'[s], Len(want[s]) <= 1 => want'[s] = want[s],
         pc[s] = "recordAcceptance" => evaluations' = evaluations,
         pc[s] \in AcceptingPhases => \A x \in DOMAIN acceptances' :
           acceptances'[x].asked # req[s].arg \/ (x \in DOMAIN acceptances /\ acceptances'[x] = acceptances[x])
  PROVE  Accepting(s)'
<1>1. PICK arg, saw : arg = req[s].arg /\ saw = req[s].saw
  OBVIOUS
<1>2. req'[s].arg = arg /\ req'[s].saw = saw
  BY <1>1
<1>3. \A l : Len(<<l>>) <= 1
  OBVIOUS
<1>4. pc[s] = "acceptOperation" => want'[s] = <<OperationLock("acceptRisk", arg)>>
  BY <1>1, <1>3 DEF Accepting
<1>5. pc[s] = "approveAcceptance" => want'[s] = <<FreezesLock>>
  BY <1>3 DEF Accepting
<1>6. pc[s] \in AcceptingPhases => AcceptsOnce(s, arg)'
  BY <1>1 DEF Accepting, AcceptsOnce
<1>7. ASSUME pc[s] = "recordAcceptance" PROVE ToBeAccepted(arg, saw.day)'
  BY <1>1, <1>7 DEF Accepting, ToBeAccepted, ToAccept, NewestEvaluation, EvaluationsOf, Later
<1>8. pc[s] = "recordAcceptance" => saw = [day |-> saw.day, version |-> saw.version]
  BY <1>1 DEF Accepting
<1>9. pc[s] \in {"acceptSnapshot", "recordAcceptance"} => FreezesLock \in held'[s]
  BY DEF Accepting
<1> QED
  BY <1>2, <1>4, <1>5, <1>6, <1>7, <1>8, <1>9 DEF Accepting

(* The step of an evaluation: while one is added nobody has the table      *)
(* frozen.                                                                 *)
LEMMA EvaluationsKept ==
  ASSUME AcceptsInv, NEW t \in Requests, RegisterStep(t), Passes(t, RegisterPhases), acceptances' = acceptances
  PROVE  \A s \in Requests : Evaluating(s)' /\ Accepting(s)'
<1>0. Shaped /\ LocksApart /\ (\A s \in Requests : Evaluating(s) /\ Accepting(s)) /\ plan' = plan
  BY DEF AcceptsInv, RegisterInv, LocksInv, Passes, OnlyMoves
<1>1. pc'[t] \notin AcceptingPhases \cup {"acceptOperation"}
  BY DEF Passes, RegisterPhases, AcceptingPhases
<1>2. Accepting(t)'
  BY <1>1 DEF Accepting, AcceptingPhases
<1>3. ASSUME NEW s \in Requests, s # t, pc[s] = "recordAcceptance" PROVE evaluations' = evaluations
  <2>1. FreezesLock \in held[s]
    BY <1>0, <1>3 DEF Accepting
  <2>2. ~CommitSnapshot(t)
    <3>1. ASSUME CommitSnapshot(t) PROVE AddsLock \in held[t]
      BY <1>0, <3>1 DEF CommitSnapshot, At, Evaluating
    <3>2. Inserting \in Modes /\ Frozen \in Modes /\ Conflict(Frozen, Inserting)
      BY DEF Modes, Conflict, Update, Inserting, Frozen
    <3> QED
      BY <1>0, <1>3, <2>1, <3>1, <3>2, HeldApart DEF AddsLock, FreezesLock
  <2> QED
    BY <1>0, <2>2, RegisterEvaluates DEF AddRiskSnapshot, InsertSnapshot, registerVars
<1>4. ASSUME NEW s \in Requests \ {t} PROVE Evaluating(s)' /\ Accepting(s)'
  <2>1. pc'[s] = pc[s] /\ req'[s] = req[s] /\ held'[s] = held[s] /\ want'[s] = want[s]
    BY DEF Passes, OnlyMoves
  <2>2. Waits(s)
    BY <2>1 DEF Waits
  <2> QED
    BY <1>0, <1>3, <2>1, <2>2, EvaluatingStays, AcceptingStays
<1>5. Evaluating(t)'
  <2>1. CASE pc'[t] \notin {"insertSnapshot", "commitSnapshot"}
    BY <2>1 DEF Evaluating
  <2>2. CASE AddRiskSnapshot(t)
    <3>1. PICK lock : Done(t) \/ Goto(t, "insertSnapshot", <<AddsLock, lock>>, None)
      BY <2>2 DEF AddRiskSnapshot, AddsLock
    <3>2. pc'[t] = "done" \/ (pc'[t] = "insertSnapshot" /\ want'[t] = <<AddsLock, lock>>)
      BY <1>0, <3>1, DoneMoves, GotoMoves
    <3> QED
      BY <3>2 DEF Evaluating
  <2>3. CASE InsertSnapshot(t)
    <3>0. PICK locks : locks = want[t]
      OBVIOUS
    <3>1. PICK lock : locks = <<AddsLock, lock>> \/ (locks = <<lock>> /\ AddsLock \in held[t])
      BY <1>0, <2>3, <3>0 DEF InsertSnapshot, At, Evaluating
    <3>2. Len(locks) <= 1
      BY <2>3, <3>0 DEF InsertSnapshot, At, Granted
    <3>3. Len(<<AddsLock, lock>>) = 2
      OBVIOUS
    <3>4. AddsLock \in Taken(t)
      BY <3>1, <3>2, <3>3 DEF Taken
    <3>5. pc'[t] = "commitSnapshot" /\ held'[t] = Taken(t)
      BY <1>0, <2>3, GotoMoves DEF InsertSnapshot
    <3> QED
      BY <3>4, <3>5 DEF Evaluating
  <2>4. CASE CommitSnapshot(t)
    <3>1. pc'[t] = "done"
      BY <1>0, <2>4, DoneMoves DEF CommitSnapshot
    <3> QED
      BY <3>1 DEF Evaluating
  <2> QED
    BY <1>0, <2>1, <2>2, <2>3, <2>4, RegisterEvaluates
<1> QED
  BY <1>2, <1>4, <1>5

(* The acceptances that are new after a step are of what is newest then.   *)
AcceptedNew ==
  \A x \in DOMAIN acceptances' \ DOMAIN acceptances :
    /\ ToBeAccepted(acceptances'[x].asked, acceptances'[x].day)
    /\ \A y \in DOMAIN acceptances : acceptances[y].asked # acceptances'[x].asked

(* A step of an acceptance.                                                *)
LEMMA AcceptancesKept ==
  ASSUME AcceptsInv, NEW t \in Requests, DecisionStep(t), Passes(t, DecisionPhases), evaluations' = evaluations
  PROVE  AcceptedNew /\ \A s \in Requests : Evaluating(s)' /\ Accepting(s)'
<1>0. Shaped /\ LocksApart /\ (\A s \in Requests : Evaluating(s) /\ Accepting(s)) /\ plan' = plan
  BY DEF AcceptsInv, RegisterInv, LocksInv, Passes, OnlyMoves
<1>1. pc'[t] \notin {"insertSnapshot", "commitSnapshot"}
  BY DEF Passes, DecisionPhases
<1>2. Evaluating(t)'
  BY <1>1 DEF Evaluating
<1> DEFINE Recorded(asked, x) ==
      acceptances'[x].asked = asked \/ (x \in DOMAIN acceptances /\ acceptances'[x] = acceptances[x])
<1>3. ASSUME acceptances' = acceptances PROVE AcceptedNew /\ \A x \in DOMAIN acceptances' : \A asked : Recorded(asked, x)
  BY <1>3 DEF AcceptedNew
<1>4. ASSUME RecordAcceptance(t)
      PROVE  /\ AcceptedNew /\ AcceptsOnce(t, req[t].arg)
             /\ \A x \in DOMAIN acceptances' : Recorded(req[t].arg, x)
  <2>1. PICK asked, saw : asked = req[t].arg /\ saw = req[t].saw
    OBVIOUS
  <2>2. /\ AcceptsOnce(t, asked) /\ ToBeAccepted(asked, saw.day)
        /\ saw = [day |-> saw.day, version |-> saw.version]
    BY <1>0, <1>4, <2>1 DEF RecordAcceptance, At, Accepting, AcceptingPhases
  <2>3. PICK new : new = Over([asked |-> asked], saw)
    OBVIOUS
  <2>4. new.asked = asked /\ new.day = saw.day
    BY <2>2, <2>3 DEF Over
  <2>5. acceptances' = acceptances \/ acceptances' = WithRow(acceptances, t, new)
    BY <1>4, <2>1, <2>3 DEF RecordAcceptance
  <2>6. \A x \in DOMAIN acceptances' : \/ x \in DOMAIN acceptances /\ acceptances'[x] = acceptances[x]
                                       \/ acceptances'[x] = new
    BY <2>5 DEF WithRow
  <2> QED
    BY <2>1, <2>2, <2>4, <2>6 DEF AcceptedNew, AcceptsOnce
<1>5. ASSUME NEW s \in Requests \ {t}, pc[s] \in AcceptingPhases, AcceptsOnce(t, req[t].arg)
      PROVE  req[s].arg # req[t].arg
  <2>1. AcceptsOnce(s, req[s].arg)
    BY <1>0, <1>5 DEF Accepting
  <2>2. Update \in Modes /\ Conflict(Update, Update)
    BY DEF Modes, Conflict, Update
  <2> QED
    BY <1>0, <1>5, <2>1, <2>2, HeldApart DEF AcceptsOnce, OperationLock
<1>6. AcceptedNew
  BY <1>0, <1>3, <1>4, DecisionAccepts DEF AcceptRisk, AcceptOperation, ApproveAcceptance, AcceptSnapshot, decisionVars
<1>7. ASSUME NEW s \in Requests \ {t} PROVE Evaluating(s)' /\ Accepting(s)'
  <2>1. pc'[s] = pc[s] /\ req'[s] = req[s] /\ held'[s] = held[s] /\ want'[s] = want[s]
    BY DEF Passes, OnlyMoves
  <2>2. Waits(s)
    BY <2>1 DEF Waits
  <2>3. ASSUME pc[s] \in AcceptingPhases
        PROVE  \A x \in DOMAIN acceptances' :
                 acceptances'[x].asked # req[s].arg \/ (x \in DOMAIN acceptances /\ acceptances'[x] = acceptances[x])
    <3>1. CASE acceptances' = acceptances
      BY <3>1
    <3>2. CASE RecordAcceptance(t)
      BY <1>4, <1>5, <2>3, <3>2
    <3> QED
      BY <1>0, <3>1, <3>2, DecisionAccepts
         DEF AcceptRisk, AcceptOperation, ApproveAcceptance, AcceptSnapshot, decisionVars
  <2> QED
    BY <1>0, <2>1, <2>2, <2>3, EvaluatingStays, AcceptingStays
<1>8. Accepting(t)'
  <2>0. ASSUME pc'[t] \notin AcceptingPhases \cup {"acceptOperation"} PROVE Accepting(t)'
    BY <2>0 DEF Accepting, AcceptingPhases
  <2>a. ASSUME Done(t) PROVE Accepting(t)'
    BY <1>0, <2>0, <2>a, DoneMoves DEF AcceptingPhases
  <2>b. PICK asked : asked = req[t].arg
    OBVIOUS
  <2>c. ASSUME NEW phase, NEW locks, NEW saw, Goto(t, phase, locks, saw)
        PROVE  pc'[t] = phase /\ want'[t] = locks /\ held'[t] = Taken(t) /\ req'[t].arg = asked /\ req'[t].saw = saw
    BY <1>0, <2>b, <2>c, GotoMoves
  <2>1. CASE AcceptRisk(t)
    <3>1. CASE Goto(t, "acceptOperation", <<OperationLock("acceptRisk", asked)>>, today)
      BY <2>c, <3>1 DEF Accepting, AcceptingPhases
    <3> QED
      BY <2>1, <2>a, <2>b, <3>1 DEF AcceptRisk
  <2>2. CASE AcceptOperation(t)
    <3>1. ASSUME \A x \in DOMAIN acceptances : acceptances[x].asked # asked,
                 Goto(t, "approveAcceptance", <<FreezesLock>>, req[t].saw)
          PROVE  Accepting(t)'
      <4>1. want[t] = <<OperationLock("acceptRisk", asked)>> /\ acceptances' = acceptances
        BY <1>0, <2>2, <2>b DEF AcceptOperation, At, Accepting, decisionVars
      <4>2. OperationLock("acceptRisk", asked) \in Taken(t)
        BY <4>1, RowIsTaken
      <4>3. AcceptsOnce(t, asked)'
        BY <2>c, <3>1, <4>1, <4>2 DEF AcceptsOnce
      <4> QED
        BY <2>c, <3>1, <4>3 DEF Accepting, AcceptingPhases
    <3> QED
      BY <2>2, <2>a, <2>b, <3>1 DEF AcceptOperation, FreezesLock
  <2>d. ASSUME AcceptsOnce(t, asked), acceptances' = acceptances, held'[t] = Taken(t) PROVE AcceptsOnce(t, asked)'
    BY <2>d DEF AcceptsOnce, Taken
  <2>3. CASE ApproveAcceptance(t)
    <3>1. PICK locks, saw : Done(t) \/ Goto(t, "acceptSnapshot", locks, saw)
      BY <2>3 DEF ApproveAcceptance
    <3>2. AcceptsOnce(t, asked) /\ want[t] = <<FreezesLock>> /\ acceptances' = acceptances
      BY <1>0, <2>3, <2>b DEF ApproveAcceptance, At, Accepting, AcceptingPhases, decisionVars
    <3>3. FreezesLock \in Taken(t)
      BY <3>2, RowIsTaken
    <3>4. CASE Goto(t, "acceptSnapshot", locks, saw)
      BY <2>c, <2>d, <3>2, <3>3, <3>4 DEF Accepting, AcceptingPhases
    <3> QED
      BY <2>a, <3>1, <3>4
  <2>4. CASE AcceptSnapshot(t)
    <3>0. PICK day : day = req[t].saw
      OBVIOUS
    <3>1. ASSUME ToBeAccepted(asked, day), NEW locks, NEW version,
                 Goto(t, "recordAcceptance", locks, [day |-> day, version |-> version])
          PROVE  Accepting(t)'
      <4>1. AcceptsOnce(t, asked) /\ FreezesLock \in held[t] /\ acceptances' = acceptances
        BY <1>0, <2>4, <2>b DEF AcceptSnapshot, At, Accepting, AcceptingPhases, decisionVars
      <4>2. FreezesLock \in Taken(t)
        BY <4>1 DEF Taken
      <4>3. ToBeAccepted(asked, day)'
        BY <3>1 DEF ToBeAccepted, ToAccept, NewestEvaluation, EvaluationsOf, Later
      <4>4. PICK saw : saw = [day |-> day, version |-> version]
        OBVIOUS
      <4>5. saw.day = day /\ saw = [day |-> saw.day, version |-> saw.version]
        BY <4>4
      <4> QED
        BY <2>c, <2>d, <3>1, <4>1, <4>2, <4>3, <4>4, <4>5 DEF Accepting, AcceptingPhases
    <3> QED
      BY <2>4, <2>a, <2>b, <3>0, <3>1 DEF AcceptSnapshot, AsShown, ToBeAccepted
  <2>5. CASE RecordAcceptance(t)
    BY <2>5, <2>a DEF RecordAcceptance
  <2> QED
    BY <1>0, <2>0, <2>1, <2>2, <2>3, <2>4, <2>5, DecisionAccepts
<1> QED
  BY <1>2, <1>6, <1>7, <1>8

(* A risk is accepted as it is.                                            *)
LEMMA AcceptsKept ==
  ASSUME AcceptsInv, [Next]_vars
  PROVE  AcceptsInv' /\ AcceptedNew
<1>0. RegisterInv /\ Shaped /\ BatchesKept /\ \A s \in Requests : Evaluating(s) /\ Accepting(s)
  BY DEF AcceptsInv, RegisterInv
<1>1. RegisterInv'
  BY <1>0, RegisterKept
<1>2. CASE UNCHANGED <<evaluations, acceptances>> /\ Elsewhere(DecidingPhases)
  <2>1. ASSUME NEW s \in Requests, pc'[s] \in DecidingPhases PROVE Evaluating(s)' /\ Accepting(s)'
    <3>1. pc'[s] = pc[s] /\ req'[s] = req[s] /\ held[s] \subseteq held'[s] /\ Waits(s)
      BY <1>2, <2>1 DEF Elsewhere
    <3>2. Len(want[s]) <= 1 => want'[s] = want[s]
      BY <1>2, <2>1 DEF Elsewhere
    <3> QED
      BY <1>0, <1>2, <3>1, <3>2, EvaluatingStays, AcceptingStays
  <2>2. ASSUME NEW s \in Requests, pc'[s] \notin DecidingPhases PROVE Evaluating(s)' /\ Accepting(s)'
    BY <2>2 DEF Evaluating, Accepting, AcceptingPhases, DecidingPhases, RegisterPhases, DecisionPhases
  <2> QED
    BY <1>1, <1>2, <2>1, <2>2 DEF AcceptsInv, AcceptedNew
<1>3. ASSUME NEW t \in Requests, RegisterStep(t), Passes(t, RegisterPhases), acceptances' = acceptances
      PROVE  AcceptsInv' /\ AcceptedNew
  BY <1>1, <1>3, EvaluationsKept DEF AcceptsInv, AcceptedNew
<1>4. ASSUME NEW t \in Requests, DecisionStep(t), Passes(t, DecisionPhases), evaluations' = evaluations
      PROVE  AcceptsInv' /\ AcceptedNew
  BY <1>1, <1>4, AcceptancesKept DEF AcceptsInv
<1> QED
  BY <1>0, <1>2, <1>3, <1>4, DecidingSteps

-----------------------------------------------------------------------------
(* Incidents: to whom one is given.                                        *)

GivingPhases == IncidentPhases \cup OrganisationPhases

(* A step is one of the incidents or the departments, or leaves incidents  *)
(* and memberships alone.                                                  *)
LEMMA GivingSteps ==
  ASSUME Shaped, BatchesKept, [Next]_vars
  PROVE  \/ \E t \in Requests : IncidentStep(t) /\ Passes(t, IncidentPhases) /\ member' = member
         \/ \E t \in Requests : OrganisationStep(t) /\ Passes(t, OrganisationPhases) /\ incident' = incident
         \/ UNCHANGED <<incident, member>> /\ Elsewhere(GivingPhases)
<1> DEFINE Apart == Elsewhere(GivingPhases)
           Same == UNCHANGED <<incident, member>>
<1>1. ASSUME NEW t \in Requests, Shared(t) \/ Files(t) \/ Register(t) \/ Applications(t) \/ Policies(t)
                                 \/ Work(t) \/ ChangeControl(t)
      PROVE  Same
  BY <1>1, ApplicationsImports, WorkImports
     DEF Shared, Files, Register, Applications, Policies, Work, ChangeControl, organisationVars
<1>2. ASSUME NEW t \in Requests, Audit(t) \/ Journal(t) \/ Standing(t) \/ Competence(t) \/ Devices(t) \/ Steps(t)
                                 \/ Control(t) \/ Passwords(t)
      PROVE  Same
  BY <1>2, JournalKeepsOrganisation
     DEF Audit, Journal, Standing, Competence, Devices, Steps, Control, Passwords, organisationVars
<1>3. ASSUME NEW t \in Requests, Decision(t)
      PROVE  Same
  <2>1. incident' = incident
    BY <1>3
       DEF Decision, DecisionStep, BeginAcceptRisk, AcceptRisk, AcceptOperation, ApproveAcceptance, AcceptSnapshot,
           RecordAcceptance, BeginRequestDeviation, RequestDeviation, InsertDeviation, LinkDeviation, CommitDeviation,
           BeginDecideDeviation, DecideDeviation
  <2> QED
    BY <1>3, <2>1, DecisionImports DEF Decision, organisationVars
<1>4. ASSUME NEW t \in Requests, Files(t) \/ Register(t) \/ Applications(t) \/ Policies(t) \/ Work(t)
                                 \/ ChangeControl(t) \/ Decision(t)
      PROVE  Apart
  BY <1>4, PassesElsewhere, FilesPasses, RegisterPasses, ApplicationsPasses, PoliciesPasses,
     WorkPasses, ChangeControlPasses, DecisionPasses
     DEF GivingPhases, IncidentPhases, OrganisationPhases, Files, FilesPhases, Register, RegisterPhases, Applications,
         ApplicationsPhases, Policies, PoliciesPhases, Work, WorkPhases, ChangeControl, ChangeControlPhases,
         Decision, DecisionPhases
<1>5. ASSUME NEW t \in Requests, Audit(t) \/ Journal(t) \/ Standing(t) \/ Competence(t) \/ Devices(t) \/ Steps(t)
                                 \/ Control(t) \/ Passwords(t)
      PROVE  Apart
  BY <1>5, PassesElsewhere, AuditPasses, JournalPasses, StandingPasses, CompetencePasses, DevicesPasses,
     StepsPasses, ControlPasses, PasswordsPasses
     DEF GivingPhases, IncidentPhases, OrganisationPhases, Audit, AuditPhases, Journal, JournalPhases,
         Standing, StandingPhases, Competence, CompetencePhases, Devices, DevicesPhases, Steps, StepsPhases,
         Control, ControlPhases, Passwords, PasswordsPhases
<1>6. ASSUME NEW t \in Requests, Shared(t)
      PROVE  Apart
  BY <1>6, SharedElsewhere DEF GivingPhases, IncidentPhases, OrganisationPhases
<1>7. ASSUME NEW t \in Requests, Organisation(t)
      PROVE  \/ OrganisationStep(t) /\ Passes(t, OrganisationPhases) /\ incident' = incident
             \/ Same /\ Apart
  <2>1. ASSUME ChartStep(t) PROVE member' = member
    BY <2>1 DEF ChartStep, BeginOrgChart, ReadNodes, ReadMemberships, ShowOrgChart, organisationVars
  <2>2. ASSUME ChartStep(t) PROVE Apart
    BY <2>2, ChartPasses, PassesElsewhere DEF ChartPhases, GivingPhases, IncidentPhases, OrganisationPhases
  <2> QED
    BY <1>7, <2>1, <2>2, OrganisationPasses DEF Organisation
<1>8. ASSUME NEW t \in Requests, Incident(t)
      PROVE  IncidentStep(t) /\ Passes(t, IncidentPhases) /\ member' = member
  BY <1>8, IncidentPasses, IncidentImports DEF Incident, organisationVars
<1>9. ASSUME TimePasses \/ Outside \/ Machinery \/ Terminated \/ UNCHANGED vars
      PROVE  Same /\ Apart
  BY <1>9, RestElsewhere
     DEF TimePasses, ExpireException, ReviewDayComes, EntryFallsDue, DayPasses, DeviationLapses, Outside,
         PortalChanges, SeedLoads, Machinery, Orchestrator, Terminated, vars, organisationVars
<1> QED
  BY <1>1, <1>2, <1>3, <1>4, <1>5, <1>6, <1>7, <1>8, <1>9 DEF Next

(* Who stops a person waits for the row of that person, and nothing else   *)
(* stops anybody.                                                          *)
Stopping(t) == pc[t] = "stop_person" => want[t] = <<Lock(Write, UserRow(req[t].arg))>>

(* Every step goes on so.                                                  *)
LEMMA StoppingKept ==
  ASSUME Shaped, \A t \in Requests : Stopping(t), [Next]_vars
  PROVE  /\ \A t \in Requests : Stopping(t)'
         /\ active' = active \/ \E t \in Requests : StopPerson(t)
<1>1. ASSUME NEW t \in Requests, NEW phases, "stop_person" \notin phases, Passes(t, phases)
      PROVE  active' = active /\ \A s \in Requests : Stopping(s)'
  BY <1>1 DEF Passes, Takes, OnlyMoves, Stopping
<1>2. ASSUME NEW t \in Requests, Files(t) \/ Register(t) \/ Applications(t) \/ Organisation(t) \/ Policies(t)
                                 \/ Work(t) \/ ChangeControl(t) \/ Incident(t) \/ Decision(t)
      PROVE  active' = active /\ \A s \in Requests : Stopping(s)'
  BY <1>1, <1>2, FilesPasses, RegisterPasses, ApplicationsPasses, OrganisationPasses, ChartPasses, PoliciesPasses,
     WorkPasses, ChangeControlPasses, IncidentPasses, DecisionPasses
     DEF Files, FilesPhases, Register, RegisterPhases, Applications, ApplicationsPhases, Organisation,
         OrganisationPhases, ChartPhases, Policies, PoliciesPhases, Work, WorkPhases, ChangeControl,
         ChangeControlPhases, Incident, IncidentPhases, Decision, DecisionPhases
<1>3. ASSUME NEW t \in Requests, Audit(t) \/ Journal(t) \/ Standing(t) \/ Competence(t) \/ Devices(t) \/ Steps(t)
                                 \/ Control(t) \/ Passwords(t)
      PROVE  active' = active /\ \A s \in Requests : Stopping(s)'
  BY <1>1, <1>3, AuditPasses, JournalPasses, StandingPasses, CompetencePasses, DevicesPasses, StepsPasses,
     ControlPasses, PasswordsPasses
     DEF Audit, AuditPhases, Journal, JournalPhases, Standing, StandingPhases, Competence, CompetencePhases,
         Devices, DevicesPhases, Steps, StepsPhases, Control, ControlPhases, Passwords, PasswordsPhases
<1>4. ASSUME NEW t \in Requests, Shared(t)
      PROVE  /\ \A s \in Requests : Stopping(s)'
             /\ active' = active \/ StopPerson(t)
  <2>0. ASSUME OnlyMoves(t), Stopping(t)' PROVE \A s \in Requests : Stopping(s)'
    BY <2>0 DEF OnlyMoves, Stopping
  <2>1. CASE TakeLock(t)
    <3>1. \A l : Len(<<l>>) = 1
      OBVIOUS
    <3>2. OnlyMoves(t) /\ active' = active /\ pc'[t] = pc[t]
      BY <2>1 DEF TakeLock, OnlyMoves, Shaped
    <3>3. pc[t] # "stop_person"
      <4>1. SUFFICES ASSUME pc[t] = "stop_person" PROVE FALSE
        OBVIOUS
      <4>2. Len(want[t]) = 1
        BY <3>1, <4>1 DEF Stopping
      <4> QED
        BY <2>1, <4>2 DEF TakeLock
    <3> QED
      BY <2>0, <3>2, <3>3 DEF Stopping
  <2>2. CASE DeadlockAbort(t)
    BY <2>0, <2>2, DoneMoves DEF DeadlockAbort, Stopping
  <2>3. CASE BeginStopPerson(t)
    BY <2>0, <2>3, BeginMoves DEF BeginStopPerson, Stopping, UserRow
  <2>4. CASE StopPerson(t)
    BY <2>0, <2>4, DoneMoves DEF StopPerson, Stopping
  <2> QED
    BY <1>4, <2>1, <2>2, <2>3, <2>4 DEF Shared
<1>5. ASSUME TimePasses \/ Outside \/ Machinery \/ Terminated \/ UNCHANGED vars
      PROVE  active' = active /\ UNCHANGED requestVars
  BY <1>5
     DEF TimePasses, ExpireException, ReviewDayComes, EntryFallsDue, DayPasses, DeviationLapses, Outside,
         PortalChanges, SeedLoads, Machinery, Orchestrator, Terminated, vars
<1>6. UNCHANGED requestVars => \A s \in Requests : Stopping(s)'
  BY DEF requestVars, Stopping
<1> QED
  BY <1>2, <1>3, <1>4, <1>5, <1>6 DEF Next

-----------------------------------------------------------------------------
(* The locks that a request has or waits for.                              *)
Claims(t) == held[t] \cup ToSet(want[t])

(* It waits for them one after another.                                    *)
Queued(t) == want[t] \in Seq(ToSet(want[t]))

(* The first of a sequence and the rest are all of it.                     *)
LEMMA FirstAndRest ==
  ASSUME NEW S, NEW w \in Seq(S), Len(w) > 1
  PROVE  ToSet(w) = {Head(w)} \cup ToSet(Tail(w))
<1>1. w # <<>> /\ DOMAIN w = 1..Len(w) /\ DOMAIN Tail(w) = 1..(Len(w) - 1) /\ Head(w) = w[1] /\ Len(w) \in Nat
  OBVIOUS
<1>2. \A i \in 1..(Len(w) - 1) : Tail(w)[i] = w[i + 1] /\ i + 1 \in 1..Len(w)
  OBVIOUS
<1>3. ASSUME NEW i \in 1..Len(w), i # 1 PROVE i - 1 \in 1..(Len(w) - 1) /\ w[i] = Tail(w)[i - 1]
  BY <1>2, <1>3
<1>4. 1 \in 1..Len(w)
  BY <1>1
<1>5. ToSet(w) \subseteq {Head(w)} \cup ToSet(Tail(w))
  BY <1>1, <1>3 DEF ToSet
<1>6. {Head(w)} \cup ToSet(Tail(w)) \subseteq ToSet(w)
  BY <1>1, <1>2, <1>4 DEF ToSet
<1> QED
  BY <1>5, <1>6

(* While it waits it gets nothing else, and loses nothing.                 *)
LEMMA ClaimsStay ==
  ASSUME NEW s \in Requests, Waits(s), Queued(s)
  PROVE  Queued(s)' /\ Claims(s)' = Claims(s) /\ held[s] \subseteq held'[s]
<1>1. CASE held'[s] = held[s] /\ want'[s] = want[s]
  BY <1>1 DEF Queued, Claims
<1>2. CASE Len(want[s]) > 1 /\ held'[s] = held[s] \cup {Head(want[s])} /\ want'[s] = Tail(want[s])
  <2>1. PICK all : all = ToSet(want[s])
    OBVIOUS
  <2>2. PICK w \in Seq(all) : w = want[s]
    BY <2>1 DEF Queued
  <2>3. PICK n \in Nat : n = Len(w) /\ n > 1
    BY <1>2, <2>2
  <2>4. ToSet(w) = {Head(w)} \cup ToSet(Tail(w))
    BY <2>2, <2>3, FirstAndRest
  <2>5. Tail(w) \in Seq(ToSet(Tail(w)))
    <3>1. Tail(w) \in Seq(all) /\ Len(Tail(w)) = n - 1 /\ n - 1 \in Nat
      BY <2>2, <2>3
    <3>2. PICK rest \in Seq(all) : rest = Tail(w)
      BY <3>1
    <3>3. rest \in [1..Len(rest) -> all]
      OBVIOUS
    <3>4. Tail(w) \in [1..(n - 1) -> all] /\ n - 1 \in Nat
      BY <3>1, <3>2, <3>3
    <3>5. Tail(w) \in [1..(n - 1) -> ToSet(Tail(w))]
      BY <3>4 DEF ToSet
    <3> QED
      BY <3>4, <3>5, IsSeq
  <2> QED
    BY <1>2, <2>1, <2>2, <2>4, <2>5 DEF Queued, Claims
<1> QED
  BY <1>1, <1>2 DEF Waits

(* What has one element has no other.                                      *)
LEMMA OnlyFirst ==
  ASSUME NEW S, NEW w \in Seq(S), Len(w) = 1
  PROVE  w # <<>> /\ ToSet(w) = {Head(w)}
<1>1. w # <<>> /\ DOMAIN w = 1..1 /\ Head(w) = w[1]
  OBVIOUS
<1>2. 1..1 = {1}
  OBVIOUS
<1> QED
  BY <1>1, <1>2 DEF ToSet

(* When it goes on it has all of them.                                     *)
LEMMA ClaimsTaken ==
  ASSUME NEW t, Queued(t), Granted(t)
  PROVE  Claims(t) \subseteq Taken(t) /\ held[t] \subseteq Taken(t)
<1>1. PICK w \in Seq(ToSet(want[t])) : w = want[t]
  BY DEF Queued
<1>2. PICK n \in Nat : n = Len(w) /\ DOMAIN w = 1..n /\ n <= 1
  BY <1>1 DEF Granted
<1>3. CASE n = 0
  <2>1. 1..n = {}
    BY <1>3
  <2> QED
    BY <1>1, <1>2, <2>1 DEF Claims, Taken, ToSet
<1>4. CASE n = 1
  <2>1. w # <<>> /\ ToSet(w) = {Head(w)}
    BY <1>1, <1>2, <1>4, OnlyFirst
  <2> QED
    BY <1>1, <2>1 DEF Claims, Taken
<1> QED
  BY <1>2, <1>3, <1>4

(* The locks of rows are waited for one after another.                     *)
LEMMA RowsQueued ==
  ASSUME NEW S, IsFiniteSet(S), NEW order \in SetToSeqs(S), NEW Locked, NEW lock \in [S -> Locked],
         NEW waits \in [DOMAIN order -> Locked], \A i \in DOMAIN order : waits[i] = lock[order[i]]
  PROVE  waits \in Seq(ToSet(waits)) /\ \A x \in S : lock[x] \in ToSet(waits)
<1>1. order \in Seq(S) /\ S = {order[i] : i \in DOMAIN order}
  BY OrderIsAll
<1>2. PICK n \in Nat : DOMAIN order = 1..n /\ DOMAIN waits = 1..n
  BY <1>1
<1>3. \A x \in S : lock[x] \in ToSet(waits)
  BY <1>1, <1>2 DEF ToSet
<1>4. waits \in [1..n -> ToSet(waits)]
  BY <1>2 DEF ToSet
<1> QED
  BY <1>3, <1>4, IsSeq

(* Few locks are waited for one after another.                             *)
LEMMA FewQueued ==
  ASSUME NEW a, NEW b, NEW c
  PROVE  /\ \A w \in {<<>>, <<a>>, <<a, b>>, <<a, b, c>>} : w \in Seq(ToSet(w))
         /\ ToSet(<<>>) = {} /\ ToSet(<<a>>) = {a} /\ ToSet(<<a, b>>) = {a, b} /\ ToSet(<<a, b, c>>) = {a, b, c}
<1>1. ToSet(<<>>) = {} /\ ToSet(<<a>>) = {a} /\ ToSet(<<a, b>>) = {a, b} /\ ToSet(<<a, b, c>>) = {a, b, c}
  BY DEF ToSet
<1>2. <<>> \in Seq({}) /\ <<a>> \in Seq({a}) /\ <<a, b>> \in Seq({a, b}) /\ <<a, b, c>> \in Seq({a, b, c})
  OBVIOUS
<1> QED
  BY <1>1, <1>2

(* One line after another is a line.                                       *)
LEMMA JoinedQueued ==
  ASSUME NEW v, NEW w, v \in Seq(ToSet(v)), w \in Seq(ToSet(w)), NEW all, all = v \o w
  PROVE  all \in Seq(ToSet(all)) /\ ToSet(all) = ToSet(v) \cup ToSet(w)
<1>1. PICK S, T : S = ToSet(v) /\ T = ToSet(w)
  OBVIOUS
<1>2. PICK m \in Nat, n \in Nat : m = Len(v) /\ n = Len(w)
  BY <1>1
<1>3. /\ DOMAIN all = 1..(m + n)
      /\ \A i \in 1..(m + n) : all[i] = IF i <= m THEN v[i] ELSE w[i - m]
  BY <1>1, <1>2
<1>4. DOMAIN v = 1..m /\ DOMAIN w = 1..n
  BY <1>1, <1>2
<1>5. \A i \in 1..(m + n) : IF i <= m THEN i \in 1..m ELSE i - m \in 1..n
  OBVIOUS
<1>6. (\A i \in 1..m : i \in 1..(m + n) /\ i <= m) /\ \A i \in 1..n : i + m \in 1..(m + n) /\ ~(i + m <= m) /\ (i + m) - m = i
  OBVIOUS
<1>7. ToSet(all) = ToSet(v) \cup ToSet(w)
  <2>1. ToSet(all) \subseteq ToSet(v) \cup ToSet(w)
    BY <1>3, <1>4, <1>5 DEF ToSet
  <2>2. ToSet(v) \subseteq ToSet(all)
    BY <1>3, <1>4, <1>6 DEF ToSet
  <2>3. ASSUME NEW x \in ToSet(w) PROVE x \in ToSet(all)
    <3>1. PICK i \in 1..n : x = w[i]
      BY <1>4 DEF ToSet
    <3>2. i + m \in DOMAIN all /\ all[i + m] = w[i]
      BY <1>3, <1>6
    <3> QED
      BY <3>1, <3>2 DEF ToSet
  <2> QED
    BY <2>1, <2>2, <2>3
<1>8. all = [i \in 1..(m + n) |-> all[i]]
  <2>1. v \in Seq(S \cup T) /\ w \in Seq(S \cup T)
    BY <1>1
  <2>2. PICK U : U = S \cup T
    OBVIOUS
  <2>3. all \in Seq(U) /\ Len(all) = m + n
    BY <1>2, <2>1, <2>2
  <2>4. PICK a \in Seq(U) : a = all
    BY <2>3
  <2>5. a \in [1..Len(a) -> U]
    OBVIOUS
  <2>6. Len(a) = m + n
    BY <2>3, <2>4
  <2>7. a \in [1..(m + n) -> U]
    BY <2>5, <2>6
  <2> QED
    BY <2>4, <2>7
<1>9. all \in [1..(m + n) -> ToSet(all)]
  BY <1>3, <1>8 DEF ToSet
<1> QED
  BY <1>7, <1>9, IsSeq

(* Locks of one mode on the rows of a table.                               *)
LEMMA LocksQueued ==
  ASSUME NEW S, IsFiniteSet(S), NEW order \in SetToSeqs(S), NEW Under, NEW row \in [S -> Under], NEW mode,
         NEW rows \in [DOMAIN order -> Under], \A i \in DOMAIN order : rows[i] = row[order[i]]
  PROVE  /\ Locks(mode, rows) \in Seq(ToSet(Locks(mode, rows)))
         /\ \A x \in S : Lock(mode, row[x]) \in ToSet(Locks(mode, rows))
<1>1. PICK Locked : Locked = {Lock(mode, r) : r \in Under}
  OBVIOUS
<1>2. PICK lock \in [S -> Locked] : \A x \in S : lock[x] = Lock(mode, row[x])
  <2>1. [x \in S |-> Lock(mode, row[x])] \in [S -> Locked]
    BY <1>1
  <2> QED
    BY <2>1
<1>3. order \in Seq(S)
  BY OrderIsAll
<1>4. \A i \in DOMAIN order : order[i] \in S
  BY <1>3
<1>5. PICK waits \in [DOMAIN order -> Locked] : waits = Locks(mode, rows)
  <2>1. Locks(mode, rows) \in [DOMAIN order -> Locked]
    BY <1>1 DEF Locks
  <2> QED
    BY <2>1
<1>6. \A i \in DOMAIN order : waits[i] = lock[order[i]]
  BY <1>2, <1>4, <1>5 DEF Locks
<1>7. IsFiniteSet(S) /\ order \in SetToSeqs(S)
  OBVIOUS
<1>8. waits \in Seq(ToSet(waits)) /\ \A x \in S : lock[x] \in ToSet(waits)
  BY <1>6, <1>7, RowsQueued
<1> QED
  BY <1>2, <1>5, <1>8

(* Finitely many have finitely many images.                                *)
LEMMA ImageIsFinite ==
  ASSUME NEW S, IsFiniteSet(S), NEW f, DOMAIN f = S
  PROVE  IsFiniteSet({f[x] : x \in S})
<1> DEFINE T == {f[x] : x \in S}
           g == [x \in S |-> f[x]]
<1>1. g \in Surjection(S, T)
  BY DEF Surjection
<1> QED
  BY <1>1, FS_Surjection

-----------------------------------------------------------------------------
(* Who revokes memberships writes the rows of those found, and of the one  *)
(* chosen.                                                                 *)
Touched(form) == form.found \cup {<<form.user, form.role>>}

Revoking(t) ==
  pc[t] = "saveMemberRole" =>
    Queued(t) /\ \A m \in Touched(req[t].arg) : Lock(Write, MemberRow(m)) \in Claims(t)

(* The phases in which an incident is written.                             *)
Writing == {"writeIncident", "referIncident", "commitIncident"}

(* The person whom an incident is given can be given one, and a request    *)
(* has locked the membership and the user; or the incident is the person's *)
(* already, and nobody else can give it to another.                        *)
Settled(t, i, u) ==
  \/ u = None
  \/ Eligible(u) /\ {Lock(Update, MemberRow(Ownership(u))), Lock(Update, UserRow(u))} \subseteq held[t]
  \/ i \in DOMAIN incident /\ incident[i].assignee = u /\ Lock(Update, IncidentRow(i)) \in held[t]

Examining(t, u) ==
  \/ want[t] = OwnerLocks(u)
  \/ want[t] = <<Lock(Update, UserRow(u))>> /\ Lock(Update, MemberRow(Ownership(u))) \in held[t]

Giving(t) ==
  LET i == req[t].arg.id
      u == req[t].arg.assignee
  IN  /\ pc[t] \in IncidentPhases => i \in DOMAIN incident \cup {None}
      /\ pc[t] = "readIncident" => i \in DOMAIN incident /\ want[t] = <<Lock(Update, IncidentRow(i))>>
      /\ pc[t] = "checkOwner" => Examining(t, u)
      /\ pc[t] = "writeIncident" => want[t] = WriteLock(i)
      /\ pc[t] \in {"referIncident", "commitIncident"} /\ i # None => Lock(Write, IncidentRow(i)) \in held[t]
      /\ pc[t] \in Writing => Settled(t, i, u)

(* There is a row for each membership, standing or not; an incident was    *)
(* made by a transaction that is done.                                     *)
MembersKept == active \subseteq People /\ DOMAIN member = Memberships

MadeByDone == None \notin DOMAIN incident /\ \A i \in DOMAIN incident \cap Requests : pc[i] = "done"

GivesInv ==
  RegisterInv /\ MembersKept /\ MadeByDone /\ \A t \in Requests : Stopping(t) /\ Revoking(t) /\ Giving(t)

(* No membership is revoked that was not.                                  *)
NobodyRevoked == \A m \in Memberships : member'[m].revoked => member[m].revoked

(* A step of the departments keeps the rows of all memberships, and        *)
(* revokes one only if it is of saveMemberRole.                            *)
LEMMA OrganisationRevokes ==
  ASSUME Shaped, DOMAIN member = Memberships, NEW t \in Requests, OrganisationStep(t)
  PROVE  /\ DOMAIN member' = Memberships
         /\ NobodyRevoked \/ SaveMemberRole(t)
         /\ pc'[t] = "saveMemberRole" => BeginSaveMemberRole(t)
<1> USE BeginMoves, GotoMoves, DoneMoves DEF organisationVars, At, NobodyRevoked
<1>1. CASE BeginImportDepartments(t)  BY <1>1 DEF BeginImportDepartments, BeginImport
<1>2. CASE ReadDepartments(t)  BY <1>2 DEF ReadDepartments
<1>3. CASE ExamineDepartments(t)
  <2>1. plan' = plan /\ member' = member
    BY <1>3 DEF ExamineDepartments, Refused
  <2>2. CASE Done(t)
    BY <2>1, <2>2
  <2>3. CASE ~Done(t)
    <3>1. PICK locks, saw : Goto(t, "insertDepartments", locks, saw)
      BY <1>3, <2>3, Zenon DEF ExamineDepartments, Refused
    <3> QED
      BY <2>1, <3>1
  <2> QED
    BY <2>2, <2>3
<1>4. CASE InsertDepartments(t)  BY <1>4 DEF InsertDepartments, Refused
<1>5. CASE CommitDepartments(t)  BY <1>5 DEF CommitDepartments, Imported
<1>6. CASE BeginUndoDepartments(t)  BY <1>6 DEF BeginUndoDepartments, BeginUndo
<1>7. CASE UndoDepartments(t)  BY <1>7 DEF UndoDepartments, Refused, Undone
<1>8. CASE BeginImportAssignments(t)  BY <1>8 DEF BeginImportAssignments, BeginImport
<1>9. CASE ReadAssignments(t)  BY <1>9 DEF ReadAssignments
<1>10. CASE ExamineAssignments(t)
  <2>1. plan' = plan /\ member' = member
    BY <1>10 DEF ExamineAssignments, Refused
  <2>2. CASE Done(t)
    BY <2>1, <2>2
  <2>3. CASE ~Done(t)
    <3>1. PICK targets : AssignFrom(t, 1, targets, <<>>, <<>>)
      BY <1>10, <2>3, Zenon DEF ExamineAssignments, Refused
    <3> QED
      BY <2>1, <3>1 DEF AssignFrom
  <2> QED
    BY <2>2, <2>3
<1>11. CASE AssignMember(t)  BY <1>11 DEF AssignMember, Refused, AssignFrom
<1>12. CASE CommitAssignments(t)  BY <1>12 DEF CommitAssignments, Refused, Imported
<1>13. CASE BeginUndoAssignments(t)  BY <1>13 DEF BeginUndoAssignments, BeginUndo
<1>14. CASE UndoAssignments(t)
  <2>1. PICK locks, back : Goto(t, "restoreAssignments", locks, back)
    BY <1>14, Zenon DEF UndoAssignments
  <2> QED
    BY <1>14, <2>1 DEF UndoAssignments
<1>15. CASE RestoreAssignments(t)  BY <1>15 DEF RestoreAssignments, Refused, Undone
<1>16. CASE BeginSaveDepartment(t)  BY <1>16 DEF BeginSaveDepartment
<1>17. CASE SaveDepartment(t)  BY <1>17 DEF SaveDepartment
<1>18. CASE CommitDepartment(t)  BY <1>18 DEF CommitDepartment
<1>19. CASE BeginUpdateDepartment(t)  BY <1>19 DEF BeginUpdateDepartment
<1>20. CASE UpdateDepartment(t)  BY <1>20 DEF UpdateDepartment
<1>21. CASE WriteDepartment(t)  BY <1>21 DEF WriteDepartment
<1>22. CASE BeginSaveMembership(t)  BY <1>22 DEF BeginSaveMembership
<1>23. CASE SaveMembership(t)  BY <1>23 DEF SaveMembership
<1>24. CASE CommitMembership(t)  BY <1>24 DEF CommitMembership
<1>25. CASE BeginSaveMemberRole(t)  BY <1>25 DEF BeginSaveMemberRole
<1>26. CASE SaveMemberRole(t)  BY <1>26 DEF SaveMemberRole
<1> QED
  BY <1>1, <1>2, <1>3, <1>4, <1>5, <1>6, <1>7, <1>8, <1>9, <1>10, <1>11, <1>12, <1>13, <1>14, <1>15, <1>16,
     <1>17, <1>18, <1>19, <1>20, <1>21, <1>22, <1>23, <1>24, <1>25, <1>26 DEF OrganisationStep

(* What is right of a request that stays where it is goes on being right,  *)
(* while what it has settled does.                                         *)
LEMMA RevokingStays ==
  ASSUME NEW s \in Requests, Revoking(s), pc'[s] = pc[s], req'[s] = req[s], held[s] \subseteq held'[s], Waits(s)
  PROVE  Revoking(s)'
<1> SUFFICES ASSUME pc[s] = "saveMemberRole" PROVE Revoking(s)'
  BY DEF Revoking
<1>1. Queued(s)' /\ Claims(s)' = Claims(s)
  BY ClaimsStay DEF Revoking
<1> QED
  BY <1>1 DEF Revoking

(* So does what it has examined of the person.                             *)
LEMMA ExaminingStays ==
  ASSUME NEW s \in Requests, NEW u, Examining(s, u), held[s] \subseteq held'[s], Waits(s)
  PROVE  Examining(s, u)'
<1>1. CASE held'[s] = held[s] /\ want'[s] = want[s]
  BY <1>1 DEF Examining
<1>2. CASE Len(want[s]) > 1 /\ held'[s] = held[s] \cup {Head(want[s])} /\ want'[s] = Tail(want[s])
  <2>1. PICK l, m : l = Lock(Update, MemberRow(Ownership(u))) /\ m = Lock(Update, UserRow(u))
    OBVIOUS
  <2>2. Len(<<m>>) = 1 /\ Head(<<l, m>>) = l /\ Tail(<<l, m>>) = <<m>>
    OBVIOUS
  <2>a. ASSUME want[s] = <<m>> PROVE FALSE
    <3>1. Len(want[s]) = 1
      BY <2>2, <2>a
    <3> QED
      BY <1>2, <3>1
  <2>3. want[s] = <<l, m>>
    BY <2>1, <2>a DEF Examining, OwnerLocks
  <2> QED
    BY <1>2, <2>1, <2>2, <2>3 DEF Examining
<1> QED
  BY <1>1, <1>2 DEF Waits

(* So does what it is giving.                                              *)
LEMMA GivingStays ==
  ASSUME NEW s \in Requests, Giving(s), pc'[s] = pc[s], req'[s] = req[s], held[s] \subseteq held'[s], Waits(s),
         Len(want[s]) <= 1 => want'[s] = want[s], DOMAIN incident \subseteq DOMAIN incident',
         \A i, u : Settled(s, i, u) => Settled(s, i, u)'
  PROVE  Giving(s)'
<1>1. PICK i, u : i = req[s].arg.id /\ u = req[s].arg.assignee
  OBVIOUS
<1>2. req'[s].arg.id = i /\ req'[s].arg.assignee = u
  BY <1>1
<1>3. Len(WriteLock(i)) <= 1 /\ \A l : Len(<<l>>) <= 1
  BY DEF WriteLock
<1>4. pc[s] = "readIncident" => i \in DOMAIN incident' /\ want'[s] = <<Lock(Update, IncidentRow(i))>>
  BY <1>1, <1>3 DEF Giving
<1>5. pc[s] = "checkOwner" => Examining(s, u)'
  BY <1>1, ExaminingStays DEF Giving
<1>6. pc[s] = "writeIncident" => want'[s] = WriteLock(i)
  BY <1>1, <1>3 DEF Giving
<1>7. pc[s] \in {"referIncident", "commitIncident"} /\ i # None => Lock(Write, IncidentRow(i)) \in held'[s]
  BY <1>1 DEF Giving
<1>8. pc[s] \in Writing => Settled(s, i, u)'
  <2>1. pc[s] \in Writing => Settled(s, i, u)
    BY <1>1 DEF Giving
  <2> QED
    BY <2>1
<1>9. pc[s] \in IncidentPhases => i \in DOMAIN incident' \cup {None}
  BY <1>1 DEF Giving
<1> QED
  BY <1>2, <1>4, <1>5, <1>6, <1>7, <1>8, <1>9 DEF Giving

(* What a request has settled stays so when nobody is stopped or revoked   *)
(* whose rows it has locked, and the incident it has locked is not given   *)
(* to another.                                                             *)
LEMMA SettledStays ==
  ASSUME NEW s \in Requests, NEW i, NEW u, Settled(s, i, u), held[s] \subseteq held'[s],
         active \subseteq People,
         Lock(Update, UserRow(u)) \in held[s] /\ u \in active => u \in active',
         Lock(Update, MemberRow(Ownership(u))) \in held[s] /\ u \in People
           => (member'[Ownership(u)].revoked => member[Ownership(u)].revoked),
         Lock(Update, IncidentRow(i)) \in held[s] /\ i \in DOMAIN incident
           => i \in DOMAIN incident' /\ incident'[i].assignee = incident[i].assignee
  PROVE  Settled(s, i, u)'
<1>1. CASE Eligible(u) /\ {Lock(Update, MemberRow(Ownership(u))), Lock(Update, UserRow(u))} \subseteq held[s]
  <2>1. u \in active' /\ ~member'[Ownership(u)].revoked
    BY <1>1 DEF Eligible
  <2> QED
    BY <1>1, <2>1 DEF Settled, Eligible
<1> QED
  BY <1>1 DEF Settled

(* Nobody but its holder has a lock on a row that is held for writing.     *)
LEMMA UpdateExcludes ==
  Update \in Modes /\ Write \in Modes /\ Conflict(Update, Write) /\ Conflict(Write, Update) /\ Conflict(Update, Update)
BY DEF Modes, Conflict, Update, Write

(* The memberships of a person are finitely many.                          *)
LEMMA FewMemberships ==
  ASSUME NEW u
  PROVE  IsFiniteSet(MembershipsOf(u)) /\ MembershipsOf(u) \subseteq Memberships
<1>1. MembershipsOf(u) \subseteq {u} \X Roles /\ MembershipsOf(u) \subseteq Memberships
  BY DEF MembershipsOf, Memberships
<1>2. IsFiniteSet({u}) /\ IsFiniteSet(Roles)
  BY RolesAssumption, FS_Singleton
<1>3. IsFiniteSet({u} \X Roles)
  BY <1>2, FS_Product
<1> QED
  BY <1>1, <1>3, FS_Subset

(* The rows in an order, each locked in this mode.                         *)
LEMMA RowsInOrder ==
  ASSUME NEW S, IsFiniteSet(S), NEW rows \in SetToSeqs(S), NEW mode, NEW waits, waits = Locks(mode, rows)
  PROVE  waits \in Seq(ToSet(waits)) /\ \A r \in S : Lock(mode, r) \in ToSet(waits)
<1>1. PICK row \in [S -> S] : \A r \in S : row[r] = r
  <2>1. [r \in S |-> r] \in [S -> S]
    OBVIOUS
  <2> QED
    BY <2>1
<1>2. rows \in Seq(S)
  BY OrderIsAll
<1>3. rows \in [DOMAIN rows -> S] /\ \A i \in DOMAIN rows : rows[i] = row[rows[i]]
  BY <1>1, <1>2
<1>4. IsFiniteSet(S) /\ rows \in SetToSeqs(S)
  OBVIOUS
<1>5. Locks(mode, rows) \in Seq(ToSet(Locks(mode, rows))) /\ \A r \in S : Lock(mode, row[r]) \in ToSet(Locks(mode, rows))
  BY <1>1, <1>3, <1>4, LocksQueued
<1> QED
  BY <1>1, <1>5

(* Who begins to revoke waits for all that was found.                      *)
LEMMA RevokingBegins ==
  ASSUME Shaped, NEW t \in Requests, BeginSaveMemberRole(t)
  PROVE  Revoking(t)'
<1>a. PICK u \in People, role \in Plan.roles :
        \E rows \in SetToSeqs({MemberRow(m) : m \in MembershipsOf(u)}) :
          Begin(t, "saveMemberRole", [user |-> u, role |-> role, found |-> MembershipsOf(u)], "saveMemberRole",
                Locks(Write, rows) \o <<Lock(Update, UserRow(u)), Lock(Write, MemberRow(<<u, role>>))>>)
  BY Zenon DEF BeginSaveMemberRole
<1>2. PICK found, S, a, b : /\ found = MembershipsOf(u) /\ S = {MemberRow(m) : m \in found}
                            /\ a = Lock(Update, UserRow(u)) /\ b = Lock(Write, MemberRow(<<u, role>>))
  OBVIOUS
<1>1. PICK rows \in SetToSeqs(S) :
        Begin(t, "saveMemberRole", [user |-> u, role |-> role, found |-> found], "saveMemberRole",
              Locks(Write, rows) \o <<a, b>>)
  BY <1>a, <1>2
<1>3. IsFiniteSet(S) /\ S = {MemberRow(m) : m \in found}
  <2>1. PICK f : f = [m \in found |-> MemberRow(m)]
    OBVIOUS
  <2>2. IsFiniteSet({f[m] : m \in found})
    BY <1>2, <2>1, FewMemberships, ImageIsFinite
  <2>3. S = {f[m] : m \in found}
    BY <1>2, <2>1
  <2> QED
    BY <1>2, <2>2, <2>3
<1>4. PICK v, w, all : v = Locks(Write, rows) /\ w = <<a, b>> /\ all = v \o w
  OBVIOUS
<1>5. v \in Seq(ToSet(v)) /\ \A r \in S : Lock(Write, r) \in ToSet(v)
  BY <1>3, <1>4, RowsInOrder
<1>6. w \in Seq(ToSet(w))
  BY <1>4, FewQueued
<1>7. all \in Seq(ToSet(all)) /\ ToSet(all) = ToSet(v) \cup ToSet(w)
  BY <1>4, <1>5, <1>6, JoinedQueued
<1>8. Begin(t, "saveMemberRole", [user |-> u, role |-> role, found |-> found], "saveMemberRole", all)
  BY <1>1, <1>4
<1>9. req'[t].arg = [user |-> u, role |-> role, found |-> found] /\ want'[t] = all
  BY <1>8, BeginMoves
<1>10. Touched(req'[t].arg) = found \cup {<<u, role>>}
  BY <1>9 DEF Touched
<1>11. \A m \in found \cup {<<u, role>>} : Lock(Write, MemberRow(m)) \in ToSet(all)
  <2>1. b \in ToSet(w)
    BY <1>4 DEF ToSet
  <2>2. Lock(Write, MemberRow(<<u, role>>)) \in ToSet(all)
    BY <1>2, <1>7, <2>1
  <2>3. ASSUME NEW m \in found PROVE Lock(Write, MemberRow(m)) \in ToSet(all)
    <3>1. PICK r : r = MemberRow(m)
      OBVIOUS
    <3>2. r \in S
      BY <1>3, <3>1
    <3> QED
      BY <1>5, <1>7, <3>1, <3>2
  <2> QED
    BY <2>2, <2>3
<1> QED
  BY <1>7, <1>9, <1>10, <1>11 DEF Revoking, Queued, Claims

(* A step of the departments.                                              *)
LEMMA RevokingKept ==
  ASSUME GivesInv, NEW t \in Requests, OrganisationStep(t), Passes(t, OrganisationPhases), incident' = incident
  PROVE  /\ \A s \in Requests : Revoking(s)' /\ Giving(s)'
         /\ MembersKept' /\ MadeByDone'
<1>0. /\ Shaped /\ LocksApart /\ MembersKept /\ plan' = plan /\ active' = active
      /\ \A s \in Requests : Revoking(s) /\ Giving(s)
  BY DEF GivesInv, RegisterInv, LocksInv, Passes, OnlyMoves, Takes
<1>1. MembersKept'
  BY <1>0, OrganisationRevokes DEF MembersKept
<1>2. MadeByDone'
  <2>1. \A i \in Requests : pc[i] = "done" => pc'[i] = "done"
    BY DEF Passes, OnlyMoves, OrganisationPhases
  <2> QED
    BY <2>1 DEF GivesInv, MadeByDone
<1>3. Giving(t)'
  BY DEF Passes, OrganisationPhases, Giving, Writing, IncidentPhases
<1>4. Revoking(t)'
  <2>1. CASE pc'[t] # "saveMemberRole"
    BY <2>1 DEF Revoking
  <2>2. CASE BeginSaveMemberRole(t)
    BY <1>0, <2>2, RevokingBegins
  <2> QED
    BY <1>0, <2>1, <2>2, OrganisationRevokes DEF MembersKept
<1>5. DOMAIN incident \subseteq DOMAIN incident'
  OBVIOUS
<1>6. ASSUME NEW s \in Requests \ {t} PROVE Revoking(s)' /\ Giving(s)'
  <2>1. pc'[s] = pc[s] /\ req'[s] = req[s] /\ held'[s] = held[s] /\ want'[s] = want[s]
    BY DEF Passes, OnlyMoves
  <2>2. Waits(s)
    BY <2>1 DEF Waits
  <2>3. ASSUME NEW i, NEW u, Settled(s, i, u) PROVE Settled(s, i, u)'
    <3>2. ASSUME SaveMemberRole(t), Lock(Update, MemberRow(Ownership(u))) \in held[s], u \in People,
                 member'[Ownership(u)].revoked
          PROVE  member[Ownership(u)].revoked
      <4>1. PICK m, found : m = Ownership(u) /\ m \in Memberships /\ found = req[t].arg.found
        BY <3>2, RolesAssumption DEF Ownership, Memberships
      <4>2. Granted(t) /\ Queued(t) /\ \A n \in found : Lock(Write, MemberRow(n)) \in Claims(t)
        BY <1>0, <3>2, <4>1 DEF SaveMemberRole, At, Revoking, Touched
      <4>3. \A n \in found : Lock(Write, MemberRow(n)) \in Taken(t)
        BY <4>2, ClaimsTaken
      <4>4. Compatible(held[s], Taken(t))
        BY <1>0, <4>2, TakenApart DEF Granted
      <4>5. m \notin found
        <5>1. SUFFICES ASSUME m \in found PROVE FALSE
          OBVIOUS
        <5>2. PICK l, n : l = Lock(Update, MemberRow(m)) /\ n = Lock(Write, MemberRow(m))
          OBVIOUS
        <5>3. l \in held[s] /\ n \in Taken(t) /\ l[2] = n[2] /\ l[1] = Update /\ n[1] = Write
          BY <3>2, <4>1, <4>3, <5>1, <5>2 DEF Lock
        <5> QED
          BY <4>4, <5>3, UpdateExcludes DEF Compatible
      <4>6. member'[m] = member[m] \/ ~member'[m].revoked
        BY <1>0, <3>2, <4>1, <4>5 DEF SaveMemberRole, MembersKept
      <4> QED
        BY <3>2, <4>1, <4>6
    <3>3. Ownership(u) \in Memberships \/ u \notin People
      BY RolesAssumption DEF Ownership, Memberships
    <3>4. CASE NobodyRevoked
      BY <1>0, <2>1, <2>3, <3>3, <3>4, SettledStays DEF MembersKept, NobodyRevoked
    <3> QED
      BY <1>0, <2>1, <2>3, <3>2, <3>4, SettledStays, OrganisationRevokes DEF MembersKept
  <2> QED
    BY <1>0, <1>5, <2>1, <2>2, <2>3, RevokingStays, GivingStays
<1> QED
  BY <1>1, <1>2, <1>3, <1>4, <1>6

(* The incidents that a step gives anew are given to somebody active whose *)
(* membership stands.                                                      *)
GivenNew ==
  \A i \in DOMAIN incident' :
    LET u == incident'[i].assignee
    IN  u # None /\ (i \in DOMAIN incident => incident[i].assignee # u)
          => u \in active' /\ ~member'[Ownership(u)].revoked

(* A step of the incidents goes on with what is right.                     *)
LEMMA GivingGoes ==
  ASSUME GivesInv, NEW t \in Requests, IncidentStep(t), Passes(t, IncidentPhases), member' = member
  PROVE  /\ Giving(t)'
         /\ incident' = incident \/ CommitIncident(t)
<1>0. Shaped /\ plan' = plan /\ active' = active /\ Giving(t)
  BY DEF GivesInv, RegisterInv, Passes, OnlyMoves, Takes
<1>a. ASSUME pc'[t] = "done" PROVE Giving(t)'
  BY <1>a DEF Giving, Writing, IncidentPhases
<1>b. PICK i, u : i = req[t].arg.id /\ u = req[t].arg.assignee
  OBVIOUS
<1>c. ASSUME NEW phase, NEW locks, Goto(t, phase, locks, None)
      PROVE  /\ pc'[t] = phase /\ want'[t] = locks /\ held'[t] = Taken(t)
             /\ req'[t].arg.id = i /\ req'[t].arg.assignee = u
  BY <1>0, <1>b, <1>c, GotoMoves
<1>d. ASSUME NEW form, NEW phase, NEW locks, Begin(t, "saveIncident", form, phase, locks)
      PROVE  pc'[t] = phase /\ want'[t] = locks /\ req'[t].arg = form
  BY <1>0, <1>d, BeginMoves
<1>e. ASSUME Settled(t, i, u), held[t] \subseteq held'[t], incident' = incident PROVE Settled(t, i, u)'
  BY <1>0, <1>e DEF Settled, Eligible
<1>f. held[t] \subseteq Taken(t)
  BY DEF Taken
<1>1. CASE BeginRegisterIncident(t)
  <2>1. PICK form \in IncidentForms(None, RisksOffered) :
          \/ form.assignee = None /\ Begin(t, "saveIncident", form, "writeIncident", <<>>)
          \/ Begin(t, "saveIncident", form, "checkOwner", OwnerLocks(form.assignee))
    BY <1>1 DEF BeginRegisterIncident
  <2>2. form.id = None
    BY DEF IncidentForms
  <2>3. Giving(t)'
    BY <1>1, <1>d, <2>1, <2>2 DEF Giving, Writing, IncidentPhases, Settled, Examining, WriteLock
  <2> QED
    BY <1>1, <2>3 DEF BeginRegisterIncident
<1>2. CASE BeginEditIncident(t)
  <2>1. PICK id, form :
          /\ id \in DOMAIN incident /\ form \in IncidentForms(id, RisksOffered \cup {RiskOf(id)})
          /\ \/ form.assignee = None /\ Begin(t, "saveIncident", form, "writeIncident", WriteLock(id))
             \/ Begin(t, "saveIncident", form, "readIncident", <<Lock(Update, IncidentRow(id))>>)
    BY <1>2 DEF BeginEditIncident
  <2>2. form.id = id /\ incident' = incident
    BY <1>2, <2>1 DEF BeginEditIncident, IncidentForms
  <2>3. Giving(t)'
    BY <1>d, <2>1, <2>2 DEF Giving, Writing, IncidentPhases, Settled
  <2> QED
    BY <2>2, <2>3
<1>3. CASE ReadIncident(t)
  <2>1. /\ i \in DOMAIN incident /\ want[t] = <<Lock(Update, IncidentRow(i))>> /\ incident' = incident
        /\ \/ incident[i].assignee = u /\ Goto(t, "writeIncident", WriteLock(i), None)
           \/ Goto(t, "checkOwner", OwnerLocks(u), None)
           \/ Done(t)
    BY <1>0, <1>3, <1>b DEF ReadIncident, At, Giving
  <2>2. Lock(Update, IncidentRow(i)) \in Taken(t)
    BY <2>1, RowIsTaken
  <2>3. ASSUME incident[i].assignee = u, Goto(t, "writeIncident", WriteLock(i), None) PROVE Giving(t)'
    BY <1>c, <2>1, <2>2, <2>3 DEF Giving, Writing, IncidentPhases, Settled
  <2>4. ASSUME Goto(t, "checkOwner", OwnerLocks(u), None) PROVE Giving(t)'
    BY <1>c, <2>1, <2>4 DEF Giving, Writing, IncidentPhases, Examining
  <2> QED
    BY <1>0, <1>a, <2>1, <2>3, <2>4, DoneMoves
<1>4. CASE CheckOwner(t)
  <2>1. /\ Examining(t, u) /\ Granted(t) /\ incident' = incident
        /\ Done(t) \/ (Eligible(u) /\ Goto(t, "writeIncident", WriteLock(i), None))
        /\ i \in DOMAIN incident \cup {None}
    BY <1>0, <1>4, <1>b DEF CheckOwner, At, Giving, IncidentPhases
  <2>2. PICK l, m : l = Lock(Update, MemberRow(Ownership(u))) /\ m = Lock(Update, UserRow(u))
    OBVIOUS
  <2>3. ASSUME want[t] = <<l, m>> PROVE FALSE
    <3>1. Len(want[t]) = 2
      BY <2>3
    <3> QED
      BY <2>1, <3>1 DEF Granted
  <2>4. want[t] = <<m>> /\ l \in held[t]
    BY <2>1, <2>2, <2>3 DEF Examining, OwnerLocks
  <2>5. {l, m} \subseteq Taken(t)
    BY <1>f, <2>4, RowIsTaken
  <2>6. ASSUME Eligible(u), Goto(t, "writeIncident", WriteLock(i), None) PROVE Giving(t)'
    <3>1. Settled(t, i, u)'
      BY <1>0, <1>c, <2>2, <2>5, <2>6 DEF Settled, Eligible
    <3> QED
      BY <1>c, <2>1, <2>6, <3>1 DEF Giving, Writing, IncidentPhases
  <2> QED
    BY <1>0, <1>a, <2>1, <2>6, DoneMoves
<1>5. CASE WriteIncident(t)
  <2>1. /\ want[t] = WriteLock(i) /\ Settled(t, i, u) /\ incident' = incident /\ i \in DOMAIN incident \cup {None}
        /\ \E phase, locks : phase \in {"commitIncident", "referIncident"} /\ Goto(t, phase, locks, None)
    BY <1>0, <1>5, <1>b DEF WriteIncident, At, Giving, Writing, IncidentPhases
  <2>2. PICK phase, locks : phase \in {"commitIncident", "referIncident"} /\ Goto(t, phase, locks, None)
    BY <2>1
  <2>3. i # None => Lock(Write, IncidentRow(i)) \in Taken(t)
    BY <2>1, RowIsTaken DEF WriteLock
  <2>4. Settled(t, i, u)'
    BY <1>c, <1>e, <1>f, <2>1, <2>2
  <2>5. Giving(t)'
    BY <1>c, <2>1, <2>2, <2>3, <2>4 DEF Giving, Writing, IncidentPhases
  <2> QED
    BY <2>1, <2>5
<1>6. CASE ReferIncident(t)
  <2>1. /\ i # None => Lock(Write, IncidentRow(i)) \in held[t]
        /\ Settled(t, i, u) /\ incident' = incident /\ Goto(t, "commitIncident", <<>>, None)
        /\ i \in DOMAIN incident \cup {None}
    BY <1>0, <1>6, <1>b DEF ReferIncident, At, Giving, Writing, IncidentPhases
  <2>2. Settled(t, i, u)'
    BY <1>c, <1>e, <1>f, <2>1
  <2>3. Giving(t)'
    BY <1>c, <1>f, <2>1, <2>2 DEF Giving, Writing, IncidentPhases
  <2> QED
    BY <2>1, <2>3
<1>7. CASE CommitIncident(t)
  BY <1>0, <1>7, <1>a, DoneMoves DEF CommitIncident
<1> QED
  BY <1>1, <1>2, <1>3, <1>4, <1>5, <1>6, <1>7 DEF IncidentStep

(* A step of the incidents.                                                *)
LEMMA GivingKept ==
  ASSUME GivesInv, NEW t \in Requests, IncidentStep(t), Passes(t, IncidentPhases), member' = member
  PROVE  /\ \A s \in Requests : Revoking(s)' /\ Giving(s)'
         /\ MembersKept' /\ MadeByDone' /\ GivenNew
<1>0. /\ Shaped /\ LocksApart /\ MembersKept /\ MadeByDone /\ plan' = plan /\ active' = active
      /\ \A s \in Requests : Revoking(s) /\ Giving(s)
  BY DEF GivesInv, RegisterInv, LocksInv, Passes, OnlyMoves, Takes
<1>1. MembersKept'
  BY <1>0 DEF MembersKept
<1>2. Revoking(t)'
  BY DEF Passes, IncidentPhases, Revoking
<1>3. PICK i, u, new : /\ i = req[t].arg.id /\ u = req[t].arg.assignee
                       /\ new = IF i = None THEN t ELSE i
  OBVIOUS
<1>4. ASSUME CommitIncident(t)
      PROVE  /\ pc[t] = "commitIncident" /\ pc'[t] = "done" /\ Settled(t, i, u) /\ i \in DOMAIN incident \cup {None}
             /\ i # None => Lock(Write, IncidentRow(i)) \in held[t]
             /\ \E row : row.assignee = u /\ incident' = WithRow(incident, new, row)
  <2>1. pc[t] = "commitIncident" /\ pc'[t] = "done"
    BY <1>0, <1>4, DoneMoves DEF CommitIncident, At
  <2>2. Settled(t, i, u) /\ i \in DOMAIN incident \cup {None} /\ (i # None => Lock(Write, IncidentRow(i)) \in held[t])
    BY <1>0, <1>3, <2>1 DEF Giving, Writing, IncidentPhases
  <2>3. PICK since : incident' = WithRow(incident, new, [assignee |-> u, resolved |-> since])
    BY <1>3, <1>4 DEF CommitIncident
  <2> QED
    BY <2>1, <2>2, <2>3
<1>5. \A s \in Requests : pc[s] = "done" => pc'[s] = "done"
  BY DEF Passes, OnlyMoves, IncidentPhases
<1>6. /\ DOMAIN incident \subseteq DOMAIN incident'
      /\ MadeByDone'
  <2>1. CASE incident' = incident
    BY <1>0, <1>5, <2>1 DEF MadeByDone
  <2>2. CASE CommitIncident(t)
    <3>1. DOMAIN incident' = DOMAIN incident \cup {new} /\ pc'[t] = "done"
      BY <1>4, <2>2 DEF WithRow
    <3>2. new # None /\ (new = t \/ new \in DOMAIN incident)
      BY <1>3, <1>4, <2>2, NoneAssumption
    <3> QED
      BY <1>0, <1>5, <3>1, <3>2 DEF MadeByDone
  <2> QED
    BY <2>1, <2>2, GivingGoes
<1>7. GivenNew
  <2>1. CASE incident' = incident
    BY <2>1 DEF GivenNew
  <2>2. CASE CommitIncident(t)
    <3>1. PICK row : row.assignee = u /\ incident' = WithRow(incident, new, row)
      BY <1>4, <2>2
    <3>2. \A id \in DOMAIN incident' : incident'[id] = IF id = new THEN row ELSE incident[id]
      BY <3>1 DEF WithRow
    <3>3. \A id \in DOMAIN incident' : id # new => id \in DOMAIN incident
      BY <3>1 DEF WithRow
    <3>4. \/ u = None \/ Eligible(u) \/ (new \in DOMAIN incident /\ incident[new].assignee = u)
      BY <1>0, <1>3, <1>4, <2>2 DEF Settled, MadeByDone
    <3> QED
      BY <1>0, <3>1, <3>2, <3>3, <3>4 DEF GivenNew, Eligible
  <2> QED
    BY <2>1, <2>2, GivingGoes
<1>8. ASSUME NEW s \in Requests \ {t} PROVE Revoking(s)' /\ Giving(s)'
  <2>1. pc'[s] = pc[s] /\ req'[s] = req[s] /\ held'[s] = held[s] /\ want'[s] = want[s]
    BY DEF Passes, OnlyMoves
  <2>2. Waits(s)
    BY <2>1 DEF Waits
  <2>3. ASSUME NEW id \in DOMAIN incident, Lock(Update, IncidentRow(id)) \in held[s] PROVE incident'[id] = incident[id]
    <3>1. CASE incident' = incident
      BY <3>1
    <3>2. CASE CommitIncident(t)
      <4>1. id # new
        <5>1. CASE i = None
          BY <1>0, <1>3, <1>4, <3>2, <5>1 DEF MadeByDone
        <5>2. CASE i # None
          <6>1. Lock(Write, IncidentRow(i)) \in held[t]
            BY <1>4, <3>2, <5>2
          <6> QED
            BY <1>0, <1>3, <2>3, <5>2, <6>1, HeldApart, UpdateExcludes
        <5> QED
          BY <5>1, <5>2
      <4> QED
        BY <1>4, <3>2, <4>1 DEF WithRow
    <3> QED
      BY <3>1, <3>2, GivingGoes
  <2>4. \A id, v : Settled(s, id, v) => Settled(s, id, v)'
    BY <1>0, <1>6, <2>1, <2>3, SettledStays DEF MembersKept
  <2> QED
    BY <1>0, <1>6, <2>1, <2>2, <2>4, RevokingStays, GivingStays
<1> QED
  BY <1>1, <1>2, <1>6, <1>7, <1>8, GivingGoes

(* A step elsewhere: who stops a person has the row of the user locked.    *)
LEMMA GivesStands ==
  ASSUME GivesInv, [Next]_vars, UNCHANGED <<incident, member>>, Elsewhere(GivingPhases)
  PROVE  GivesInv' /\ GivenNew
<1>0. /\ RegisterInv /\ Shaped /\ LocksApart /\ MembersKept /\ MadeByDone
      /\ \A s \in Requests : Stopping(s) /\ Revoking(s) /\ Giving(s)
  BY DEF GivesInv, RegisterInv, LocksInv
<1>1. /\ RegisterInv' /\ (\A s \in Requests : Stopping(s)')
      /\ active' = active \/ \E t \in Requests : StopPerson(t)
  BY <1>0, RegisterKept, StoppingKept
<1>2. MembersKept' /\ MadeByDone'
  BY <1>0, <1>1 DEF MembersKept, MadeByDone, StopPerson, Elsewhere
<1>3. ASSUME NEW s \in Requests, pc'[s] \in GivingPhases PROVE Revoking(s)' /\ Giving(s)'
  <2>1. pc'[s] = pc[s] /\ req'[s] = req[s] /\ held[s] \subseteq held'[s] /\ Waits(s)
    BY <1>3 DEF Elsewhere
  <2>2. Len(want[s]) <= 1 => want'[s] = want[s]
    BY <1>3 DEF Elsewhere
  <2>3. ASSUME NEW u \in active, Lock(Update, UserRow(u)) \in held[s] PROVE u \in active'
    <3>1. CASE active' = active
      BY <3>1
    <3>2. ASSUME NEW t \in Requests, StopPerson(t) PROVE u \in active'
      <4>1. PICK v : v = req[t].arg
        OBVIOUS
      <4>2. pc[t] = "stop_person" /\ Granted(t) /\ want[t] = <<Lock(Write, UserRow(v))>>
        BY <1>0, <3>2, <4>1 DEF StopPerson, At, Stopping
      <4>3. s # t
        BY <1>3, <2>1, <4>2 DEF GivingPhases, IncidentPhases, OrganisationPhases
      <4>4. UserRow(u) # UserRow(v)
        BY <2>3, <4>2, <4>3, RowIsHeld
      <4> QED
        BY <3>2, <4>1, <4>4 DEF StopPerson
    <3> QED
      BY <1>1, <3>1, <3>2
  <2>4. \A id, v : Settled(s, id, v) => Settled(s, id, v)'
    BY <1>0, <2>1, <2>3, SettledStays DEF MembersKept
  <2> QED
    BY <1>0, <2>1, <2>2, <2>4, RevokingStays, GivingStays
<1>4. ASSUME NEW s \in Requests, pc'[s] \notin GivingPhases PROVE Revoking(s)' /\ Giving(s)'
  BY <1>4 DEF Revoking, Giving, Writing, GivingPhases, IncidentPhases, OrganisationPhases
<1>5. GivenNew
  BY DEF GivenNew
<1> QED
  BY <1>1, <1>2, <1>3, <1>4, <1>5 DEF GivesInv

(* An incident is given only to whom it can be.                            *)
LEMMA GivesKept ==
  ASSUME GivesInv, [Next]_vars
  PROVE  GivesInv' /\ GivenNew
<1>0. RegisterInv /\ Shaped /\ BatchesKept /\ \A s \in Requests : Stopping(s)
  BY DEF GivesInv, RegisterInv
<1>1. RegisterInv' /\ \A s \in Requests : Stopping(s)'
  BY <1>0, RegisterKept, StoppingKept
<1>2. CASE UNCHANGED <<incident, member>> /\ Elsewhere(GivingPhases)
  BY <1>2, GivesStands
<1>3. ASSUME NEW t \in Requests, OrganisationStep(t), Passes(t, OrganisationPhases), incident' = incident
      PROVE  GivesInv' /\ GivenNew
  BY <1>1, <1>3, RevokingKept DEF GivesInv, GivenNew
<1>4. ASSUME NEW t \in Requests, IncidentStep(t), Passes(t, IncidentPhases), member' = member
      PROVE  GivesInv' /\ GivenNew
  BY <1>1, <1>4, GivingKept DEF GivesInv
<1> QED
  BY <1>0, <1>2, <1>3, <1>4, GivingSteps

-----------------------------------------------------------------------------
(* The phases of an import of departments that holds the lock.             *)
Importing == {"examineDepartments", "insertDepartments", "commitDepartments"}

(* A department that stands as an import made it.                          *)
AsMade(d) == AsImported(dept[d], d[1]) /\ batches[d[1]].kind = "departments"

(* A department is named by a transaction that is done.                    *)
RowsKept ==
  \A d \in DOMAIN dept : d # None /\ d[1] \in Stamps /\ (d[1] \in Requests => pc[d[1]] = "done")

(* Who is not done has imported no departments.                            *)
NotYet(t) == pc[t] # "done" => batches[t].kind # "departments"

(* What a request was asked is what its plan has.                          *)
OfPlan(t) ==
  /\ pc[t] \in Importing \cup {"importDepartments"} => File(t) \in Plan.files
  /\ pc[t] \in {"saveDepartment", "commitDepartment"} => req[t].arg.name \in Plan.names

(* An import waits for the lock before it looks for the names.             *)
WithLock(t) ==
  /\ pc[t] = "importDepartments" => want[t] = ImportLocks
  /\ pc[t] \in Importing => Lock(Update, ImportLock) \in held[t]

(* What it found then is all there still is, and nothing when it goes on.  *)
Found(t) ==
  /\ pc[t] = "examineDepartments" =>
       \A d \in DOMAIN dept :
         AsMade(d) /\ dept[d].name \in NamesIn(File(t)) => d \in req[t].saw[dept[d].name]
  /\ pc[t] \in {"insertDepartments", "commitDepartments"} =>
       /\ req[t].saw = [x \in DOMAIN req[t].saw |-> req[t].saw[x]]
       /\ \A d \in DOMAIN dept : AsMade(d) => dept[d].name \notin NamesIn(File(t))

(* A department that the chart has read is not none.                       *)
Charted(t) == pc[t] \in {"readMemberships", "showOrgChart"} => None \notin Nodes(req[t].saw)

Proceeds(t) == NotYet(t) /\ OfPlan(t) /\ WithLock(t) /\ Found(t) /\ Charted(t)

(* Imports of departments follow one another.                              *)
OneByOne == \A s, t \in Requests : pc[s] \in Importing /\ pc[t] \in Importing => s = t

OrganisationInv ==
  /\ Shaped /\ BatchesKept /\ RowsKept /\ ImportedNamesUnique /\ OneByOne
  /\ \A t \in Requests : Proceeds(t)

(* No department comes to stand as an import made it.                      *)
Fewer ==
  \A d \in DOMAIN dept' : AsMade(d)' => d \in DOMAIN dept /\ AsMade(d) /\ dept'[d].name = dept[d].name

(* Those that remain have each their own name, as they had.                *)
LEMMA FewerAreUnique ==
  ASSUME ImportedNamesUnique, Fewer PROVE ImportedNamesUnique'
<1> SUFFICES ASSUME NEW d \in DOMAIN dept', NEW e \in DOMAIN dept', AsMade(d)', AsMade(e)',
                    dept'[d].name = dept'[e].name
             PROVE  d = e
  BY DEF ImportedNamesUnique, AsMade
<1>1. AsMade(d) /\ AsMade(e) /\ d \in DOMAIN dept /\ e \in DOMAIN dept /\ dept[d].name = dept[e].name
  BY DEF Fewer
<1> QED
  BY <1>1 DEF ImportedNamesUnique, AsMade

(* When no department is written, there are none that stand more.          *)
LEMMA SameAreFewer ==
  ASSUME RowsKept, KindsStay, dept' = dept PROVE Fewer
BY DEF RowsKept, KindsStay, Fewer, AsMade

(* Who stays where it is goes on as it did.                                *)
LEMMA OthersProceed ==
  ASSUME NEW s \in Requests, BatchesKept, KindsStay, Fewer, Proceeds(s), plan' = plan,
         pc'[s] = "done" \/ (pc'[s] = pc[s] /\ req'[s] = req[s] /\ held[s] \subseteq held'[s]
                              /\ (Len(want[s]) <= 1 => want'[s] = want[s]))
  PROVE  Proceeds(s)'
<1>1. s \in Stamps
  BY DEF Stamps
<1>2. NotYet(s)'
  BY <1>1 DEF Proceeds, NotYet, KindsStay
<1>3. Len(ImportLocks) <= 1
  BY DEF ImportLocks
<1>4. OfPlan(s)' /\ WithLock(s)' /\ Charted(s)'
  BY <1>3 DEF Proceeds, OfPlan, WithLock, Charted, Importing, File, Plan, Nodes
<1>5. Found(s)'
  BY DEF Proceeds, Found, Fewer, Importing, File
<1> QED
  BY <1>2, <1>4, <1>5 DEF Proceeds

(* A step elsewhere keeps everything.                                      *)
LEMMA ElsewhereKept ==
  ASSUME OrganisationInv, KindsStay, dept' = dept, Elsewhere(OrganisationPhases \cup ChartPhases)
  PROVE  OrganisationInv'
<1> DEFINE phases == OrganisationPhases \cup ChartPhases
           watched == Importing \cup {"importDepartments", "saveDepartment", "commitDepartment",
                                      "readMemberships", "showOrgChart"}
<1>0. Shaped' /\ plan' = plan /\ watched \subseteq phases
  BY DEF Elsewhere, OrganisationPhases, ChartPhases, Importing
<1>1. Fewer /\ ImportedNamesUnique'
  BY SameAreFewer, FewerAreUnique DEF OrganisationInv
<1>2. BatchesKept' /\ RowsKept'
  BY DEF OrganisationInv, KindsStay, RowsKept, Elsewhere
<1>3. ASSUME NEW s \in Requests PROVE Proceeds(s)'
  <2>1. CASE pc'[s] \in phases \/ pc'[s] = "done"
    BY <1>0, <1>1, <2>1, OthersProceed DEF OrganisationInv, Elsewhere
  <2>2. CASE pc'[s] \notin phases /\ pc'[s] # "done"
    <3>1. pc'[s] \notin watched /\ pc[s] # "done"
      BY <1>0, <2>2 DEF Elsewhere
    <3>2. s \in Stamps /\ NotYet(s)
      BY DEF Stamps, OrganisationInv, Proceeds
    <3>3. NotYet(s)'
      BY <3>1, <3>2 DEF NotYet, KindsStay
    <3> QED
      BY <3>1, <3>3 DEF Proceeds, OfPlan, WithLock, Found, Charted, Importing
  <2> QED
    BY <2>1, <2>2
<1>4. OneByOne'
  BY <1>0 DEF OrganisationInv, OneByOne, Elsewhere
<1> QED
  BY <1>0, <1>1, <1>2, <1>3, <1>4 DEF OrganisationInv

(* So does a step of a request that adds no department as imported, when   *)
(* it alone goes on to import.                                             *)
LEMMA OwnKept ==
  ASSUME OrganisationInv, NEW t \in Requests, OnlyMoves(t), pc[t] # "done", KindsStay, Fewer, RowsKept',
         OfPlan(t)', WithLock(t)', Found(t)', Charted(t)',
         pc'[t] \in Importing => \A s \in Requests \ {t} : pc[s] \notin Importing
  PROVE  OrganisationInv'
<1>1. Shaped' /\ plan' = plan /\ BatchesKept'
  BY DEF OnlyMoves, KindsStay
<1>2. ImportedNamesUnique'
  BY FewerAreUnique DEF OrganisationInv
<1>3. ASSUME NEW s \in Requests, s # t PROVE Proceeds(s)'
  BY <1>1, <1>3, OthersProceed DEF OrganisationInv, OnlyMoves
<1>4. NotYet(t)'
  <2>1. t \in Stamps /\ NotYet(t)
    BY DEF Stamps, OrganisationInv, Proceeds
  <2> QED
    BY <2>1 DEF NotYet, KindsStay
<1>5. OneByOne'
  BY DEF OrganisationInv, OneByOne, OnlyMoves
<1> QED
  BY <1>1, <1>2, <1>3, <1>4, <1>5 DEF OrganisationInv, Proceeds

(* A step that writes no department and comes to no phase of these.        *)
LEMMA ReadingKept ==
  ASSUME OrganisationInv, NEW t \in Requests, OnlyMoves(t), pc[t] # "done", KindsStay, dept' = dept,
         pc'[t] \notin Importing \cup {"importDepartments", "saveDepartment", "commitDepartment",
                                       "readMemberships", "showOrgChart"}
  PROVE  OrganisationInv'
<1>1. Fewer
  BY SameAreFewer DEF OrganisationInv
<1>2. RowsKept'
  BY DEF OrganisationInv, RowsKept, OnlyMoves
<1>3. OfPlan(t)' /\ WithLock(t)' /\ Found(t)' /\ Charted(t)'
  BY DEF OfPlan, WithLock, Found, Charted, Importing
<1> QED
  BY <1>1, <1>2, <1>3, OwnKept

(* An import begins with a file of the plan and asks for the lock.         *)
LEMMA BeginImportKept ==
  ASSUME OrganisationInv, NEW t \in Requests, BeginImportDepartments(t)
  PROVE  OrganisationInv'
<1>1. PICK file \in Plan.files : BeginImport(t, "importDepartments", file)
  BY DEF BeginImportDepartments
<1>2. /\ OnlyMoves(t) /\ pc[t] = "idle" /\ pc'[t] = "importDepartments" /\ want'[t] = ImportLocks
      /\ req'[t].arg = file /\ Plan' = Plan
  BY <1>1, BeginMoves DEF BeginImport, OrganisationInv, OnlyMoves, Plan
<1>3. KindsStay /\ dept' = dept
  BY <1>1, SameKinds DEF BeginImport, BeginImportDepartments, organisationVars, OrganisationInv
<1>4. Fewer /\ RowsKept'
  BY <1>2, <1>3, SameAreFewer DEF OrganisationInv, RowsKept, OnlyMoves
<1>5. OfPlan(t)' /\ WithLock(t)' /\ Found(t)' /\ Charted(t)'
  BY <1>1, <1>2 DEF OfPlan, WithLock, Found, Charted, Importing, File
<1> QED
  BY <1>2, <1>3, <1>4, <1>5, OwnKept DEF Importing

(* It gets the lock when no other import has it, and finds every name.     *)
LEMMA ReadDepartmentsKept ==
  ASSUME OrganisationInv, NEW t \in Requests, ReadDepartments(t)
  PROVE  OrganisationInv'
<1> DEFINE lock == Lock(Update, ImportLock)
           file == File(t)
           names == NamesIn(file) \cup {file[i].parent : i \in DOMAIN file}
           saw == [name \in names |-> Named(name)]
<1>1. PICK locks : Goto(t, "examineDepartments", locks, saw)
  BY Zenon DEF ReadDepartments
<1>2. /\ OnlyMoves(t) /\ pc[t] = "importDepartments" /\ Granted(t) /\ Plan' = Plan
      /\ pc'[t] = "examineDepartments" /\ held'[t] = Taken(t) /\ req'[t].arg = req[t].arg /\ req'[t].saw = saw
  BY <1>1, GotoMoves DEF ReadDepartments, At, OrganisationInv, OnlyMoves, Plan
<1>3. KindsStay /\ dept' = dept /\ batches' = batches
  BY SameKinds DEF ReadDepartments, organisationVars, OrganisationInv
<1>4. Fewer /\ RowsKept'
  BY <1>2, <1>3, SameAreFewer DEF OrganisationInv, RowsKept, OnlyMoves
<1>5. want[t] = <<lock>> /\ file \in Plan.files
  BY <1>2 DEF OrganisationInv, Proceeds, WithLock, OfPlan, ImportLocks
<1>6. lock \in held'[t]
  BY <1>2, <1>5, RowIsTaken
<1>7. ASSUME NEW s \in Requests \ {t} PROVE pc[s] \notin Importing
  <2>1. pc[s] \in Importing => lock \in held[s]
    BY DEF OrganisationInv, Proceeds, WithLock
  <2> HIDE DEF lock
  <2>2. Update \in {Write, Update}
    OBVIOUS
  <2> QED
    BY <1>2, <1>5, <2>1, <2>2, RowIsHeld DEF lock
<1>8. Found(t)'
  <2> SUFFICES ASSUME NEW d \in DOMAIN dept, dept[d].name \in NamesIn(file) PROVE d \in saw[dept[d].name]
    BY <1>2, <1>3 DEF Found, File
  <2>1. dept[d].name \in names /\ d \in Named(dept[d].name)
    BY DEF Named
  <2> HIDE DEF names
  <2> QED
    BY <2>1
<1>9. OfPlan(t)' /\ WithLock(t)' /\ Charted(t)'
  BY <1>2, <1>5, <1>6 DEF OfPlan, WithLock, Charted, Importing, File
<1> QED
  BY <1>2, <1>3, <1>4, <1>7, <1>8, <1>9, OwnKept

(* It goes on when it has found none of its names.                         *)
LEMMA ExamineDepartmentsKept ==
  ASSUME OrganisationInv, NEW t \in Requests, ExamineDepartments(t)
  PROVE  OrganisationInv'
<1>1. pc[t] = "examineDepartments" /\ dept' = dept
  BY DEF ExamineDepartments, At, organisationVars
<1>2. CASE Refused(t)
  <2>1. OnlyMoves(t) /\ pc'[t] = "done" /\ KindsStay
    BY <1>2, DoneMoves, SameKinds DEF Refused, OrganisationInv
  <2> QED
    BY <1>1, <2>1, ReadingKept DEF Importing
<1>3. CASE ~Refused(t)
  <2>1. PICK locks : Goto(t, "insertDepartments", locks, ParentIds(t))
    BY <1>3, Zenon DEF ExamineDepartments
  <2>2. plan' = plan /\ batches' = batches /\ \A i \in DOMAIN File(t) : req[t].saw[File(t)[i].name] = {}
    BY <1>3 DEF ExamineDepartments
  <2>3. /\ OnlyMoves(t) /\ pc'[t] = "insertDepartments" /\ held'[t] = Taken(t) /\ Plan' = Plan
        /\ req'[t].arg = req[t].arg /\ req'[t].saw = ParentIds(t)
    BY <2>1, <2>2, GotoMoves DEF OrganisationInv, OnlyMoves, Plan
  <2>4. KindsStay
    BY <2>2, SameKinds DEF OrganisationInv
  <2>5. Fewer /\ RowsKept'
    BY <1>1, <2>3, <2>4, SameAreFewer DEF OrganisationInv, RowsKept, OnlyMoves
  <2>6. File(t) \in Plan.files /\ Lock(Update, ImportLock) \in held'[t]
    BY <1>1, <2>3 DEF OrganisationInv, Proceeds, OfPlan, WithLock, Importing, Taken
  <2>7. \A name \in NamesIn(File(t)) : req[t].saw[name] = {}
    BY <2>2, Zenon DEF NamesIn
  <2>8. \A d \in DOMAIN dept : AsMade(d) => dept[d].name \notin NamesIn(File(t))
    BY <1>1, <2>7 DEF OrganisationInv, Proceeds, Found
  <2>9. ParentIds(t) = [x \in DOMAIN ParentIds(t) |-> ParentIds(t)[x]]
    BY DEF ParentIds
  <2>10. Found(t)'
    BY <1>1, <2>2, <2>3, <2>8, <2>9 DEF Found, AsMade, File
  <2>11. OfPlan(t)' /\ WithLock(t)' /\ Charted(t)'
    BY <2>3, <2>6 DEF OfPlan, WithLock, Charted, Importing, File
  <2>12. \A s \in Requests \ {t} : pc[s] \notin Importing
    BY <1>1 DEF OrganisationInv, OneByOne, Importing
  <2> QED
    BY <1>1, <2>3, <2>4, <2>5, <2>10, <2>11, <2>12, OwnKept
<1> QED
  BY <1>2, <1>3

(* The parents are there, and it goes on.                                  *)
LEMMA InsertDepartmentsKept ==
  ASSUME OrganisationInv, NEW t \in Requests, InsertDepartments(t)
  PROVE  OrganisationInv'
<1>1. pc[t] = "insertDepartments" /\ dept' = dept
  BY DEF InsertDepartments, At, organisationVars
<1>2. CASE Refused(t)
  <2>1. OnlyMoves(t) /\ pc'[t] = "done" /\ KindsStay
    BY <1>2, DoneMoves, SameKinds DEF Refused, OrganisationInv
  <2> QED
    BY <1>1, <2>1, ReadingKept DEF Importing
<1>3. CASE ~Refused(t)
  <2>1. Goto(t, "commitDepartments", <<>>, req[t].saw) /\ plan' = plan /\ batches' = batches
    BY <1>3 DEF InsertDepartments
  <2>2. /\ OnlyMoves(t) /\ pc'[t] = "commitDepartments" /\ held'[t] = Taken(t) /\ Plan' = Plan
        /\ req'[t].arg = req[t].arg /\ req'[t].saw = req[t].saw
    BY <2>1, GotoMoves DEF OrganisationInv, OnlyMoves, Plan
  <2>3. KindsStay
    BY <2>1, SameKinds DEF OrganisationInv
  <2>4. Fewer /\ RowsKept'
    BY <1>1, <2>2, <2>3, SameAreFewer DEF OrganisationInv, RowsKept, OnlyMoves
  <2>5. Proceeds(t)
    BY DEF OrganisationInv
  <2>6. Found(t)'
    BY <1>1, <2>1, <2>2, <2>5 DEF Proceeds, Found, AsMade, File
  <2>7. OfPlan(t)' /\ WithLock(t)' /\ Charted(t)'
    BY <1>1, <2>2, <2>5 DEF Proceeds, OfPlan, WithLock, Charted, Importing, File, Taken
  <2>8. \A s \in Requests \ {t} : pc[s] \notin Importing
    BY <1>1 DEF OrganisationInv, OneByOne, Importing
  <2> QED
    BY <1>1, <2>2, <2>3, <2>4, <2>6, <2>7, <2>8, OwnKept
<1> QED
  BY <1>2, <1>3

(* Its rows are committed: no other stands with one of their names, and    *)
(* each has its own.                                                       *)
LEMMA CommitDepartmentsKept ==
  ASSUME OrganisationInv, NEW t \in Requests, CommitDepartments(t)
  PROVE  OrganisationInv'
<1> DEFINE made == MadeFrom(t)
           file == File(t)
<1>1. /\ pc[t] = "commitDepartments" /\ dept' = Over(made, dept) /\ plan' = plan
      /\ batches' = [batches EXCEPT ![t] = Batch("departments", {<<t, name>> : name \in NamesIn(file)})]
      /\ OnlyMoves(t) /\ pc'[t] = "done"
  BY DoneMoves DEF CommitDepartments, At, Imported, OrganisationInv
<1>2. file \in Plan.files /\ Found(t) /\ plan.name \in DOMAIN Plans
  BY <1>1 DEF OrganisationInv, Proceeds, OfPlan, Importing, Shaped
<1>3. file \in Seq(Range(file)) /\ None \notin {t} \X NamesIn(file)
  BY <1>2, DepartmentsAssumption DEF Plan
<1>4. /\ DOMAIN made \subseteq {t} \X NamesIn(file)
      /\ \A d \in DOMAIN made : made[d].name = d[2] /\ made[d].stamp = t
  <2>1. req[t].saw = [x \in DOMAIN req[t].saw |-> req[t].saw[x]]
    BY <1>1, <1>2 DEF Found
  <2> QED
    BY <1>3, <2>1, MadeIsOfFile
<1> HIDE DEF made, file
<1>5. /\ DOMAIN dept' = DOMAIN made \cup DOMAIN dept
      /\ \A d \in DOMAIN dept' : dept'[d] = IF d \in DOMAIN made THEN made[d] ELSE dept[d]
  BY <1>1 DEF Over
<1>6. ASSUME NEW d \in DOMAIN dept PROVE d # None /\ d[1] \in Stamps /\ d[1] # t /\ d \notin DOMAIN made
  <2>1. d # None /\ d[1] \in Stamps /\ (d[1] \in Requests => pc[d[1]] = "done")
    BY DEF OrganisationInv, RowsKept
  <2>2. d[1] # t
    BY <1>1, <2>1
  <2> QED
    BY <1>4, <2>1, <2>2
<1>7. ASSUME NEW d \in DOMAIN made
      PROVE  /\ d # None /\ d = <<t, made[d].name>> /\ d[1] = t /\ made[d].name \in NamesIn(file)
  <2>1. d \in {t} \X NamesIn(file) /\ made[d].name = d[2]
    BY <1>4
  <2> QED
    BY <1>3, <2>1
<1>8. RowsKept'
  BY <1>1, <1>5, <1>6, <1>7 DEF OrganisationInv, RowsKept, OnlyMoves, Stamps
<1>9. t \in Stamps /\ DOMAIN batches = Stamps /\ BatchesKept'
  BY <1>1 DEF Stamps, OrganisationInv, BatchesKept, Batch
<1>10. ASSUME NEW d \in DOMAIN dept, AsMade(d)'
       PROVE  AsMade(d) /\ dept'[d] = dept[d] /\ dept[d].name \notin NamesIn(file)
  <2>1. dept'[d] = dept[d] /\ batches'[d[1]] = batches[d[1]]
    BY <1>1, <1>5, <1>6, <1>9
  <2>2. AsMade(d)
    BY <1>10, <2>1 DEF AsMade
  <2> QED
    BY <1>1, <1>2, <2>1, <2>2 DEF Found, file
<1>11. ImportedNamesUnique'
  <2> SUFFICES ASSUME NEW d \in DOMAIN dept', NEW e \in DOMAIN dept', AsMade(d)', AsMade(e)',
                      dept'[d].name = dept'[e].name
               PROVE  d = e
    BY DEF ImportedNamesUnique, AsMade
  <2>1. CASE d \in DOMAIN made /\ e \in DOMAIN made
    BY <1>5, <1>7, <2>1
  <2>2. CASE d \in DOMAIN made /\ e \notin DOMAIN made
    BY <1>5, <1>7, <1>10, <2>2
  <2>3. CASE d \notin DOMAIN made /\ e \in DOMAIN made
    BY <1>5, <1>7, <1>10, <2>3
  <2>4. CASE d \notin DOMAIN made /\ e \notin DOMAIN made
    <3>1. AsMade(d) /\ AsMade(e) /\ d \in DOMAIN dept /\ e \in DOMAIN dept /\ dept[d].name = dept[e].name
      BY <1>5, <1>10, <2>4
    <3> QED
      BY <3>1 DEF OrganisationInv, ImportedNamesUnique, AsMade
  <2> QED
    BY <2>1, <2>2, <2>3, <2>4
<1>12. OneByOne'
  BY <1>1 DEF OrganisationInv, OneByOne, OnlyMoves, Importing
<1>13. ASSUME NEW s \in Requests PROVE Proceeds(s)'
  <2>1. CASE s = t
    BY <1>1, <2>1 DEF Proceeds, NotYet, OfPlan, WithLock, Found, Charted, Importing
  <2>2. CASE s # t
    <3>1. pc[s] \notin Importing
      BY <1>1, <2>2 DEF OrganisationInv, OneByOne, Importing
    <3>2. /\ pc'[s] = pc[s] /\ req'[s] = req[s] /\ held'[s] = held[s] /\ want'[s] = want[s]
          /\ batches'[s] = batches[s] /\ Proceeds(s) /\ Plan' = Plan
      BY <1>1, <1>9, <2>2 DEF OnlyMoves, OrganisationInv, Stamps, Plan
    <3>3. NotYet(s)'
      BY <3>2 DEF Proceeds, NotYet
    <3>4. OfPlan(s)' /\ WithLock(s)'
      BY <3>2 DEF Proceeds, OfPlan, WithLock, File
    <3>5. Charted(s)'
      BY <3>2 DEF Proceeds, Charted, Nodes
    <3>6. Found(s)'
      BY <3>1, <3>2 DEF Found, Importing
    <3> QED
      BY <3>3, <3>4, <3>5, <3>6 DEF Proceeds
  <2> QED
    BY <2>1, <2>2
<1> QED
  BY <1>1, <1>8, <1>9, <1>11, <1>12, <1>13 DEF OrganisationInv, OnlyMoves

(* An undo takes departments away and writes none.                         *)
LEMMA UndoDepartmentsKept ==
  ASSUME OrganisationInv, NEW t \in Requests, UndoDepartments(t)
  PROVE  OrganisationInv'
<1>1. pc[t] = "undoDepartments"
  BY DEF UndoDepartments, At
<1>2. CASE Refused(t) /\ dept' = dept
  <2>1. OnlyMoves(t) /\ pc'[t] = "done" /\ KindsStay
    BY <1>2, DoneMoves, SameKinds DEF Refused, OrganisationInv
  <2> QED
    BY <1>1, <1>2, <2>1, ReadingKept DEF Importing
<1>3. CASE ~(Refused(t) /\ dept' = dept)
  <2>1. PICK gone : dept' = Restrict(dept, DOMAIN dept \ gone) /\ Undone(t)
    BY <1>3, Zenon DEF UndoDepartments
  <2>2. OnlyMoves(t) /\ pc'[t] = "done" /\ KindsStay
    BY <2>1, DoneMoves, UndoneKinds DEF Undone, OrganisationInv
  <2>3. DOMAIN dept' \subseteq DOMAIN dept /\ \A d \in DOMAIN dept' : dept'[d] = dept[d]
    BY <2>1 DEF Restrict
  <2>4. Fewer
    BY <2>2, <2>3 DEF OrganisationInv, RowsKept, KindsStay, Fewer, AsMade
  <2>5. RowsKept'
    BY <2>2, <2>3 DEF OrganisationInv, RowsKept, OnlyMoves
  <2>6. OfPlan(t)' /\ WithLock(t)' /\ Found(t)' /\ Charted(t)'
    BY <2>2 DEF OfPlan, WithLock, Found, Charted, Importing
  <2> QED
    BY <1>1, <2>2, <2>4, <2>5, <2>6, OwnKept DEF Importing
<1> QED
  BY <1>2, <1>3

(* A department that somebody saves is none that was imported.             *)
LEMMA SaveDepartmentKept ==
  ASSUME OrganisationInv, NEW t \in Requests, BeginSaveDepartment(t) \/ SaveDepartment(t) \/ CommitDepartment(t)
  PROVE  OrganisationInv'
<1>1. CASE BeginSaveDepartment(t)
  <2>1. PICK name \in Plan.names, parent \in DOMAIN dept \cup {None}, owner \in Plan.owners :
          Begin(t, "saveDepartment", [name |-> name, parent |-> parent, owner |-> owner],
                "saveDepartment", OwnerLock(owner) \o RefLock(parent))
    BY <1>1 DEF BeginSaveDepartment
  <2>2. /\ OnlyMoves(t) /\ pc[t] = "idle" /\ pc'[t] = "saveDepartment" /\ req'[t].arg.name \in Plan.names
        /\ Plan' = Plan
    BY <2>1, BeginMoves DEF OrganisationInv, OnlyMoves, Plan
  <2>3. KindsStay /\ dept' = dept
    BY <1>1, SameKinds DEF BeginSaveDepartment, organisationVars, OrganisationInv
  <2>4. Fewer /\ RowsKept'
    BY <2>2, <2>3, SameAreFewer DEF OrganisationInv, RowsKept, OnlyMoves
  <2>5. OfPlan(t)' /\ WithLock(t)' /\ Found(t)' /\ Charted(t)'
    BY <2>2 DEF OfPlan, WithLock, Found, Charted, Importing
  <2> QED
    BY <2>2, <2>3, <2>4, <2>5, OwnKept DEF Importing
<1>2. CASE SaveDepartment(t)
  <2>1. /\ OnlyMoves(t) /\ pc[t] = "saveDepartment" /\ Plan' = Plan /\ pc'[t] \in {"commitDepartment", "done"}
        /\ pc'[t] = "commitDepartment" => req'[t].arg = req[t].arg
    BY <1>2, GotoMoves, DoneMoves DEF SaveDepartment, At, OrganisationInv, OnlyMoves, Plan
  <2>2. KindsStay /\ dept' = dept
    BY <1>2, SameKinds DEF SaveDepartment, organisationVars, OrganisationInv
  <2>3. Fewer /\ RowsKept'
    BY <2>1, <2>2, SameAreFewer DEF OrganisationInv, RowsKept, OnlyMoves
  <2>4. OfPlan(t)' /\ WithLock(t)' /\ Found(t)' /\ Charted(t)'
    BY <2>1 DEF OrganisationInv, Proceeds, OfPlan, WithLock, Found, Charted, Importing
  <2> QED
    BY <2>1, <2>2, <2>3, <2>4, OwnKept DEF Importing
<1>3. CASE CommitDepartment(t)
  <2>0. PICK new : new = <<t, req[t].arg.name>>
    OBVIOUS
  <2>1. OnlyMoves(t) /\ pc[t] = "commitDepartment" /\ pc'[t] = "done" /\ batches' = batches
    BY <1>3, DoneMoves DEF CommitDepartment, At, OrganisationInv
  <2>2. KindsStay
    BY <2>1, SameKinds DEF OrganisationInv
  <2>3. /\ DOMAIN dept' = DOMAIN dept \cup {new}
        /\ \A d \in DOMAIN dept \ {new} : dept'[d] = dept[d]
    BY <1>3, <2>0 DEF CommitDepartment, WithRow
  <2>4. new # None /\ new[1] = t /\ t \in Stamps
    <3>1. req[t].arg.name \in Plan.names /\ plan.name \in DOMAIN Plans
      BY <2>1 DEF OrganisationInv, Proceeds, OfPlan, Shaped
    <3> QED
      BY <2>0, <3>1, DepartmentsAssumption DEF Plan, Stamps
  <2>5. ~AsMade(new)'
    BY <2>1, <2>4 DEF OrganisationInv, Proceeds, NotYet, AsMade
  <2>6. Fewer
    BY <2>1, <2>3, <2>5 DEF Fewer, AsMade
  <2>7. RowsKept'
    BY <2>1, <2>3, <2>4 DEF OrganisationInv, RowsKept, OnlyMoves
  <2>8. OfPlan(t)' /\ WithLock(t)' /\ Found(t)' /\ Charted(t)'
    BY <2>1 DEF OfPlan, WithLock, Found, Charted, Importing
  <2> QED
    BY <2>1, <2>2, <2>6, <2>7, <2>8, OwnKept DEF Importing
<1> QED
  BY <1>1, <1>2, <1>3

(* Nor is one that somebody rewrites: it no longer stands as imported.     *)
LEMMA WriteDepartmentKept ==
  ASSUME OrganisationInv, NEW t \in Requests, WriteDepartment(t)
  PROVE  OrganisationInv'
<1> DEFINE id == req[t].arg.id
<1>1. OnlyMoves(t) /\ pc[t] = "writeDepartment" /\ pc'[t] = "done" /\ batches' = batches
  BY DoneMoves DEF WriteDepartment, At, OrganisationInv
<1>2. KindsStay
  BY <1>1, SameKinds DEF OrganisationInv
<1>3. /\ DOMAIN dept' = DOMAIN dept
      /\ \A d \in DOMAIN dept : dept'[d] = dept[d] \/ dept'[d].stamp = t
  BY DEF WriteDepartment
<1>4. \A d \in DOMAIN dept : d[1] # t
  BY <1>1 DEF OrganisationInv, RowsKept
<1>5. Fewer
  BY <1>1, <1>3, <1>4 DEF Fewer, AsMade, AsImported
<1>6. RowsKept'
  BY <1>1, <1>3 DEF OrganisationInv, RowsKept, OnlyMoves
<1>7. OfPlan(t)' /\ WithLock(t)' /\ Found(t)' /\ Charted(t)'
  BY <1>1 DEF OfPlan, WithLock, Found, Charted, Importing
<1> QED
  BY <1>1, <1>2, <1>5, <1>6, <1>7, OwnKept DEF Importing

(* The chart has read departments, none of which is none.                  *)
LEMMA ChartKept ==
  ASSUME OrganisationInv, NEW t \in Requests, ChartStep(t), Passes(t, ChartPhases)
  PROVE  OrganisationInv'
<1>0. OnlyMoves(t) /\ pc[t] # "done"
  BY DEF Passes, ChartPhases
<1>1. KindsStay /\ dept' = dept
  BY SameKinds DEF ChartStep, BeginOrgChart, ReadNodes, ReadMemberships, ShowOrgChart, organisationVars, OrganisationInv
<1>2. Fewer /\ RowsKept'
  BY <1>0, <1>1, SameAreFewer DEF OrganisationInv, RowsKept, OnlyMoves
<1>3. CASE BeginOrgChart(t)
  <2>1. pc'[t] = "readNodes"
    BY <1>3, BeginMoves DEF BeginOrgChart, OrganisationInv
  <2> QED
    BY <1>0, <1>1, <2>1, ReadingKept DEF Importing
<1>4. CASE ReadNodes(t)
  <2>1. pc'[t] = "readMemberships" /\ DOMAIN req'[t].saw.parent = DOMAIN dept
    BY <1>4, GotoMoves DEF ReadNodes, OrganisationInv
  <2>2. Charted(t)'
    BY <2>1 DEF OrganisationInv, RowsKept, Charted, Nodes
  <2>3. OfPlan(t)' /\ WithLock(t)' /\ Found(t)'
    BY <2>1 DEF OfPlan, WithLock, Found, Importing
  <2> QED
    BY <1>0, <1>1, <1>2, <2>1, <2>2, <2>3, OwnKept DEF Importing
<1>5. CASE ReadMemberships(t)
  <2>1. pc[t] = "readMemberships" /\ pc'[t] = "showOrgChart" /\ req'[t].saw.parent = req[t].saw.parent
    BY <1>5, GotoMoves DEF ReadMemberships, At, OrganisationInv
  <2>2. Charted(t)'
    BY <2>1 DEF OrganisationInv, Proceeds, Charted, Nodes
  <2>3. OfPlan(t)' /\ WithLock(t)' /\ Found(t)'
    BY <2>1 DEF OfPlan, WithLock, Found, Importing
  <2> QED
    BY <1>0, <1>1, <1>2, <2>1, <2>2, <2>3, OwnKept DEF Importing
<1>6. CASE ShowOrgChart(t)
  <2>1. pc'[t] = "done"
    BY <1>6, DoneMoves DEF ShowOrgChart, OrganisationInv
  <2> QED
    BY <1>0, <1>1, <2>1, ReadingKept DEF Importing
<1> QED
  BY <1>3, <1>4, <1>5, <1>6 DEF ChartStep

(* Every step of the departments keeps the invariant.                      *)
LEMMA DepartmentsKept ==
  ASSUME OrganisationInv, NEW t \in Requests, OrganisationStep(t), Passes(t, OrganisationPhases)
  PROVE  OrganisationInv'
<1> DEFINE Apart == pc'[t] \notin Importing \cup {"importDepartments", "saveDepartment", "commitDepartment",
                                                  "readMemberships", "showOrgChart"}
<1>0. Shaped /\ BatchesKept /\ OnlyMoves(t) /\ pc[t] # "done"
  BY DEF OrganisationInv, Passes, OrganisationPhases
<1>1. ASSUME KindsStay, dept' = dept, Apart PROVE OrganisationInv'
  BY <1>0, <1>1, ReadingKept
<1>2. CASE \/ BeginImportDepartments(t) \/ ReadDepartments(t) \/ ExamineDepartments(t) \/ InsertDepartments(t)
           \/ CommitDepartments(t) \/ UndoDepartments(t) \/ WriteDepartment(t)
           \/ BeginSaveDepartment(t) \/ SaveDepartment(t) \/ CommitDepartment(t)
  BY <1>2, BeginImportKept, ReadDepartmentsKept, ExamineDepartmentsKept, InsertDepartmentsKept,
     CommitDepartmentsKept, UndoDepartmentsKept, WriteDepartmentKept, SaveDepartmentKept
<1> USE SameKinds, ImportedKinds, UndoneKinds, BeginMoves, GotoMoves, DoneMoves DEF organisationVars, Importing
<1>3. CASE BeginUndoDepartments(t)    BY <1>0, <1>1, <1>3 DEF BeginUndoDepartments, BeginUndo
<1>4. CASE BeginImportAssignments(t)  BY <1>0, <1>1, <1>4 DEF BeginImportAssignments, BeginImport
<1>5. CASE ReadAssignments(t)         BY <1>0, <1>1, <1>5 DEF ReadAssignments
<1>6. CASE ExamineAssignments(t)
  <2>1. dept' = dept /\ batches' = batches /\ plan' = plan
    BY <1>6 DEF ExamineAssignments, Refused
  <2>2. CASE Done(t)
    BY <1>0, <1>1, <2>1, <2>2
  <2>3. CASE ~Done(t)
    <3>1. PICK targets : AssignFrom(t, 1, targets, <<>>, <<>>)
      BY <1>6, <2>3, Zenon DEF ExamineAssignments, Refused
    <3> QED
      BY <1>0, <1>1, <2>1, <3>1 DEF AssignFrom
  <2> QED
    BY <2>2, <2>3
<1>7. CASE AssignMember(t)            BY <1>0, <1>1, <1>7 DEF AssignMember, AssignFrom, Refused
<1>8. CASE CommitAssignments(t)
  <2>1. dept' = dept /\ plan' = plan /\ Done(t)
    BY <1>8 DEF CommitAssignments, Imported, Refused
  <2>2. KindsStay
    BY <1>0, <1>8 DEF CommitAssignments, Refused
  <2> QED
    BY <1>0, <1>1, <2>1, <2>2
<1>9. CASE BeginUndoAssignments(t)    BY <1>0, <1>1, <1>9 DEF BeginUndoAssignments, BeginUndo
<1>10. CASE UndoAssignments(t)        BY <1>0, <1>1, <1>10 DEF UndoAssignments
<1>11. CASE RestoreAssignments(t)     BY <1>0, <1>1, <1>11 DEF RestoreAssignments, Undone, Refused
<1>12. CASE BeginUpdateDepartment(t)  BY <1>0, <1>1, <1>12 DEF BeginUpdateDepartment
<1>13. CASE UpdateDepartment(t)       BY <1>0, <1>1, <1>13 DEF UpdateDepartment
<1>14. CASE BeginSaveMembership(t)    BY <1>0, <1>1, <1>14 DEF BeginSaveMembership
<1>15. CASE SaveMembership(t)         BY <1>0, <1>1, <1>15 DEF SaveMembership
<1>16. CASE CommitMembership(t)       BY <1>0, <1>1, <1>16 DEF CommitMembership
<1>17. CASE BeginSaveMemberRole(t)    BY <1>0, <1>1, <1>17 DEF BeginSaveMemberRole
<1>18. CASE SaveMemberRole(t)         BY <1>0, <1>1, <1>18 DEF SaveMemberRole
<1> QED
  BY <1>2, <1>3, <1>4, <1>5, <1>6, <1>7, <1>8, <1>9, <1>10, <1>11, <1>12, <1>13, <1>14, <1>15, <1>16, <1>17,
     <1>18 DEF OrganisationStep

(* So does every step.                                                     *)
LEMMA OrganisationKept ==
  ASSUME OrganisationInv, [Next]_vars PROVE OrganisationInv'
<1>1. Shaped /\ BatchesKept
  BY DEF OrganisationInv
<1> QED
  BY <1>1, OrganisationSteps, DepartmentsKept, ChartKept, ElsewhereKept

(* At first no import is under way, and the tables are those of a plan.    *)
LEMMA OrganisationInit ==
  ASSUME Init PROVE OrganisationInv
<1>1. PICK name \in DOMAIN Plans :
        /\ plan.name = name /\ dept = Plans[name].tables.dept
        /\ batches = [b \in Stamps |-> IF b = First THEN Plans[name].tables.batch ELSE NoBatch]
  BY DEF Init
<1> DEFINE table == Plans[name].tables.dept
           batch == Plans[name].tables.batch
<1>2. /\ \A d \in DOMAIN table : d # None /\ d[1] \in Stamps \ Requests
      /\ batch.kind = "departments" =>
           \A d, e \in {x \in DOMAIN table : x[1] = First /\ AsImported(table[x], First)} :
             table[d].name = table[e].name => d = e
  BY DepartmentsAssumption
<1>3. First \notin Requests /\ DOMAIN batch = {"kind", "items", "undone"}
  BY BatchAssumption
<1>4. Shaped /\ \A t \in Requests : pc[t] = "idle"
  BY ShapedInit
<1>5. BatchesKept /\ RowsKept
  BY <1>1, <1>2, <1>3 DEF BatchesKept, RowsKept, NoBatch
<1>6. ASSUME NEW d \in DOMAIN dept, AsMade(d)
      PROVE  d[1] = First /\ AsImported(table[d], First) /\ batch.kind = "departments"
  BY <1>1, <1>2, <1>6 DEF AsMade, NoBatch
<1>7. ImportedNamesUnique
  <2> SUFFICES ASSUME NEW d \in DOMAIN dept, NEW e \in DOMAIN dept, AsMade(d), AsMade(e),
                      dept[d].name = dept[e].name
               PROVE  d = e
    BY DEF ImportedNamesUnique, AsMade
  <2> QED
    BY <1>1, <1>2, <1>6
<1>8. ASSUME NEW t \in Requests PROVE Proceeds(t)
  <2>1. batches[t].kind = "none"
    BY <1>1, <1>3 DEF Stamps, NoBatch
  <2> QED
    BY <1>4, <2>1 DEF Proceeds, NotYet, OfPlan, WithLock, Found, Charted, Importing
<1> QED
  BY <1>4, <1>5, <1>7, <1>8 DEF OrganisationInv, OneByOne, Importing

-----------------------------------------------------------------------------
(* Policies: in what order imports of drafts and their undo take locks.    *)

PolicyWaits == {"importPolicies", "examinePolicies", "insertVersions", "undoPolicies"}

(* What they lock: the imports, a policy, a version of a policy.           *)
PolicyOf(l)        == l[2][2]
OfImports(l) == l = Lock(Update, ImportLock)
OfPolicy(l)  == l = Lock(Update, PolicyRow(PolicyOf(l)))
OfVersion(l) == l = Lock(Update, VersionRow(PolicyOf(l), l[2][3]))

(* One lock may be taken when another is held: the imports first, then the *)
(* policies in the order of their ids, then the versions in any order.     *)
Precedes(l, m) ==
  \/ OfVersion(m)
  \/ OfPolicy(m) /\ (OfImports(l) \/ (OfPolicy(l) /\ PolicyOf(l)[2] < PolicyOf(m)[2]))

(* Whoever holds these locks takes those in such an order.                 *)
InOrder(locks, waits) ==
  /\ waits \in Seq(ToSet(waits))
  /\ \A i \in 1..Len(waits) : \A l \in locks \cup {waits[j] : j \in 1..(i - 1)} : Precedes(l, waits[i])

(* A policy was made by a transaction that is done.                        *)
Committed(p) == p \in Stamps \X Titles /\ (p[1] \in Requests => pc[p[1]] = "done")

(* A version is locked together with its policy, unless nobody else can    *)
(* know the policy.                                                        *)
WithPolicy(t, all, l) ==
  \/ OfImports(l)
  \/ OfPolicy(l) /\ Committed(PolicyOf(l))
  \/ OfVersion(l) /\ (PolicyOf(l)[1] = t \/ Lock(Update, PolicyRow(PolicyOf(l))) \in all)

InLine(t) ==
  pc[t] \in PolicyWaits =>
    /\ InOrder(held[t], want[t])
    /\ \A l \in held[t] \cup ToSet(want[t]) : WithPolicy(t, held[t] \cup ToSet(want[t]), l)

(* An import has a file of the plan, the lock of the imports, and then of  *)
(* the policies it found; what it makes has titles of its own.             *)
Titling(P) == \A p, q \in P : p[2] = q[2] => p = q

ImportingPolicies(t) ==
  /\ pc[t] \in {"importPolicies", "examinePolicies", "insertVersions"} => File(t) \in Plan.drafts
  /\ pc[t] = "importPolicies" => held[t] = {} /\ want[t] = ImportLocks
  /\ pc[t] \in {"examinePolicies", "insertVersions"} =>
       /\ Lock(Update, ImportLock) \in held[t] \cup ToSet(want[t])
       /\ Lock(Update, ImportLock) \notin ToSet(want[t])
  /\ pc[t] = "examinePolicies" =>
       \A p \in req[t].saw : Lock(Update, PolicyRow(p)) \in held[t] \cup ToSet(want[t])
  /\ pc[t] = "insertVersions" =>
       /\ Titling(DOMAIN policy \cup {v.id : v \in req[t].saw})
       /\ IsFiniteSet(req[t].saw)
       /\ \A v \in req[t].saw : v.id \in Stamps \X Titles /\ (v.id[1] = t \/ Committed(v.id))

PoliciesInv ==
  /\ Shaped /\ LocksInv /\ BatchesKept
  /\ IsFiniteSet(DOMAIN policy) /\ Titling(DOMAIN policy) /\ \A p \in DOMAIN policy : Committed(p)
  /\ \A b \in Stamps : batches[b].kind = "policies" => IsFiniteSet(batches[b].items)
  /\ \A t \in Requests : InLine(t) /\ ImportingPolicies(t)

(* What a request waits for it takes in the order it is in.                *)
LEMMA TakenInOrder ==
  ASSUME NEW locks, NEW waits, InOrder(locks, waits), Len(waits) > 1
  PROVE  /\ InOrder(locks \cup {Head(waits)}, Tail(waits))
         /\ (locks \cup {Head(waits)}) \cup ToSet(Tail(waits)) = locks \cup ToSet(waits)
         /\ ToSet(Tail(waits)) \subseteq ToSet(waits)
<1>1. PICK w \in Seq(ToSet(waits)) : w = waits
  BY DEF InOrder
<1>2. PICK n \in Nat : n = Len(w) /\ n > 1
  BY <1>1
<1>3. w \in [1..n -> ToSet(w)] /\ Head(w) = w[1] /\ Len(Tail(w)) = n - 1
  BY <1>1, <1>2
<1>4. \A i \in 1..(n - 1) : Tail(w)[i] = w[i + 1] /\ i + 1 \in 1..n
  BY <1>1, <1>2
<1>5. Tail(w) \in Seq(ToSet(Tail(w)))
  <2>a. PICK all : all = ToSet(waits)
    OBVIOUS
  <2>b. w \in Seq(all) /\ w # <<>>
    BY <1>1, <1>2, <2>a
  <2>c. Tail(w) \in Seq(all) /\ Len(Tail(w)) = n - 1 /\ n - 1 \in Nat
    BY <1>2, <2>b
  <2>d. PICK rest \in Seq(all) : rest = Tail(w)
    BY <2>c
  <2>e. rest \in [1..Len(rest) -> all]
    OBVIOUS
  <2>0. Tail(w) \in [1..(n - 1) -> all] /\ n - 1 \in Nat
    BY <2>c, <2>d, <2>e
  <2>1. Tail(w) \in [1..(n - 1) -> ToSet(Tail(w))]
    BY <2>0 DEF ToSet
  <2> QED
    BY <2>0, <2>1, IsSeq
<1>6. ToSet(w) = {Head(w)} \cup ToSet(Tail(w))
  BY <1>1, <1>2, FirstAndRest
<1>7. ASSUME NEW i \in 1..(n - 1), NEW l \in (locks \cup {Head(w)}) \cup {Tail(w)[j] : j \in 1..(i - 1)}
      PROVE  Precedes(l, Tail(w)[i])
  <2>1. \A j \in 1..(i - 1) : Tail(w)[j] = w[j + 1] /\ j + 1 \in 1..((i + 1) - 1)
    BY <1>2, <1>4
  <2>2. 1 \in 1..((i + 1) - 1)
    BY <1>2
  <2>3. l \in locks \cup {w[j] : j \in 1..((i + 1) - 1)}
    BY <1>3, <1>7, <2>1, <2>2
  <2> QED
    BY <1>1, <1>2, <1>4, <2>3 DEF InOrder
<1> QED
  BY <1>1, <1>3, <1>5, <1>6, <1>7 DEF InOrder

(* A request that waits goes on waiting in line.                           *)
LEMMA LineStays ==
  ASSUME NEW s \in Requests, InLine(s), pc[s] \in PolicyWaits, pc'[s] = pc[s], Waits(s),
         \A i \in Requests : pc[i] = "done" => pc'[i] = "done"
  PROVE  /\ InLine(s)'
         /\ held'[s] \cup ToSet(want'[s]) = held[s] \cup ToSet(want[s])
         /\ ToSet(want'[s]) \subseteq ToSet(want[s])
<1>1. PICK all : all = held[s] \cup ToSet(want[s])
  OBVIOUS
<1>2. InOrder(held[s], want[s]) /\ \A l \in all : WithPolicy(s, all, l)
  BY <1>1 DEF InLine
<1>3. InOrder(held'[s], want'[s]) /\ held'[s] \cup ToSet(want'[s]) = all /\ ToSet(want'[s]) \subseteq ToSet(want[s])
  <2>1. CASE held'[s] = held[s] /\ want'[s] = want[s]
    BY <1>1, <1>2, <2>1
  <2>2. CASE Len(want[s]) > 1 /\ held'[s] = held[s] \cup {Head(want[s])} /\ want'[s] = Tail(want[s])
    <3>1. PICK locks, waits : locks = held[s] /\ waits = want[s]
      OBVIOUS
    <3>2. InOrder(locks, waits) /\ Len(waits) > 1
      BY <1>2, <2>2, <3>1
    <3>3. /\ InOrder(locks \cup {Head(waits)}, Tail(waits))
          /\ (locks \cup {Head(waits)}) \cup ToSet(Tail(waits)) = locks \cup ToSet(waits)
          /\ ToSet(Tail(waits)) \subseteq ToSet(waits)
      BY <3>2, TakenInOrder
    <3> QED
      BY <1>1, <2>2, <3>1, <3>3
  <2> QED
    BY <2>1, <2>2 DEF Waits
<1>4. \A l \in all : WithPolicy(s, all, l)'
  BY <1>2 DEF WithPolicy, Committed
<1>5. InLine(s)'
  BY <1>3, <1>4 DEF InLine, WithPolicy, Committed
<1> QED
  BY <1>1, <1>3, <1>5

(* And an import goes on with its file, as long as nobody adds a policy.   *)
LEMMA ImportStays ==
  ASSUME NEW s \in Requests, InLine(s), ImportingPolicies(s), pc[s] \in PolicyWaits, pc'[s] = pc[s], req'[s] = req[s],
         Waits(s), plan' = plan, \A i \in Requests : pc[i] = "done" => pc'[i] = "done",
         pc[s] = "insertVersions" => DOMAIN policy' \subseteq DOMAIN policy
  PROVE  InLine(s)' /\ ImportingPolicies(s)'
<1>1. /\ InLine(s)' /\ held'[s] \cup ToSet(want'[s]) = held[s] \cup ToSet(want[s])
      /\ ToSet(want'[s]) \subseteq ToSet(want[s])
  BY LineStays
<1>2. ASSUME pc[s] = "insertVersions" PROVE Titling(DOMAIN policy \cup {v.id : v \in req[s].saw})'
  BY <1>2 DEF ImportingPolicies, Titling
<1>3. pc[s] = "insertVersions" => \A v \in req[s].saw : v.id \in Stamps \X Titles /\ (v.id[1] = s \/ Committed(v.id)')
  BY DEF ImportingPolicies, Committed
<1>4. ASSUME pc[s] = "importPolicies" PROVE held'[s] = {} /\ want'[s] = ImportLocks
  <2>1. Len(ImportLocks) = 1
    BY DEF ImportLocks
  <2>2. held[s] = {} /\ want[s] = ImportLocks
    BY <1>4 DEF ImportingPolicies
  <2>3. Len(want[s]) = 1
    BY <2>1, <2>2
  <2>4. ASSUME Len(want[s]) > 1 PROVE FALSE
    BY <2>3, <2>4
  <2> QED
    BY <2>2, <2>4 DEF Waits
<1> QED
  BY <1>1, <1>2, <1>3, <1>4 DEF ImportingPolicies, File, Plan, Committed

(* A step after which no transaction more has imported policies.           *)
PolicyBatchesStay ==
  /\ BatchesKept'
  /\ \A b \in Stamps :
       batches'[b].kind = "policies" => batches[b].kind = "policies" /\ batches'[b].items = batches[b].items

(* Such is one that imports something else.                                *)
LEMMA OthersImportNoPolicies ==
  ASSUME BatchesKept
  PROVE  /\ UNCHANGED batches => PolicyBatchesStay
         /\ \A t, kinds : ImportsOnly(t, kinds) /\ "policies" \notin kinds => PolicyBatchesStay
BY DEF BatchesKept, ImportsOnly, PolicyBatchesStay

(* A step is one of the policies, or it leaves them alone.                 *)
LEMMA PoliciesSteps ==
  ASSUME Shaped, BatchesKept, [Next]_vars
  PROVE  \/ \E t \in Requests : PolicyStep(t) /\ Passes(t, PoliciesPhases)
         \/ PolicyBatchesStay /\ policy' = policy /\ Elsewhere(PoliciesPhases)
<1> DEFINE Apart == Elsewhere(PoliciesPhases)
           Same == PolicyBatchesStay /\ policy' = policy
<1>1. ASSUME NEW t \in Requests, Files(t) \/ Register(t) \/ Applications(t) \/ Work(t) \/ ChangeControl(t)
                                 \/ Incident(t) \/ Decision(t)
      PROVE  Same /\ Apart
  <2>1. ImportsOnly(t, {}) \/ ImportsOnly(t, {"assets", "risks"})
    BY <1>1, FilesImports, RegisterImports, ApplicationsImports, WorkImports, ChangeControlImports, IncidentImports,
       DecisionImports
       DEF Files, Register, Applications, Work, ChangeControl, Incident, Decision
  <2>2. policy' = policy
    BY <1>1, DecisionImports DEF Files, Register, Applications, Work, ChangeControl, Incident, Decision
  <2>3. Apart
    BY <1>1, PassesElsewhere, FilesPasses, RegisterPasses, ApplicationsPasses, WorkPasses,
       ChangeControlPasses, IncidentPasses, DecisionPasses
       DEF PoliciesPhases, Files, FilesPhases, Register, RegisterPhases, Applications,
           ApplicationsPhases, Work, WorkPhases, ChangeControl, ChangeControlPhases,
           Incident, IncidentPhases, Decision, DecisionPhases
  <2>4. "policies" \notin {} /\ "policies" \notin {"assets", "risks"}
    OBVIOUS
  <2>5. PolicyBatchesStay
    BY <2>1, <2>4, OthersImportNoPolicies
  <2> QED
    BY <2>2, <2>3, <2>5
<1>2. ASSUME NEW t \in Requests, Organisation(t)
      PROVE  Same /\ Apart
  <2>1. policy' = policy
    BY <1>2 DEF Organisation
  <2>2. CASE OrganisationStep(t)
    <3>1. Passes(t, OrganisationPhases) /\ ImportsOnly(t, {"departments", "assignments"})
      BY <2>2, OrganisationPasses, OrganisationImports
    <3> QED
      BY <2>1, <3>1, OthersImportNoPolicies, PassesElsewhere DEF OrganisationPhases, PoliciesPhases
  <2>3. CASE ChartStep(t)
    <3>1. Passes(t, ChartPhases)
      BY <2>3, ChartPasses
    <3>2. UNCHANGED batches
      BY <2>3 DEF ChartStep, BeginOrgChart, ReadNodes, ReadMemberships, ShowOrgChart
    <3> QED
      BY <2>1, <3>1, <3>2, OthersImportNoPolicies, PassesElsewhere DEF ChartPhases, PoliciesPhases
  <2> QED
    BY <1>2, <2>2, <2>3 DEF Organisation
<1>3. ASSUME NEW t \in Requests, Shared(t) \/ Audit(t) \/ Journal(t) \/ Standing(t) \/ Competence(t) \/ Devices(t)
                                 \/ Steps(t) \/ Control(t) \/ Passwords(t)
      PROVE  Same
  BY <1>3, OthersImportNoPolicies
     DEF Shared, Audit, Journal, Standing, Competence, Devices, Steps, Control, Passwords
<1>4. ASSUME NEW t \in Requests, Audit(t) \/ Journal(t) \/ Standing(t) \/ Competence(t) \/ Devices(t) \/ Steps(t)
                                 \/ Control(t) \/ Passwords(t)
      PROVE  Apart
  BY <1>4, PassesElsewhere, AuditPasses, JournalPasses, StandingPasses, CompetencePasses, DevicesPasses,
     StepsPasses, ControlPasses, PasswordsPasses
     DEF PoliciesPhases, Audit, AuditPhases, Journal, JournalPhases, Standing, StandingPhases,
         Competence, CompetencePhases, Devices, DevicesPhases, Steps, StepsPhases, Control, ControlPhases,
         Passwords, PasswordsPhases
<1>5. ASSUME NEW t \in Requests, Shared(t)
      PROVE  Apart
  BY <1>5, SharedElsewhere DEF PoliciesPhases
<1>6. ASSUME NEW t \in Requests, Policies(t)
      PROVE  PolicyStep(t) /\ Passes(t, PoliciesPhases)
  BY <1>6, PoliciesPasses DEF Policies
<1>7. ASSUME TimePasses \/ Outside \/ Machinery \/ Terminated \/ UNCHANGED vars
      PROVE  Same /\ Apart
  BY <1>7, OthersImportNoPolicies, RestElsewhere
     DEF TimePasses, ExpireException, ReviewDayComes, EntryFallsDue, DayPasses, DeviationLapses, Outside,
         PortalChanges, SeedLoads, Machinery, Orchestrator, Terminated, vars
<1> QED
  BY <1>1, <1>2, <1>3, <1>4, <1>5, <1>6, <1>7 DEF Next

(* A step of the policies that is not of an import or an undo adds none    *)
(* and takes none away.                                                    *)
LEMMA PolicyGoes ==
  ASSUME Shaped, NEW t \in Requests, PolicyStep(t)
  PROVE  \/ BeginImportPolicies(t) \/ ReadPolicies(t) \/ ExaminePolicies(t) \/ InsertVersions(t)
         \/ BeginUndoPolicies(t) \/ UndoPolicies(t)
         \/ batches' = batches /\ DOMAIN policy' = DOMAIN policy /\ pc'[t] \notin PolicyWaits
<1> USE BeginMoves, GotoMoves, DoneMoves DEF At, PolicyWaits
<1>1. CASE BeginCreatePolicyDraft(t)  BY <1>1 DEF BeginCreatePolicyDraft
<1>2. CASE InsertDraft(t)  BY <1>2 DEF InsertDraft
<1>3. CASE ReferPolicy(t)  BY <1>3 DEF ReferPolicy
<1>4. CASE CommitDraft(t)  BY <1>4 DEF CommitDraft, AddVersion
<1>5. CASE BeginApprovePolicyVersion(t)  BY <1>5 DEF BeginApprovePolicyVersion, BeginApproval
<1>6. CASE ApprovePolicyVersion(t)  BY <1>6 DEF ApprovePolicyVersion
<1>7. CASE BeginActivatePolicyVersion(t)  BY <1>7 DEF BeginActivatePolicyVersion, BeginApproval
<1>8. CASE ActivatePolicyVersion(t)  BY <1>8 DEF ActivatePolicyVersion
<1>9. CASE SupersedeVersions(t)  BY <1>9 DEF SupersedeVersions
<1> QED
  BY <1>1, <1>2, <1>3, <1>4, <1>5, <1>6, <1>7, <1>8, <1>9 DEF PolicyStep

(* The locks of rows are a sequence as long as the rows.                   *)
LEMMA LocksOfRows ==
  ASSUME NEW n \in Nat, NEW rows, DOMAIN rows = 1..n, NEW waits, waits = Locks(Update, rows)
  PROVE  /\ waits \in Seq(ToSet(waits)) /\ Len(waits) = n
         /\ \A i \in 1..n : waits[i] = Lock(Update, rows[i])
         /\ ToSet(waits) = {Lock(Update, rows[i]) : i \in 1..n}
<1>1. DOMAIN waits = 1..n /\ \A i \in 1..n : waits[i] = Lock(Update, rows[i])
  BY DEF Locks
<1>2. waits = [i \in 1..n |-> waits[i]]
  BY DEF Locks
<1>3. ToSet(waits) = {waits[i] : i \in 1..n}
  BY <1>1 DEF ToSet
<1>4. waits \in [1..n -> ToSet(waits)]
  BY <1>2, <1>3
<1>5. waits \in Seq(ToSet(waits)) /\ Len(waits) = n
  BY <1>1, <1>4, IsSeq
<1> QED
  BY <1>1, <1>3, <1>5

(* Policies in the order of their ids are locked in order.                 *)
LEMMA AscendingInOrder ==
  ASSUME Titles \subseteq Nat, NEW P \in SUBSET (Stamps \X Titles), IsFiniteSet(P), Titling(P),
         NEW found \in ByIdAscending(P), NEW waits, waits = Locks(Update, [i \in DOMAIN found |-> PolicyRow(found[i])]),
         NEW locks, \A l \in locks : OfImports(l)
  PROVE  InOrder(locks, waits) /\ ToSet(waits) = {Lock(Update, PolicyRow(p)) : p \in P}
<1>1. found \in SetToSeqs(P) /\ \A i, j \in DOMAIN found : i < j => found[i][2] <= found[j][2]
  BY DEF ByIdAscending
<1>2. found \in Seq(P) /\ P = {found[i] : i \in DOMAIN found}
  BY <1>1, OrderIsAll
<1>3. PICK n \in Nat : DOMAIN found = 1..n
  BY <1>2
<1>4. \A i, j \in 1..n : i # j => found[i] # found[j]
  BY <1>1, <1>3 DEF SetToSeqs
<1>5. PICK rows : rows = [i \in DOMAIN found |-> PolicyRow(found[i])]
  OBVIOUS
<1>6. DOMAIN rows = 1..n /\ waits = Locks(Update, rows) /\ \A i \in 1..n : rows[i] = PolicyRow(found[i])
  BY <1>3, <1>5
<1>7. /\ waits \in Seq(ToSet(waits)) /\ Len(waits) = n
      /\ \A i \in 1..n : waits[i] = Lock(Update, rows[i])
      /\ ToSet(waits) = {Lock(Update, rows[i]) : i \in 1..n}
  BY <1>6, LocksOfRows
<1>8. \A i \in 1..n : waits[i] = Lock(Update, PolicyRow(found[i])) /\ PolicyOf(waits[i]) = found[i] /\ OfPolicy(waits[i])
  <2> SUFFICES ASSUME NEW i \in 1..n
               PROVE  waits[i] = Lock(Update, PolicyRow(found[i])) /\ PolicyOf(waits[i]) = found[i] /\ OfPolicy(waits[i])
    OBVIOUS
  <2>1. waits[i] = Lock(Update, PolicyRow(found[i]))
    BY <1>6, <1>7
  <2>2. PolicyOf(waits[i]) = found[i]
    BY <2>1 DEF PolicyOf, Lock, PolicyRow
  <2> QED
    BY <2>1, <2>2 DEF OfPolicy
<1>9. ASSUME NEW i \in 1..n, NEW j \in 1..(i - 1) PROVE Precedes(waits[j], waits[i])
  <2>1. j \in 1..n /\ j < i
    OBVIOUS
  <2>2. found[j] # found[i] /\ found[j] \in P /\ found[i] \in P /\ found[j][2] <= found[i][2]
    BY <1>1, <1>2, <1>3, <1>4, <2>1
  <2>3. found[j][2] \in Nat /\ found[i][2] \in Nat /\ found[j][2] # found[i][2]
    BY <2>2 DEF Titling
  <2> QED
    BY <1>8, <2>1, <2>2, <2>3 DEF Precedes
<1>10. ASSUME NEW i \in 1..n, NEW l \in locks PROVE Precedes(l, waits[i])
  BY <1>8 DEF Precedes
<1>11. InOrder(locks, waits)
  BY <1>7, <1>9, <1>10 DEF InOrder
<1>12. ToSet(waits) = {Lock(Update, PolicyRow(p)) : p \in P}
  BY <1>2, <1>3, <1>6, <1>7
<1> QED
  BY <1>11, <1>12

(* Versions may be locked after all others.                                *)
LEMMA VersionsInOrder ==
  ASSUME NEW locks, NEW first, InOrder(locks, first), NEW last, last \in Seq(ToSet(last)),
         \A i \in 1..Len(last) : OfVersion(last[i]), NEW waits, waits = first \o last
  PROVE  InOrder(locks, waits) /\ ToSet(waits) = ToSet(first) \cup ToSet(last)
<1>1. PICK a, b : a = ToSet(first) /\ b = ToSet(last)
  OBVIOUS
<1>2. first \in Seq(a) /\ last \in Seq(b)
  BY <1>1 DEF InOrder
<1>3. PICK m \in Nat, n \in Nat : m = Len(first) /\ n = Len(last)
  BY <1>2
<1>4. /\ Len(waits) = m + n /\ DOMAIN waits = 1..(m + n) /\ DOMAIN first = 1..m /\ DOMAIN last = 1..n
      /\ \A i \in 1..m : waits[i] = first[i]
      /\ \A i \in (m + 1)..(m + n) : waits[i] = last[i - m]
  BY <1>2, <1>3
<1>5. \A i \in 1..n : i + m \in (m + 1)..(m + n) /\ waits[i + m] = last[i]
  BY <1>3, <1>4
<1>6. \A i \in (m + 1)..(m + n) : i - m \in 1..n
  BY <1>3
<1>7. \A i \in 1..(m + n) : i \in 1..m \/ i \in (m + 1)..(m + n)
  BY <1>3
<1>8. 1..m \subseteq 1..(m + n) /\ (m + 1)..(m + n) \subseteq 1..(m + n)
  BY <1>3
<1>9. ToSet(waits) = a \cup b
  <2>1. a \cup b \subseteq ToSet(waits)
    <3>1. \A i \in 1..m : i \in DOMAIN waits /\ first[i] = waits[i]
      BY <1>4, <1>8
    <3>2. \A i \in 1..n : i + m \in DOMAIN waits /\ last[i] = waits[i + m]
      BY <1>4, <1>5, <1>8
    <3>3. a \subseteq ToSet(waits)
      BY <1>1, <1>4, <3>1 DEF ToSet
    <3>4. ASSUME NEW x \in b PROVE x \in ToSet(waits)
      <4>1. PICK i \in 1..n : x = last[i]
        BY <1>1, <1>4 DEF ToSet
      <4> QED
        BY <3>2, <4>1 DEF ToSet
    <3> QED
      BY <3>3, <3>4
  <2>2. ToSet(waits) \subseteq a \cup b
    BY <1>1, <1>4, <1>6, <1>7 DEF ToSet
  <2> QED
    BY <2>1, <2>2
<1>10. waits \in Seq(a \cup b)
  BY <1>2
<1>11. ASSUME NEW i \in 1..(m + n), NEW l \in locks \cup {waits[j] : j \in 1..(i - 1)} PROVE Precedes(l, waits[i])
  <2>1. CASE i \in 1..m
    <3>1. \A j \in 1..(i - 1) : j \in 1..m /\ waits[j] = first[j]
      BY <1>3, <1>4, <2>1
    <3>2. l \in locks \cup {first[j] : j \in 1..(i - 1)}
      BY <1>11, <3>1
    <3> QED
      BY <1>3, <1>4, <2>1, <3>2 DEF InOrder
  <2>2. CASE i \in (m + 1)..(m + n)
    BY <1>3, <1>4, <1>6, <2>2 DEF Precedes
  <2> QED
    BY <1>7, <2>1, <2>2
<1> QED
  BY <1>1, <1>4, <1>9, <1>10, <1>11 DEF InOrder

(* Who waits for nothing of this is in line.                               *)
LEMMA NotInLine ==
  ASSUME NEW t \in Requests, pc'[t] \notin PolicyWaits PROVE InLine(t)' /\ ImportingPolicies(t)'
BY DEF InLine, ImportingPolicies, PolicyWaits

(* A policy is not the import lock.                                        *)
LEMMA LocksDiffer ==
  ASSUME NEW p PROVE Lock(Update, PolicyRow(p)) # Lock(Update, ImportLock)
<1>1. Lock(Update, PolicyRow(p))[2][1] = "policies" /\ Lock(Update, ImportLock)[2][1] = "import"
  BY DEF Lock, PolicyRow, ImportLock
<1> QED
  BY <1>1

(* The lock of a policy is of that policy, and of a version of its policy. *)
LEMMA LocksTell ==
  ASSUME NEW p, NEW n
  PROVE  /\ PolicyOf(Lock(Update, PolicyRow(p))) = p /\ OfPolicy(Lock(Update, PolicyRow(p)))
         /\ PolicyOf(Lock(Update, VersionRow(p, n))) = p /\ OfVersion(Lock(Update, VersionRow(p, n)))
BY DEF PolicyOf, OfPolicy, OfVersion, Lock, PolicyRow, VersionRow

(* An import begins with the lock of the imports.                          *)
LEMMA ImportBeginsInLine ==
  ASSUME PoliciesInv, NEW t \in Requests, BeginImportPolicies(t)
  PROVE  InLine(t)' /\ ImportingPolicies(t)'
<1>0. Shaped /\ LocksInv
  BY DEF PoliciesInv
<1>1. PICK file \in Plan.drafts : Begin(t, "importPolicies", file, "importPolicies", ImportLocks)
  BY DEF BeginImportPolicies, BeginImport
<1>2. pc'[t] = "importPolicies" /\ req'[t].arg = file /\ held'[t] = {} /\ want'[t] = ImportLocks /\ plan' = plan
  BY <1>0, <1>1, BeginMoves DEF LocksInv, OnlyMoves
<1>3. PICK lock : lock = Lock(Update, ImportLock)
  OBVIOUS
<1>4. want'[t] = <<lock>>
  BY <1>2, <1>3 DEF ImportLocks
<1>5. want'[t] \in Seq(ToSet(want'[t])) /\ Len(want'[t]) = 1 /\ ToSet(want'[t]) = {lock}
  <2>1. PICK one : one = <<lock>>
    OBVIOUS
  <2>2. one \in Seq({lock}) /\ Len(one) = 1 /\ ToSet(one) = {lock}
    BY <2>1 DEF ToSet
  <2> QED
    BY <1>4, <2>1, <2>2
<1>6. InOrder(held'[t], want'[t])
  <2>1. \A i \in 1..1 : 1..(i - 1) = {}
    OBVIOUS
  <2> QED
    BY <1>2, <1>5, <2>1 DEF InOrder
<1>7. InLine(t)'
  BY <1>2, <1>3, <1>5, <1>6 DEF InLine, WithPolicy, OfImports
<1> QED
  BY <1>2, <1>7 DEF ImportingPolicies, File, Plan

(* Then it locks the policies that it finds.                               *)
LEMMA ImportReadsInLine ==
  ASSUME PoliciesInv, NEW t \in Requests, ReadPolicies(t), \A i \in Requests : pc[i] = "done" => pc'[i] = "done"
  PROVE  InLine(t)' /\ ImportingPolicies(t)'
<1>0. /\ Shaped /\ ImportingPolicies(t) /\ IsFiniteSet(DOMAIN policy) /\ Titling(DOMAIN policy)
      /\ \A p \in DOMAIN policy : Committed(p)
  BY DEF PoliciesInv
<1>1. pc[t] = "importPolicies" /\ plan' = plan
  BY DEF ReadPolicies, At
<1>2. PICK found \in LockOrder(t) :
        Goto(t, "examinePolicies", Locks(Update, [i \in DOMAIN found |-> PolicyRow(found[i])]), ToSet(found))
  BY DEF ReadPolicies
<1>3. PICK waits : waits = Locks(Update, [i \in DOMAIN found |-> PolicyRow(found[i])])
  OBVIOUS
<1>4. pc'[t] = "examinePolicies" /\ held'[t] = Taken(t) /\ want'[t] = waits /\ req'[t].saw = ToSet(found)
      /\ req'[t].arg = req[t].arg
  BY <1>0, <1>1, <1>2, <1>3, GotoMoves
<1>5. PICK locks : locks = {Lock(Update, ImportLock)}
  OBVIOUS
<1>6. Taken(t) = locks
  <2>1. held[t] = {} /\ want[t] = <<Lock(Update, ImportLock)>>
    BY <1>0, <1>1 DEF ImportingPolicies, ImportLocks
  <2> QED
    BY <1>5, <2>1 DEF Taken
<1>7. PICK P : P = UNION {Titled(File(t)[i].title) : i \in DOMAIN File(t)}
  OBVIOUS
<1>8. P \subseteq DOMAIN policy /\ found \in ByIdAscending(P)
  BY <1>7 DEF Titled, LockOrder
<1>9. IsFiniteSet(P) /\ Titling(P) /\ P \in SUBSET (Stamps \X Titles) /\ \A p \in P : Committed(p)
  BY <1>0, <1>8, FS_Subset DEF Titling, Committed
<1>10. InOrder(locks, waits) /\ ToSet(waits) = {Lock(Update, PolicyRow(p)) : p \in P}
  BY <1>3, <1>5, <1>8, <1>9, AscendingInOrder, PoliciesAssumption DEF OfImports
<1>11. ToSet(found) = P
  BY <1>8, <1>9, OrderIsAll DEF ByIdAscending, ToSet
<1>12. ASSUME NEW l \in locks \cup ToSet(waits) PROVE WithPolicy(t, locks \cup ToSet(waits), l)'
  <2>1. CASE l \in locks
    BY <1>5, <2>1 DEF WithPolicy, OfImports
  <2>2. CASE l \in ToSet(waits)
    <3>1. PICK p \in P : l = Lock(Update, PolicyRow(p))
      BY <1>10, <2>2
    <3>2. OfPolicy(l) /\ PolicyOf(l) = p /\ Committed(p)'
      BY <1>9, <3>1, LocksTell DEF Committed
    <3> QED
      BY <3>2 DEF WithPolicy, Committed
  <2> QED
    BY <2>1, <2>2
<1>13. InLine(t)'
  BY <1>4, <1>6, <1>10, <1>12 DEF InLine, WithPolicy, Committed
<1>14. File(t)' \in Plan'.drafts
  BY <1>0, <1>1, <1>4 DEF ImportingPolicies, File, Plan
<1>15. Lock(Update, ImportLock) \notin ToSet(waits)
  BY <1>10, LocksDiffer
<1> QED
  BY <1>4, <1>5, <1>6, <1>10, <1>11, <1>13, <1>14, <1>15 DEF ImportingPolicies

(* Then the versions it makes.                                             *)
LEMMA ImportExaminesInLine ==
  ASSUME PoliciesInv, NEW t \in Requests, ExaminePolicies(t), \A i \in Requests : pc[i] = "done" => pc'[i] = "done"
  PROVE  InLine(t)' /\ ImportingPolicies(t)'
<1>0. /\ Shaped /\ InLine(t) /\ ImportingPolicies(t) /\ Titling(DOMAIN policy) /\ \A p \in DOMAIN policy : Committed(p)
  BY DEF PoliciesInv
<1>1. pc[t] = "examinePolicies" /\ plan' = plan /\ policy' = policy /\ Len(want[t]) <= 1
  BY DEF ExaminePolicies, At, Granted, Refused
<1>2. CASE Done(t)
  BY <1>0, <1>1, <1>2, DoneMoves, NotInLine DEF PolicyWaits
<1>3. CASE ~Done(t)
  <2>1. PICK file, n : file = File(t) /\ n = Len(file)
    OBVIOUS
  <2>2. file \in Plan.drafts /\ plan.name \in DOMAIN Plans
    BY <1>0, <1>1, <2>1 DEF ImportingPolicies, Shaped
  <2>3. n \in Nat /\ DOMAIN file = 1..n /\ \A i \in 1..n : file[i].title \in Titles
    BY <2>1, <2>2, PoliciesAssumption DEF Plan
  <2>4. PICK waits, saw :
          /\ waits = [i \in DOMAIN file |-> Lock(Update, VersionRow(Target(t, i).id, Target(t, i).n))]
          /\ saw = {Target(t, i) : i \in DOMAIN file}
    OBVIOUS
  <2>5. /\ \A i \in DOMAIN file : Titled(file[i].title) \subseteq req[t].saw
        /\ Goto(t, "insertVersions", waits, saw)
    BY <1>3, <2>1, <2>4 DEF ExaminePolicies, Refused
  <2>6. pc'[t] = "insertVersions" /\ held'[t] = Taken(t) /\ want'[t] = waits /\ req'[t].saw = saw
        /\ req'[t].arg = req[t].arg
    BY <1>0, <1>1, <2>5, GotoMoves
  <2>7. PICK locks : locks = held[t] \cup ToSet(want[t])
    OBVIOUS
  <2>8. Taken(t) = locks
    <3>1. PICK w \in Seq(ToSet(want[t])) : w = want[t]
      BY <1>0, <1>1 DEF InLine, InOrder, PolicyWaits
    <3>2. CASE w = <<>>
      <4>1. ToSet(w) = {}
        BY <3>2 DEF ToSet
      <4> QED
        BY <2>7, <3>1, <3>2, <4>1 DEF Taken
    <3>3. CASE w # <<>>
      <4>0. Len(w) <= 1
        BY <1>1, <3>1
      <4>a. PICK S : S = ToSet(want[t]) /\ w \in Seq(S)
        BY <3>1
      <4>b. Len(w) \in Nat /\ Len(w) # 0
        BY <3>3, <4>a
      <4>c. PICK k \in Nat : k = Len(w)
        BY <4>b
      <4>d. k # 0 /\ k <= 1
        BY <4>0, <4>b, <4>c
      <4>e. k = 1
        BY <4>d
      <4>f. DOMAIN w = 1..Len(w)
        BY <4>a
      <4>g. DOMAIN w = {1}
        <5>1. \A j : j \in 1..1 <=> j = 1
          OBVIOUS
        <5>2. DOMAIN w = 1..1
          BY <4>c, <4>e, <4>f
        <5> QED
          BY <5>1, <5>2
      <4>h. Head(w) = w[1]
        BY <3>3, <4>a
      <4>2. ToSet(w) = {Head(w)}
        BY <4>g, <4>h DEF ToSet
      <4> QED
        BY <2>7, <3>1, <3>3, <4>2 DEF Taken
    <3> QED
      BY <3>2, <3>3
  <2>9. ASSUME NEW i \in 1..n
        PROVE  LET v == Target(t, i)
               IN  /\ v.id \in Stamps \X Titles /\ v.id[2] = file[i].title
                   /\ \/ v.id \in DOMAIN policy /\ Lock(Update, PolicyRow(v.id)) \in locks
                      \/ v.id = <<t, file[i].title>> /\ Titled(file[i].title) = {}
    <3>1. PICK s : s = file[i].title
      OBVIOUS
    <3>2. s \in Titles /\ t \in Stamps
      BY <2>3, <3>1 DEF Stamps
    <3>3. CASE Titled(s) = {}
      <4>1. Target(t, i).id = <<t, s>>
        BY <2>1, <3>1, <3>3 DEF Target
      <4> QED
        BY <3>1, <3>2, <3>3, <4>1
    <3>4. CASE Titled(s) # {}
      <4>1. Target(t, i).id \in Titled(s)
        BY <2>1, <3>1, <3>4 DEF Target
      <4>2. Target(t, i).id \in DOMAIN policy /\ Target(t, i).id[2] = s /\ Target(t, i).id \in req[t].saw
        BY <2>3, <2>5, <3>1, <4>1 DEF Titled
      <4> QED
        BY <1>0, <1>1, <2>7, <3>1, <4>2 DEF Committed, ImportingPolicies
    <3> QED
      BY <3>3, <3>4
  <2>10. \A i \in 1..n : waits[i] = Lock(Update, VersionRow(Target(t, i).id, Target(t, i).n))
    BY <2>3, <2>4
  <2>11. waits \in Seq(ToSet(waits)) /\ Len(waits) = n /\ ToSet(waits) = {waits[i] : i \in 1..n}
    <3>1. PICK rows : rows = [i \in 1..n |-> VersionRow(Target(t, i).id, Target(t, i).n)]
      OBVIOUS
    <3>2. DOMAIN rows = 1..n /\ waits = Locks(Update, rows)
      BY <2>3, <2>4, <3>1 DEF Locks
    <3>3. \A i \in 1..n : waits[i] = Lock(Update, rows[i])
      BY <2>3, <3>2, LocksOfRows
    <3> QED
      BY <2>3, <3>2, <3>3, LocksOfRows
  <2>12. \A i \in 1..n : OfVersion(waits[i]) /\ PolicyOf(waits[i]) = Target(t, i).id
    BY <2>10, LocksTell
  <2>13. InOrder(locks, waits)
    BY <2>11, <2>12 DEF InOrder, Precedes
  <2>14. ASSUME NEW l \in locks \cup ToSet(waits) PROVE WithPolicy(t, locks \cup ToSet(waits), l)'
    <3>1. CASE l \in locks
      <4>1. WithPolicy(t, locks, l)
        BY <1>0, <1>1, <2>7, <3>1 DEF InLine, PolicyWaits
      <4> QED
        BY <4>1 DEF WithPolicy, Committed
    <3>2. CASE l \in ToSet(waits)
      <4>1. PICK i \in 1..n : l = waits[i]
        BY <2>11, <3>2
      <4>2. OfVersion(l) /\ PolicyOf(l) = Target(t, i).id
        BY <2>12, <4>1
      <4>3. PolicyOf(l)[1] = t \/ Lock(Update, PolicyRow(PolicyOf(l))) \in locks
        BY <2>9, <4>2
      <4> QED
        BY <4>2, <4>3 DEF WithPolicy
    <3> QED
      BY <3>1, <3>2
  <2>15. InLine(t)'
    BY <2>6, <2>8, <2>13, <2>14 DEF InLine, WithPolicy, Committed
  <2>16. File(t)' \in Plan'.drafts
    BY <1>0, <1>1, <2>6 DEF ImportingPolicies, File, Plan
  <2>17. Lock(Update, ImportLock) \in locks /\ Lock(Update, ImportLock) \notin ToSet(waits)
    <3>1. Lock(Update, ImportLock) \in locks
      BY <1>0, <1>1, <2>7 DEF ImportingPolicies
    <3>2. \A i \in 1..n : waits[i][2][1] = "policy_versions" /\ Lock(Update, ImportLock)[2][1] = "import"
      BY <2>10 DEF Lock, VersionRow, ImportLock
    <3> QED
      BY <2>11, <3>1, <3>2
  <2>18. Titling(DOMAIN policy \cup {v.id : v \in saw})
    <3>1. PICK P : P = DOMAIN policy \cup {v.id : v \in saw}
      OBVIOUS
    <3>2. ASSUME NEW p \in P PROVE p \in DOMAIN policy \/ (p = <<t, p[2]>> /\ Titled(p[2]) = {})
      <4>1. CASE p \in DOMAIN policy
        BY <4>1
      <4>2. CASE p \notin DOMAIN policy
        <5>1. PICK i \in 1..n : p = Target(t, i).id
          BY <2>3, <2>4, <3>1, <4>2
        <5> QED
          BY <2>9, <4>2, <5>1
      <4> QED
        BY <4>1, <4>2
    <3>3. ASSUME NEW p \in P, NEW q \in P, p[2] = q[2] PROVE p = q
      BY <1>0, <3>2, <3>3 DEF Titling, Titled
    <3> QED
      BY <3>1, <3>3 DEF Titling
  <2>19. IsFiniteSet(saw)
    <3>1. PICK target : target = [i \in 1..n |-> Target(t, i)]
      OBVIOUS
    <3>2. DOMAIN target = 1..n /\ saw = {target[i] : i \in 1..n}
      BY <2>3, <2>4, <3>1
    <3>3. IsFiniteSet(1..n)
      BY <2>3, FS_Interval
    <3> QED
      BY <3>2, <3>3, ImageIsFinite
  <2>20. \A v \in saw : v.id \in Stamps \X Titles /\ (v.id[1] = t \/ Committed(v.id)')
    BY <1>0, <2>3, <2>4, <2>9 DEF Committed
  <2> QED
    BY <1>1, <2>6, <2>8, <2>15, <2>16, <2>17, <2>18, <2>19, <2>20 DEF ImportingPolicies, Committed
<1> QED
  BY <1>2, <1>3

(* An undo waits for the policies, then for the versions.                  *)
LEMMA UndoBeginsInLine ==
  ASSUME PoliciesInv, NEW t \in Requests, BeginUndoPolicies(t), \A i \in Requests : pc[i] = "done" => pc'[i] = "done"
  PROVE  InLine(t)' /\ ImportingPolicies(t)'
<1>0. /\ Shaped /\ LocksInv /\ IsFiniteSet(DOMAIN policy) /\ Titling(DOMAIN policy)
      /\ (\A p \in DOMAIN policy : Committed(p))
      /\ \A b \in Stamps : batches[b].kind = "policies" => IsFiniteSet(batches[b].items)
  BY DEF PoliciesInv
<1>1. PICK b \in Stamps :
        /\ batches[b].kind = "policies"
        /\ LET items == {v \in batches[b].items : HasVersion(v.id, v.n)}
           IN  \E found \in ByIdAscending({v.id : v \in items}), order \in SetToSeqs(items) :
                 BeginUndo(t, "undoPolicies", b,
                          Locks(Update, [i \in DOMAIN found |-> PolicyRow(found[i])])
                            \o Locks(Update, [i \in DOMAIN order |-> VersionRow(order[i].id, order[i].n)]))
  BY DEF BeginUndoPolicies
<1>2. PICK items : items = {v \in batches[b].items : HasVersion(v.id, v.n)}
  OBVIOUS
<1>3. PICK P : P = {v.id : v \in items}
  OBVIOUS
<1>4. PICK found \in ByIdAscending(P), order \in SetToSeqs(items) :
        BeginUndo(t, "undoPolicies", b,
                          Locks(Update, [i \in DOMAIN found |-> PolicyRow(found[i])])
                            \o Locks(Update, [i \in DOMAIN order |-> VersionRow(order[i].id, order[i].n)]))
  BY <1>1, <1>2, <1>3
<1>5. PICK first, second, waits :
        /\ first = Locks(Update, [i \in DOMAIN found |-> PolicyRow(found[i])])
        /\ second = Locks(Update, [i \in DOMAIN order |-> VersionRow(order[i].id, order[i].n)])
        /\ waits = first \o second
  OBVIOUS
<1>6. pc'[t] = "undoPolicies" /\ held'[t] = {} /\ want'[t] = waits
  <2>1. Begin(t, "undoPolicies", b, "undoPolicies", waits)
    BY <1>4, <1>5 DEF BeginUndo
  <2> QED
    BY <1>0, <2>1, BeginMoves DEF LocksInv
<1>7. P \subseteq DOMAIN policy
  BY <1>2, <1>3 DEF HasVersion, Exists
<1>8. IsFiniteSet(P) /\ Titling(P) /\ P \in SUBSET (Stamps \X Titles) /\ \A p \in P : Committed(p)
  BY <1>0, <1>7, FS_Subset DEF Titling, Committed
<1>9. IsFiniteSet(items)
  BY <1>0, <1>1, <1>2, FS_Subset
<1>10. PICK none : none = {}
  OBVIOUS
<1>11. InOrder(none, first) /\ ToSet(first) = {Lock(Update, PolicyRow(p)) : p \in P}
  <2>1. \A l \in none : OfImports(l)
    BY <1>10
  <2> QED
    BY <1>4, <1>5, <1>8, <2>1, AscendingInOrder, PoliciesAssumption
<1>12. order \in Seq(items)
  BY <1>4, <1>9, OrderIsAll
<1>13. PICK n \in Nat : DOMAIN order = 1..n /\ \A i \in 1..n : order[i] \in items
  BY <1>12
<1>14. PICK rows : rows = [i \in DOMAIN order |-> VersionRow(order[i].id, order[i].n)]
  OBVIOUS
<1>15. DOMAIN rows = 1..n /\ second = Locks(Update, rows)
       /\ \A i \in 1..n : rows[i] = VersionRow(order[i].id, order[i].n)
  BY <1>5, <1>13, <1>14
<1>16. /\ second \in Seq(ToSet(second)) /\ Len(second) = n
       /\ \A i \in 1..n : second[i] = Lock(Update, rows[i])
       /\ ToSet(second) = {Lock(Update, rows[i]) : i \in 1..n}
  BY <1>15, LocksOfRows
<1>17. \A i \in 1..n : OfVersion(second[i]) /\ PolicyOf(second[i]) \in P
  <2> SUFFICES ASSUME NEW i \in 1..n PROVE OfVersion(second[i]) /\ PolicyOf(second[i]) \in P
    OBVIOUS
  <2>1. second[i] = Lock(Update, VersionRow(order[i].id, order[i].n))
    BY <1>15, <1>16
  <2> QED
    BY <1>3, <1>13, <2>1, LocksTell
<1>18. InOrder(none, waits) /\ ToSet(waits) = ToSet(first) \cup ToSet(second)
  <2>1. second \in Seq(ToSet(second)) /\ \A i \in 1..Len(second) : OfVersion(second[i])
    BY <1>16, <1>17
  <2>2. PICK f, l : f = first /\ l = second
    OBVIOUS
  <2>3. InOrder(none, f) /\ l \in Seq(ToSet(l)) /\ (\A i \in 1..Len(l) : OfVersion(l[i])) /\ waits = f \o l
    BY <1>5, <1>11, <2>1, <2>2
  <2>4. InOrder(none, waits) /\ ToSet(waits) = ToSet(f) \cup ToSet(l)
    BY <2>3, VersionsInOrder
  <2> QED
    BY <2>2, <2>4
<1>19. ASSUME NEW l \in none \cup ToSet(waits) PROVE WithPolicy(t, none \cup ToSet(waits), l)'
  <2>1. CASE l \in ToSet(first)
    <3>1. PICK p \in P : l = Lock(Update, PolicyRow(p))
      BY <1>11, <2>1
    <3>2. OfPolicy(l) /\ PolicyOf(l) = p /\ Committed(p)'
      BY <1>8, <3>1, LocksTell DEF Committed
    <3> QED
      BY <3>2 DEF WithPolicy, Committed
  <2>2. CASE l \in ToSet(second)
    <3>1. PICK i \in 1..n : l = second[i]
      BY <1>16, <2>2
    <3>2. OfVersion(l) /\ PolicyOf(l) \in P
      BY <1>17, <3>1
    <3> QED
      BY <1>11, <1>18, <3>2 DEF WithPolicy
  <2> QED
    BY <1>10, <1>18, <2>1, <2>2
<1>20. InLine(t)'
  BY <1>6, <1>10, <1>18, <1>19 DEF InLine, WithPolicy, Committed
<1> QED
  BY <1>6, <1>20 DEF ImportingPolicies

(* A step of the policies keeps everybody in line.                         *)
LEMMA PolicyStepKept ==
  ASSUME PoliciesInv, LocksInv', NEW t \in Requests, PolicyStep(t), Passes(t, PoliciesPhases)
  PROVE  PoliciesInv'
<1>0. /\ Shaped /\ LocksInv /\ BatchesKept /\ Shaped' /\ plan' = plan /\ t \in Stamps /\ pc[t] # "done"
      /\ IsFiniteSet(DOMAIN policy) /\ Titling(DOMAIN policy) /\ \A p \in DOMAIN policy : Committed(p)
      /\ \A s \in Requests : InLine(s) /\ ImportingPolicies(s)
  BY DEF PoliciesInv, Passes, OnlyMoves, Stamps, PoliciesPhases
<1>1. \A i \in Requests : pc[i] = "done" => pc'[i] = "done"
  BY <1>0 DEF Passes, OnlyMoves
<1>2. BatchesKept'
  BY <1>0, PoliciesImports DEF ImportsOnly
<1>3. /\ InLine(t)' /\ ImportingPolicies(t)'
      /\ (~InsertVersions(t) => DOMAIN policy' \subseteq DOMAIN policy)
      /\ \A b \in Stamps : batches'[b].kind = "policies" => IsFiniteSet(batches'[b].items)
  <2>a. \A b \in Stamps : batches[b].kind = "policies" => IsFiniteSet(batches[b].items)
    BY DEF PoliciesInv
  <2>1. CASE BeginImportPolicies(t)
    BY <2>a, <2>1, ImportBeginsInLine DEF BeginImportPolicies, BeginImport
  <2>2. CASE ReadPolicies(t)
    BY <1>1, <2>a, <2>2, ImportReadsInLine DEF ReadPolicies
  <2>3. CASE ExaminePolicies(t)
    BY <1>1, <2>a, <2>3, ImportExaminesInLine DEF ExaminePolicies, Refused
  <2>4. CASE InsertVersions(t)
    <3>1. PICK made : made = req[t].saw
      OBVIOUS
    <3>2. Imported(t, "policies", {[id |-> v.id, n |-> v.n] : v \in made}) /\ pc[t] = "insertVersions"
      BY <2>4, <3>1 DEF InsertVersions, At
    <3>3. IsFiniteSet({[id |-> v.id, n |-> v.n] : v \in made})
      <4>1. PICK f : f = [v \in made |-> [id |-> v.id, n |-> v.n]]
        OBVIOUS
      <4>a. IsFiniteSet(made) /\ DOMAIN f = made
        BY <1>0, <3>1, <3>2, <4>1 DEF ImportingPolicies
      <4>2. IsFiniteSet({f[v] : v \in made})
        BY <4>a, ImageIsFinite
      <4>3. {f[v] : v \in made} = {[id |-> v.id, n |-> v.n] : v \in made}
        BY <4>1
      <4> QED
        BY <4>2, <4>3
    <3>4. pc'[t] = "done" /\ batches' = [batches EXCEPT ![t] = Batch("policies", {[id |-> v.id, n |-> v.n] : v \in made})]
      BY <1>0, <3>2, DoneMoves DEF Imported
    <3>5. \A b \in Stamps : batches'[b].kind = "policies" => IsFiniteSet(batches'[b].items)
      BY <1>0, <2>a, <3>3, <3>4 DEF Batch, BatchesKept
    <3> QED
      BY <2>4, <3>4, <3>5, NotInLine DEF PolicyWaits
  <2>5. CASE BeginUndoPolicies(t)
    BY <1>1, <2>a, <2>5, UndoBeginsInLine DEF BeginUndoPolicies, BeginUndo
  <2>6. CASE UndoPolicies(t)
    <3>1. CASE Undone(t)
      <4>1. pc'[t] = "done"
        BY <1>0, <3>1, DoneMoves DEF Undone
      <4>2. DOMAIN policy' \subseteq DOMAIN policy
        BY <2>6 DEF UndoPolicies
      <4>3. \A b \in Stamps : batches'[b].kind = batches[b].kind /\ batches'[b].items = batches[b].items
        BY <1>0, <3>1 DEF Undone, BatchesKept
      <4> QED
        BY <2>a, <4>1, <4>2, <4>3, NotInLine DEF PolicyWaits
    <3>2. CASE ~Undone(t)
      <4>1. Refused(t) /\ policy' = policy
        BY <2>6, <3>2 DEF UndoPolicies
      <4>2. pc'[t] = "done" /\ batches' = batches
        BY <1>0, <4>1, DoneMoves DEF Refused
      <4> QED
        BY <2>a, <4>1, <4>2, NotInLine DEF PolicyWaits
    <3> QED
      BY <3>1, <3>2
  <2>7. CASE batches' = batches /\ DOMAIN policy' = DOMAIN policy /\ pc'[t] \notin PolicyWaits
    BY <2>a, <2>7, NotInLine
  <2> QED
    BY <1>0, <2>1, <2>2, <2>3, <2>4, <2>5, <2>6, <2>7, PolicyGoes
<1>4. IsFiniteSet(DOMAIN policy') /\ Titling(DOMAIN policy') /\ \A p \in DOMAIN policy' : Committed(p)'
  <2>1. CASE InsertVersions(t)
    <3>1. PICK made : made = req[t].saw
      OBVIOUS
    <3>2. PICK ids : ids = {v.id : v \in made}
      OBVIOUS
    <3>3. DOMAIN policy' = DOMAIN policy \cup ids /\ pc[t] = "insertVersions" /\ Done(t)
      BY <2>1, <3>1, <3>2 DEF InsertVersions, At, Imported
    <3>4. pc'[t] = "done"
      BY <1>0, <3>3, DoneMoves
    <3>5. IsFiniteSet(ids)
      <4>1. PICK f : f = [v \in made |-> v.id]
        OBVIOUS
      <4>a. IsFiniteSet(made) /\ DOMAIN f = made
        BY <1>0, <3>1, <3>3, <4>1 DEF ImportingPolicies
      <4>2. IsFiniteSet({f[v] : v \in made})
        BY <4>a, ImageIsFinite
      <4>3. {f[v] : v \in made} = ids
        BY <3>2, <4>1
      <4> QED
        BY <4>2, <4>3
    <3>6. IsFiniteSet(DOMAIN policy')
      BY <1>0, <3>3, <3>5, FS_Union
    <3>7. Titling(DOMAIN policy')
      BY <1>0, <3>1, <3>2, <3>3 DEF ImportingPolicies
    <3>8. \A p \in ids : p \in Stamps \X Titles /\ (p[1] = t \/ Committed(p))
      BY <1>0, <3>1, <3>2, <3>3 DEF ImportingPolicies
    <3> QED
      BY <1>0, <1>1, <3>3, <3>4, <3>6, <3>7, <3>8 DEF Committed
  <2>2. CASE ~InsertVersions(t)
    <3>1. DOMAIN policy' \subseteq DOMAIN policy
      BY <1>3, <2>2
    <3>2. IsFiniteSet(DOMAIN policy')
      BY <1>0, <3>1, FS_Subset
    <3> QED
      BY <1>0, <1>1, <3>1, <3>2 DEF Titling, Committed
  <2> QED
    BY <2>1, <2>2
<1>5. ASSUME NEW s \in Requests \ {t} PROVE InLine(s)' /\ ImportingPolicies(s)'
  <2>1. pc'[s] = pc[s] /\ req'[s] = req[s] /\ Waits(s)
    BY DEF Passes, OnlyMoves, Waits
  <2>2. CASE pc[s] \notin PolicyWaits
    BY <2>1, <2>2, NotInLine
  <2>3. CASE pc[s] \in PolicyWaits
    <3>1. ASSUME pc[s] = "insertVersions", InsertVersions(t) PROVE FALSE
      <4>1. pc[t] = "insertVersions"
        BY <3>1 DEF InsertVersions, At
      <4>2. Lock(Update, ImportLock) \in held[s] /\ Lock(Update, ImportLock) \in held[t]
        BY <1>0, <3>1, <4>1 DEF ImportingPolicies
      <4> QED
        BY <1>0, <4>2, HeldApart, UpdateExcludes DEF LocksInv
    <3> QED
      BY <1>0, <1>1, <1>3, <2>1, <2>3, <3>1, ImportStays
  <2> QED
    BY <2>2, <2>3
<1> QED
  BY <1>0, <1>2, <1>3, <1>4, <1>5 DEF PoliciesInv

(* So does every step.                                                     *)
LEMMA PoliciesKept ==
  ASSUME PoliciesInv, [Next]_vars PROVE PoliciesInv'
<1>0. Shaped /\ LocksInv /\ BatchesKept
  BY DEF PoliciesInv
<1>1. LocksInv'
  BY <1>0, LocksKept
<1>2. CASE PolicyBatchesStay /\ policy' = policy /\ Elsewhere(PoliciesPhases)
  <2>1. \A i \in Requests : pc[i] = "done" => pc'[i] = "done"
    BY <1>2 DEF Elsewhere
  <2>2. Shaped' /\ plan' = plan
    BY <1>2 DEF Elsewhere
  <2>3. ASSUME NEW s \in Requests PROVE InLine(s)' /\ ImportingPolicies(s)'
    <3>1. CASE pc'[s] \notin PolicyWaits
      BY <3>1, NotInLine
    <3>2. CASE pc'[s] \in PolicyWaits
      <4>1. pc[s] = pc'[s] /\ req'[s] = req[s] /\ Waits(s)
        BY <1>2, <3>2 DEF Elsewhere, PolicyWaits, PoliciesPhases
      <4> QED
        BY <1>2, <2>1, <2>2, <3>2, <4>1, ImportStays DEF PoliciesInv
    <3> QED
      BY <3>1, <3>2
  <2>4. \A p \in DOMAIN policy : Committed(p)'
    BY <2>1 DEF PoliciesInv, Committed
  <2> QED
    BY <1>1, <1>2, <2>2, <2>3, <2>4 DEF PoliciesInv, PolicyBatchesStay
<1> QED
  BY <1>0, <1>1, <1>2, PoliciesSteps, PolicyStepKept

(* At first nobody imports or undoes, and the tables are those of a plan.  *)
LEMMA PoliciesInitial == Init => PoliciesInv
<1> SUFFICES ASSUME Init PROVE PoliciesInv
  OBVIOUS
<1>1. PICK name \in DOMAIN Plans :
        /\ batches = [b \in Stamps |-> IF b = First THEN Plans[name].tables.batch ELSE NoBatch]
        /\ policy = Plans[name].tables.policy
  BY DEF Init
<1>2. \A b \in Stamps : batches[b].kind = "policies" => IsFiniteSet(batches[b].items)
  BY <1>1, RegisterAssumption DEF NoBatch
<1>3. \A t \in Requests : pc[t] = "idle"
  BY ShapedInit
<1>4. \A t \in Requests : InLine(t) /\ ImportingPolicies(t)
  BY <1>3 DEF InLine, ImportingPolicies, PolicyWaits
<1>5. IsFiniteSet(DOMAIN policy) /\ Titling(DOMAIN policy) /\ \A p \in DOMAIN policy : Committed(p)
  BY <1>1, PoliciesAssumption DEF Titling, Committed
<1> QED
  BY <1>2, <1>4, <1>5, RegisterInitial DEF PoliciesInv, RegisterInv

(* A finite set that something on each is exceeded on another has no       *)
(* members.                                                                *)
LEMMA NobodyExceeds ==
  ASSUME NEW W, IsFiniteSet(W), NEW f \in [W -> Nat], \A w \in W : \E v \in W : f[w] < f[v]
  PROVE  W = {}
<1>1. PICK n \in Nat : ExistsSurjection(1..n, W)
  BY FS_NatSurjection
<1>2. PICK g \in [1..n -> W] : \A w \in W : \E i \in 1..n : g[i] = w
  BY <1>1 DEF ExistsSurjection, Surjection
<1> DEFINE Bounded == {k \in Nat : k <= n => \E m \in Nat : \A i \in 1..k : f[g[i]] <= m}
           Exceeded == {k \in Nat : W # {} => \E w \in W : k <= f[w]}
<1>3. 0 \in Bounded /\ 0 \in Exceeded
  <2>1. 1..0 = {}
    OBVIOUS
  <2> QED
    BY <2>1
<1>4. ASSUME NEW k \in Nat, k \in Bounded PROVE k + 1 \in Bounded
  <2> SUFFICES ASSUME k + 1 <= n PROVE \E m \in Nat : \A i \in 1..(k + 1) : f[g[i]] <= m
    OBVIOUS
  <2>1. PICK m \in Nat : \A i \in 1..k : f[g[i]] <= m
    BY <1>4
  <2>2. k + 1 \in 1..n /\ f[g[k + 1]] \in Nat /\ \A i \in 1..k : f[g[i]] \in Nat
    BY <1>2
  <2>0. PICK next \in Nat : next = f[g[k + 1]]
    BY <2>2
  <2>a. m + next \in Nat /\ m + next >= m /\ m + next >= next
    OBVIOUS
  <2>3. PICK top \in Nat : top >= m /\ top >= f[g[k + 1]]
    BY <2>0, <2>a
  <2>4. ASSUME NEW i \in 1..(k + 1) PROVE f[g[i]] <= top
    <3>1. CASE i = k + 1
      BY <2>2, <2>3, <3>1
    <3>2. CASE i # k + 1
      <4>1. i \in 1..k
        BY <3>2
      <4> QED
        BY <2>1, <2>2, <2>3, <4>1
    <3> QED
      BY <3>1, <3>2
  <2> QED
    BY <2>4
<1>5. ASSUME NEW k \in Nat, k \in Exceeded PROVE k + 1 \in Exceeded
  <2> SUFFICES ASSUME W # {} PROVE \E w \in W : k + 1 <= f[w]
    OBVIOUS
  <2>1. PICK w \in W : k <= f[w]
    BY <1>5
  <2>2. PICK v \in W : f[w] < f[v]
    OBVIOUS
  <2>3. f[w] \in Nat /\ f[v] \in Nat
    OBVIOUS
  <2> QED
    BY <2>1, <2>2, <2>3
<1> HIDE DEF Bounded, Exceeded
<1>6. Nat \subseteq Bounded /\ Nat \subseteq Exceeded
  BY <1>3, <1>4, <1>5, CountingUp
<1> SUFFICES ASSUME W # {} PROVE FALSE
  OBVIOUS
<1>7. PICK m \in Nat : \A i \in 1..n : f[g[i]] <= m
  <2>1. n \in Bounded /\ n <= n
    BY <1>6
  <2> QED
    BY <2>1 DEF Bounded
<1>8. PICK w \in W : m + 1 <= f[w]
  BY <1>6 DEF Exceeded
<1>9. PICK i \in 1..n : g[i] = w
  BY <1>2
<1>10. f[w] \in Nat /\ f[w] <= m
  BY <1>7, <1>9
<1> QED
  BY <1>8, <1>10

(* Who waits for a version waits for nobody who is in line: both have      *)
(* locked its policy.                                                      *)
LEMMA NobodyWaitsForVersions ==
  ASSUME PoliciesInv, NEW s \in Requests, NEW t \in Requests, s # t, pc[s] \in PolicyWaits, pc[t] \in PolicyWaits,
         want[s] # <<>>, want[t] # <<>>, OfVersion(Head(want[t])), Head(want[t]) \in held[s]
  PROVE  FALSE
<1>0. /\ LocksApart /\ InLine(s) /\ InLine(t) /\ pc[s] # "done" /\ pc[t] # "done"
  BY DEF PoliciesInv, LocksInv, PolicyWaits
<1>1. PICK p, l : l = Head(want[t]) /\ p = PolicyOf(l)
  OBVIOUS
<1>2. ASSUME NEW r \in Requests, r \in {s, t} PROVE p[1] = r \/ (Lock(Update, PolicyRow(p)) \in held[r] /\ Committed(p))
  <2>1. PICK w \in Seq(ToSet(want[r])) : w = want[r]
    BY <1>0, <1>2 DEF InLine, InOrder
  <2>2. PICK S : S = ToSet(want[r]) /\ w \in Seq(S)
    BY <2>1
  <2>3. w # <<>> /\ Len(w) \in Nat /\ Len(w) # 0 /\ Head(w) = w[1] /\ 1 \in 1..Len(w) /\ DOMAIN w = 1..Len(w)
    BY <1>2, <2>1, <2>2
  <2>4. l \in held[r] \cup ToSet(want[r])
    <3>1. CASE r = s
      BY <1>1, <3>1
    <3>2. CASE r = t
      <4>1. l = w[1]
        BY <1>1, <2>1, <2>3, <3>2
      <4> QED
        BY <2>1, <2>3, <4>1 DEF ToSet
    <3> QED
      BY <1>2, <3>1, <3>2
  <2>5. OfVersion(l) /\ ~OfPolicy(l) /\ ~OfImports(l)
    <3>1. OfVersion(l)
      BY <1>1
    <3>2. l[2][1] = "policy_versions"
      BY <3>1 DEF OfVersion, Lock, VersionRow
    <3>3. OfPolicy(l) => l[2][1] = "policies"
      BY DEF OfPolicy, Lock, PolicyRow
    <3>4. OfImports(l) => l[2][1] = "import"
      BY DEF OfImports, Lock, ImportLock
    <3> QED
      BY <3>1, <3>2, <3>3, <3>4
  <2>6. p[1] = r \/ Lock(Update, PolicyRow(p)) \in held[r] \cup ToSet(want[r])
    BY <1>0, <1>1, <1>2, <2>4, <2>5 DEF InLine, WithPolicy
  <2>7. PICK k : k = Lock(Update, PolicyRow(p))
    OBVIOUS
  <2>8. OfPolicy(k) /\ ~OfVersion(k) /\ ~OfImports(k) /\ PolicyOf(k) = p
    <3>1. OfPolicy(k) /\ PolicyOf(k) = p /\ k[2][1] = "policies"
      BY <2>7, LocksTell DEF Lock, PolicyRow
    <3>2. OfVersion(k) => k[2][1] = "policy_versions"
      BY DEF OfVersion, Lock, VersionRow
    <3>3. OfImports(k) => k[2][1] = "import"
      BY DEF OfImports, Lock, ImportLock
    <3> QED
      BY <3>1, <3>2, <3>3
  <2>9. ASSUME k \in ToSet(want[r]), k \notin held[r] PROVE FALSE
    <3>1. PICK i \in 1..Len(w) : k = w[i]
      BY <2>1, <2>3, <2>9 DEF ToSet
    <3>2. ~Precedes(l, k)
      BY <2>5, <2>8 DEF Precedes
    <3>3. l \notin held[r] \cup {w[j] : j \in 1..(i - 1)}
      BY <1>0, <1>2, <2>1, <3>1, <3>2 DEF InLine, InOrder
    <3>4. l = w[1] /\ i # 1
      BY <1>1, <1>2, <2>1, <2>3, <2>5, <2>8, <3>1, <3>3
    <3>5. 1 \in 1..(i - 1)
      BY <2>3, <3>1, <3>4
    <3> QED
      BY <3>3, <3>4, <3>5
  <2>10. k \in held[r] => Committed(p)
    BY <1>0, <1>2, <2>8 DEF InLine, WithPolicy
  <2> QED
    BY <2>6, <2>7, <2>9, <2>10
<1>3. CASE p[1] \in {s, t}
  BY <1>0, <1>2, <1>3 DEF Committed
<1>4. CASE p[1] \notin {s, t}
  <2>1. Lock(Update, PolicyRow(p)) \in held[s] /\ Lock(Update, PolicyRow(p)) \in held[t]
    BY <1>2, <1>4
  <2> QED
    BY <1>0, <2>1, HeldApart, UpdateExcludes
<1> QED
  BY <1>3, <1>4

(* Who is blocked in line waits for a lock that another one holds.         *)
LEMMA BlockedInLine ==
  ASSUME PoliciesInv, NEW s \in Requests, NEW t \in Requests, pc[s] \in PolicyWaits, pc[t] \in PolicyWaits, Blocks(s, t)
  PROVE  /\ s # t /\ want[t] # <<>>
         /\ Head(want[t]) \in held[s]
         /\ LET l == Head(want[t]) IN OfImports(l) \/ (OfPolicy(l) /\ Committed(PolicyOf(l))) \/ OfVersion(l)
<1>1. PICK l, m : m = Head(want[t]) /\ l \in held[s] /\ l[2] = m[2] /\ s # t /\ want[t] # <<>>
  BY DEF Blocks
<1>2. PICK w \in Seq(ToSet(want[t])) : w = want[t]
  BY DEF PoliciesInv, InLine, InOrder
<1>3. PICK S : S = ToSet(want[t]) /\ w \in Seq(S)
  BY <1>2
<1>4. m \in S
  BY <1>1, <1>2, <1>3
<1>5. WithPolicy(t, held[t] \cup ToSet(want[t]), m) /\ WithPolicy(s, held[s] \cup ToSet(want[s]), l)
  BY <1>1, <1>3, <1>4 DEF PoliciesInv, InLine
<1>6. (OfImports(m) \/ (OfPolicy(m) /\ Committed(PolicyOf(m))) \/ OfVersion(m)) /\ (OfImports(l) \/ OfPolicy(l) \/ OfVersion(l))
  BY <1>5 DEF WithPolicy
<1>7. m = <<Update, m[2]>> /\ l = <<Update, l[2]>>
  <2>1. \A k : OfImports(k) \/ OfPolicy(k) \/ OfVersion(k) => k = <<Update, k[2]>>
    BY DEF OfImports, OfPolicy, OfVersion, Lock
  <2> QED
    BY <1>6, <2>1
<1>8. m = l
  BY <1>1, <1>7
<1> QED
  BY <1>1, <1>6, <1>8

(* What who waits in line holds comes before what it waits for.            *)
LEMMA HeldPrecedes ==
  ASSUME NEW s \in Requests, InLine(s), pc[s] \in PolicyWaits, want[s] # <<>>, NEW l \in held[s]
  PROVE  Precedes(l, Head(want[s]))
<1>1. PICK w \in Seq(ToSet(want[s])) : w = want[s]
  BY DEF InLine, InOrder
<1>2. PICK S : S = ToSet(want[s]) /\ w \in Seq(S)
  BY <1>1
<1>3. w # <<>> /\ Head(w) = w[1] /\ 1 \in 1..Len(w)
  BY <1>1, <1>2
<1> QED
  BY <1>1, <1>3 DEF InLine, InOrder

(* So imports and undos of policies do not wait for one another in a       *)
(* circle: round it the titles of the policies would only grow.            *)
LEMMA NoCircleOfPolicies ==
  ASSUME PoliciesInv PROVE PoliciesNeverDeadlock
<1> SUFFICES ASSUME NEW S \in SUBSET {t \in Requests : pc[t] \in PolicyWaits}, Deadlocked(S)
             PROVE  FALSE
  BY DEF PoliciesNeverDeadlock, PolicyWaits
<1>1. PICK next \in [S -> S] : \A t \in S : Blocks(next[t], t)
  BY DEF Deadlocked
<1>2. S # {}
  BY DEF Deadlocked
<1> DEFINE Ahead(t) == Head(want[t])
<1>3. ASSUME NEW t \in S
      PROVE  /\ next[t] \in S /\ next[t] # t /\ want[t] # <<>> /\ Ahead(t) \in held[next[t]]
             /\ OfImports(Ahead(t)) \/ (OfPolicy(Ahead(t)) /\ Committed(PolicyOf(Ahead(t)))) \/ OfVersion(Ahead(t))
  <2>1. PICK s \in S : s = next[t]
    OBVIOUS
  <2>2. s \in Requests /\ t \in Requests /\ pc[s] \in PolicyWaits /\ pc[t] \in PolicyWaits /\ Blocks(s, t)
    BY <1>1, <2>1
  <2>3. /\ s # t /\ want[t] # <<>> /\ Head(want[t]) \in held[s]
        /\ LET l == Head(want[t]) IN OfImports(l) \/ (OfPolicy(l) /\ Committed(PolicyOf(l))) \/ OfVersion(l)
    BY <2>2, BlockedInLine
  <2> QED
    BY <2>1, <2>3
<1> HIDE DEF Ahead
<1>4. ASSUME NEW t \in S PROVE ~OfVersion(Ahead(t))
  <2>1. PICK s \in S : s = next[t]
    OBVIOUS
  <2>2. s # t /\ want[s] # <<>> /\ want[t] # <<>> /\ Ahead(t) \in held[s]
    BY <1>3, <2>1
  <2>3. s \in Requests /\ t \in Requests /\ pc[s] \in PolicyWaits /\ pc[t] \in PolicyWaits
    BY <2>1
  <2> QED
    BY <2>2, <2>3, NobodyWaitsForVersions DEF Ahead
<1>5. ASSUME NEW t \in S
      PROVE  LET s == next[t]
             IN  /\ OfPolicy(Ahead(s)) /\ PolicyOf(Ahead(s))[2] \in Nat
                 /\ OfPolicy(Ahead(t)) => PolicyOf(Ahead(t))[2] < PolicyOf(Ahead(s))[2]
  <2>1. PICK s \in S : s = next[t]
    OBVIOUS
  <2>2. Ahead(t) \in held[s] /\ want[s] # <<>> /\ s \in Requests /\ pc[s] \in PolicyWaits
    BY <1>3, <2>1
  <2>3. Precedes(Ahead(t), Ahead(s))
    BY <2>2, HeldPrecedes DEF Ahead, PoliciesInv
  <2>4. OfPolicy(Ahead(s)) /\ (OfImports(Ahead(t)) \/ (OfPolicy(Ahead(t)) /\ PolicyOf(Ahead(t))[2] < PolicyOf(Ahead(s))[2]))
    BY <1>4, <2>3 DEF Precedes
  <2>5. ~OfImports(Ahead(s))
    <3>1. PICK p, l : l = Ahead(s) /\ p = PolicyOf(l)
      OBVIOUS
    <3>2. l = Lock(Update, PolicyRow(p))
      BY <2>4, <3>1 DEF OfPolicy
    <3> QED
      BY <3>1, <3>2, LocksDiffer DEF OfImports
  <2>6. Committed(PolicyOf(Ahead(s)))
    BY <1>3, <1>4, <2>5
  <2>7. PolicyOf(Ahead(s)) \in Stamps \X Nat
    BY <2>6, PoliciesAssumption DEF Committed
  <2>8. OfImports(Ahead(t)) /\ OfPolicy(Ahead(t)) => FALSE
    <3>1. PICK p, l : l = Ahead(t) /\ p = PolicyOf(l)
      OBVIOUS
    <3> QED
      BY <3>1, LocksDiffer DEF OfImports, OfPolicy
  <2> QED
    BY <2>1, <2>4, <2>7, <2>8
<1> DEFINE W == {next[t] : t \in S}
           f == [w \in W |-> PolicyOf(Ahead(w))[2]]
<1>6. W \subseteq S /\ IsFiniteSet(W) /\ W # {}
  <2>1. W \subseteq Requests
    OBVIOUS
  <2> QED
    BY <1>2, <2>1, RequestsAssumption, FS_Subset
<1>7. f \in [W -> Nat]
  BY <1>5
<1>8. ASSUME NEW w \in W PROVE \E v \in W : f[w] < f[v]
  <2>1. PICK t \in S : w = next[t]
    OBVIOUS
  <2>2. w \in S /\ OfPolicy(Ahead(w)) /\ PolicyOf(Ahead(w))[2] < PolicyOf(Ahead(next[w]))[2]
    BY <1>5, <2>1
  <2>3. next[w] \in W
    BY <2>2
  <2> QED
    BY <2>2, <2>3
<1> HIDE DEF W, f
<1> QED
  BY <1>6, <1>7, <1>8, NobodyExceeds

-----------------------------------------------------------------------------
(* Sequences that are joined of others.                                    *)

(* What is joined of the first of w, of the first two, and so on.          *)
Joined(g, w, n, A) ==
  /\ n \in Nat /\ w \in [1..n -> Seq(A)] /\ g \in [0..n -> Seq(A)]
  /\ g[0] = <<>> /\ \A i \in 1..n : g[i] = g[i - 1] \o w[i]

(* Where the elements of one sequence and another are in both together.    *)
LEMMA Together ==
  ASSUME NEW A, NEW a \in Seq(A), NEW b \in Seq(A)
  PROVE  /\ a \o b \in Seq(A) /\ Len(a) \in Nat /\ Len(b) \in Nat /\ Len(a \o b) = Len(a) + Len(b)
         /\ \A k \in 1..Len(a) : (a \o b)[k] = a[k]
         /\ \A k \in 1..Len(b) : (a \o b)[Len(a) + k] = b[k]
OBVIOUS

(* Each is where the ones before it end, in all that are joined.           *)
InPlace(g, w, n) ==
  /\ n \in Nat /\ Len(g[0]) = 0
  /\ \A i \in 0..n : Len(g[i]) \in Nat /\ Len(g[i]) <= Len(g[n])
  /\ \A i \in 0..n : \A k \in 1..Len(g[i]) : g[n][k] = g[i][k]
  /\ \A i \in 1..n : Len(w[i]) \in Nat /\ Len(g[i]) = Len(g[i - 1]) + Len(w[i])
  /\ \A i \in 1..n : \A k \in 1..Len(w[i]) : g[n][Len(g[i - 1]) + k] = w[i][k]

(* So they are.                                                            *)
LEMMA JoinedInPlace ==
  ASSUME NEW A, NEW n, NEW w, NEW g, Joined(g, w, n, A)
  PROVE  InPlace(g, w, n)
<1>0. /\ n \in Nat /\ w \in [1..n -> Seq(A)] /\ g \in [0..n -> Seq(A)]
      /\ g[0] = <<>> /\ \A i \in 1..n : g[i] = g[i - 1] \o w[i]
  BY DEF Joined
<1>1. ASSUME NEW i \in 1..n
      PROVE  /\ Len(g[i]) = Len(g[i - 1]) + Len(w[i]) /\ Len(g[i - 1]) \in Nat /\ Len(w[i]) \in Nat
             /\ \A k \in 1..Len(g[i - 1]) : g[i][k] = g[i - 1][k]
             /\ \A k \in 1..Len(w[i]) : g[i][Len(g[i - 1]) + k] = w[i][k]
  <2>1. i - 1 \in 0..n
    BY <1>0
  <2>2. PICK a, b, c : a = g[i - 1] /\ b = w[i] /\ c = g[i]
    OBVIOUS
  <2>3. a \in Seq(A) /\ b \in Seq(A) /\ c = a \o b
    BY <1>0, <2>1, <2>2
  <2>4. /\ Len(a) \in Nat /\ Len(b) \in Nat /\ Len(c) = Len(a) + Len(b)
        /\ \A k \in 1..Len(a) : c[k] = a[k]
        /\ \A k \in 1..Len(b) : c[Len(a) + k] = b[k]
    BY <2>3, Together
  <2> QED
    BY <2>2, <2>4
<1> DEFINE Grows(i, j) == /\ Len(g[i]) \in Nat /\ Len(g[j]) \in Nat /\ Len(g[i]) <= Len(g[j])
                          /\ \A k \in 1..Len(g[i]) : g[j][k] = g[i][k]
           Good == {j \in Nat : j <= n => \A i \in 0..j : Grows(i, j)}
<1>2. 0 \in Good
  <2>1. \A i \in 0..0 : i = 0
    OBVIOUS
  <2>2. Len(<<>>) = 0 /\ 1..0 = {}
    OBVIOUS
  <2>3. Grows(0, 0)
    BY <1>0, <2>2
  <2> QED
    BY <2>1, <2>3
<1>3. ASSUME NEW j \in Nat, j \in Good PROVE j + 1 \in Good
  <2> SUFFICES ASSUME j + 1 <= n, NEW i \in 0..(j + 1) PROVE Grows(i, j + 1)
    OBVIOUS
  <2>0. j + 1 \in 1..n /\ (j + 1) - 1 = j /\ j \in 0..n /\ j <= n /\ j + 1 \in 0..n
    BY <1>0
  <2>1. /\ Len(g[j + 1]) = Len(g[j]) + Len(w[j + 1]) /\ Len(g[j]) \in Nat /\ Len(w[j + 1]) \in Nat
        /\ \A k \in 1..Len(g[j]) : g[j + 1][k] = g[j][k]
    <3>1. PICK m : m = j + 1
      OBVIOUS
    <3>2. m \in 1..n /\ m - 1 = j
      BY <2>0, <3>1
    <3>3. /\ Len(g[m]) = Len(g[m - 1]) + Len(w[m]) /\ Len(g[m - 1]) \in Nat /\ Len(w[m]) \in Nat
          /\ \A k \in 1..Len(g[m - 1]) : g[m][k] = g[m - 1][k]
      BY <1>1, <3>2
    <3> QED
      BY <3>1, <3>2, <3>3
  <2>2. CASE i = j + 1
    <3>1. Len(g[i]) \in Nat
      BY <2>1, <2>2
    <3> QED
      BY <2>2, <3>1
  <2>3. CASE i # j + 1
    <3>1. i \in 0..j
      BY <2>3
    <3>2. Grows(i, j)
      BY <1>3, <2>0, <3>1
    <3>3. \A k \in 1..Len(g[i]) : k \in 1..Len(g[j])
      BY <3>2
    <3>4. \A k \in 1..Len(g[i]) : g[j + 1][k] = g[i][k]
      BY <2>1, <3>2, <3>3
    <3>5. PICK a, b, c, d : a = Len(g[i]) /\ b = Len(g[j]) /\ c = Len(g[j + 1]) /\ d = Len(w[j + 1])
      OBVIOUS
    <3>6. a \in Nat /\ b \in Nat /\ d \in Nat /\ a <= b /\ c = b + d
      BY <2>1, <3>2, <3>5
    <3>7. c \in Nat /\ a <= c
      BY <3>6
    <3> QED
      BY <3>2, <3>4, <3>5, <3>7
  <2> QED
    BY <2>2, <2>3
<1>4. ASSUME NEW i \in 0..n PROVE Grows(i, n)
  <2>1. n \in Good
    <3> HIDE DEF Good
    <3> QED
      BY <1>0, <1>2, <1>3, CountingUp
  <2>2. n <= n
    BY <1>0
  <2> HIDE DEF Grows
  <2> QED
    BY <2>1, <2>2
<1>5. ASSUME NEW i \in 1..n, NEW k \in 1..Len(w[i]) PROVE g[n][Len(g[i - 1]) + k] = w[i][k]
  <2>1. i \in 0..n
    OBVIOUS
  <2>2. PICK a, b : a = Len(g[i - 1]) /\ b = Len(w[i])
    OBVIOUS
  <2>3. a \in Nat /\ b \in Nat /\ Len(g[i]) = a + b /\ k \in 1..b /\ g[i][a + k] = w[i][k]
    BY <1>1, <2>2
  <2>4. a + k \in 1..Len(g[i])
    BY <2>3
  <2>5. g[n][a + k] = g[i][a + k]
    BY <1>4, <2>1, <2>4
  <2> QED
    BY <2>2, <2>3, <2>5
<1>6. Len(g[0]) = 0
  BY <1>0
<1>7. /\ \A i \in 0..n : Len(g[i]) \in Nat /\ Len(g[i]) <= Len(g[n])
      /\ \A i \in 0..n : \A k \in 1..Len(g[i]) : g[n][k] = g[i][k]
  BY <1>4
<1> QED
  BY <1>0, <1>1, <1>5, <1>6, <1>7 DEF InPlace

(* What joins each of w to what is joined of those before.                 *)
Joining(w, n, A) == [x \in Seq(A) \X (1..n) |-> x[1] \o w[x[2]]]

(* Each goes on with what is joined so far.                                *)
LEMMA JoiningSteps ==
  ASSUME NEW A, NEW n \in Nat, NEW w \in [1..n -> Seq(A)]
  PROVE  /\ Stepping(Seq(A), <<>>, Joining(w, n, A), n)
         /\ \A x \in Seq(A) : \A i \in 1..n : Joining(w, n, A)[<<x, i>>] = x \o w[i]
<1> DEFINE next == Joining(w, n, A)
           S == Seq(A)
<1>1. ASSUME NEW x \in S, NEW i \in 1..n PROVE next[<<x, i>>] = x \o w[i]
  <2> HIDE DEF S
  <2>1. next = [y \in S \X (1..n) |-> y[1] \o w[y[2]]]
    BY DEF Joining, S
  <2> HIDE DEF next
  <2> QED
    BY <2>1, Zenon
<1>2. ASSUME NEW x \in S, NEW i \in 1..n PROVE x \o w[i] \in S
  OBVIOUS
<1>3. <<>> \in S
  OBVIOUS
<1> HIDE DEF next, S
<1>4. Stepping(S, <<>>, next, n)
  BY <1>1, <1>2, <1>3 DEF Stepping
<1> QED
  BY <1>1, <1>4 DEF next, S

(* Steps that join are Joined.                                             *)
LEMMA JoiningJoins ==
  ASSUME NEW A, NEW n \in Nat, NEW w \in [1..n -> Seq(A)], NEW g, Stepwise(g, Seq(A), <<>>, Joining(w, n, A), n)
  PROVE  Joined(g, w, n, A)
<1>1. g \in [0..n -> Seq(A)] /\ g[0] = <<>> /\ \A i \in 1..n : g[i] = Joining(w, n, A)[<<g[i - 1], i>>]
  BY DEF Stepwise
<1>2. ASSUME NEW i \in 1..n PROVE g[i] = g[i - 1] \o w[i]
  <2>1. i - 1 \in 0..n
    OBVIOUS
  <2>2. PICK x : x = g[i - 1]
    OBVIOUS
  <2>3. x \in Seq(A)
    BY <1>1, <2>1, <2>2
  <2>4. Joining(w, n, A)[<<x, i>>] = x \o w[i]
    BY <2>3, JoiningSteps
  <2> QED
    BY <1>1, <2>2, <2>4
<1> QED
  BY <1>1, <1>2 DEF Joined

(* All of a sequence of sequences.                                         *)
LEMMA FlattenJoins ==
  ASSUME NEW A, NEW seqs \in Seq(Seq(A))
  PROVE  \E g : Joined(g, seqs, Len(seqs), A) /\ FlattenSeq(seqs) = g[Len(seqs)]
<1> DEFINE n == Len(seqs)
           Rule(f) == f = [i \in 1..n |-> IF i = 1 THEN seqs[i] ELSE f[i - 1] \o seqs[i]]
<1>1. n \in Nat /\ seqs \in [1..n -> Seq(A)]
  OBVIOUS
<1>2. PICK g : Stepwise(g, Seq(A), <<>>, Joining(seqs, n, A), n)
  BY <1>1, JoiningSteps, StepByStep
<1>3. Joined(g, seqs, n, A)
  BY <1>1, <1>2, JoiningJoins
<1>4. g \in [0..n -> Seq(A)] /\ g[0] = <<>> /\ \A i \in 1..n : g[i] = g[i - 1] \o seqs[i]
  BY <1>3 DEF Joined
<1>5. CASE n = 0
  <2>1. seqs = <<>>
    BY <1>5
  <2> QED
    BY <1>3, <1>4, <1>5, <2>1 DEF FlattenSeq
<1>6. CASE n # 0
  <2> DEFINE h == [i \in 1..n |-> g[i]]
  <2>0. \A e \in Seq(A) : <<>> \o e = e
    OBVIOUS
  <2>1. ASSUME NEW i \in 1..n PROVE h[i] = IF i = 1 THEN seqs[i] ELSE h[i - 1] \o seqs[i]
    <3>1. CASE i = 1
      <4>1. g[i] = g[0] \o seqs[i] /\ seqs[i] \in Seq(A) /\ g[0] = <<>>
        BY <1>1, <1>4, <3>1
      <4> QED
        BY <2>0, <3>1, <4>1
    <3>2. CASE i # 1
      <4>1. i - 1 \in 1..n
        BY <1>1, <3>2
      <4> QED
        BY <1>4, <3>2, <4>1
    <3> QED
      BY <3>1, <3>2
  <2>2. h = [i \in 1..n |-> h[i]]
    OBVIOUS
  <2> HIDE DEF h
  <2>3. Rule(h)
    BY <2>1, <2>2
  <2>4. PICK flatten : Rule(flatten) /\ FlattenSeq(seqs) = flatten[n]
    <3> HIDE DEF Rule
    <3>1. FlattenSeq(seqs) = LET flatten[i \in 1..n] == IF i = 1 THEN seqs[i] ELSE flatten[i - 1] \o seqs[i]
                             IN  flatten[n]
      BY <1>6, Zenon DEF FlattenSeq
    <3> QED
      BY <2>3, <3>1, Zenon DEF Rule
  <2> DEFINE Same == {i \in Nat : i \in 1..n => flatten[i] = g[i]}
  <2>5. 0 \in Same
    OBVIOUS
  <2>6. ASSUME NEW i \in Nat, i \in Same PROVE i + 1 \in Same
    <3> SUFFICES ASSUME i + 1 \in 1..n PROVE flatten[i + 1] = g[i + 1]
      OBVIOUS
    <3>1. CASE i = 0
      <4>1. flatten[1] = seqs[1] /\ 1 \in 1..n
        BY <2>4, <3>1
      <4>2. PICK one : one = 1
        OBVIOUS
      <4>3. one \in 1..n /\ one - 1 = 0
        BY <4>1, <4>2
      <4>4. g[one] = <<>> \o seqs[one] /\ seqs[one] \in Seq(A)
        BY <1>1, <1>4, <4>3
      <4> QED
        BY <2>0, <3>1, <4>1, <4>2, <4>4
    <3>2. CASE i # 0
      <4>1. i \in 1..n /\ i + 1 # 1 /\ (i + 1) - 1 = i
        BY <1>1, <3>2
      <4>2. flatten[i + 1] = flatten[i] \o seqs[i + 1]
        BY <2>4, <4>1
      <4> QED
        BY <1>4, <2>6, <4>1, <4>2
    <3> QED
      BY <3>1, <3>2
  <2>7. n \in Same
    <3> HIDE DEF Same
    <3> QED
      BY <1>1, <2>5, <2>6, CountingUp
  <2>8. flatten[n] = g[n]
    BY <1>1, <1>6, <2>7
  <2> QED
    BY <1>3, <2>4, <2>8
<1> QED
  BY <1>5, <1>6

(* When each is of one element, it is the sequence of these.               *)
LEMMA JoinedSingles ==
  ASSUME NEW A, NEW e \in Seq(A), NEW w, NEW g, Joined(g, w, Len(e), A), \A i \in 1..Len(e) : w[i] = <<e[i]>>
  PROVE  g[Len(e)] = e
<1> DEFINE n == Len(e)
           Along == {i \in Nat : i <= n => Len(g[i]) = i}
<1>0. n \in Nat /\ g \in [0..n -> Seq(A)] /\ n \in 0..n
  BY DEF Joined
<1>1. /\ Len(g[0]) = 0 /\ \A i \in 1..n : Len(g[i]) = Len(g[i - 1]) + Len(w[i])
      /\ \A i \in 1..n : \A k \in 1..Len(w[i]) : g[n][Len(g[i - 1]) + k] = w[i][k]
  <2>1. InPlace(g, w, n)
    BY JoinedInPlace
  <2> QED
    BY <2>1 DEF InPlace
<1>2. \A x : Len(<<x>>) = 1 /\ <<x>>[1] = x
  OBVIOUS
<1>3. ASSUME NEW i \in Nat, i \in Along PROVE i + 1 \in Along
  <2> SUFFICES ASSUME i + 1 <= n PROVE Len(g[i + 1]) = i + 1
    OBVIOUS
  <2>1. PICK m : m = i + 1
    OBVIOUS
  <2>2. m \in 1..n /\ m - 1 = i /\ i <= n
    BY <1>0, <2>1
  <2>3. Len(g[m]) = Len(g[m - 1]) + Len(w[m]) /\ w[m] = <<e[m]>> /\ Len(g[i]) = i
    BY <1>1, <1>3, <2>2
  <2>4. Len(w[m]) = 1
    BY <1>2, <2>3
  <2> QED
    BY <2>1, <2>2, <2>3, <2>4
<1>4. 0 \in Along
  BY <1>1
<1>5. Nat \subseteq Along
  <2> HIDE DEF Along
  <2> QED
    BY <1>3, <1>4, CountingUp
<1>6. ASSUME NEW i \in 1..n PROVE g[n][i] = e[i]
  <2>1. i - 1 \in Nat /\ i - 1 <= n /\ (i - 1) + 1 = i
    BY <1>0
  <2>2. Len(g[i - 1]) = i - 1
    BY <1>5, <2>1
  <2>3. w[i] = <<e[i]>> /\ Len(w[i]) = 1 /\ w[i][1] = e[i]
    BY <1>2
  <2>4. 1 \in 1..Len(w[i])
    BY <2>3
  <2>5. g[n][Len(g[i - 1]) + 1] = w[i][1]
    BY <1>1, <2>4
  <2> QED
    BY <2>1, <2>2, <2>3, <2>5
<1>7. Len(g[n]) = n /\ g[n] \in Seq(A)
  BY <1>0, <1>5
<1> QED
  BY <1>6, <1>7, SeqEqual

-----------------------------------------------------------------------------
(* Files: what is made of their newlines.                                  *)

(* A text with other newlines is joined of what its characters become.     *)
LEMMA WithNewlinesJoins ==
  ASSUME NEW A, NEW B, NEW text \in Seq(B), NEW newline \in Seq(A), B \ Newlines \subseteq A
  PROVE  \E w, g : /\ Joined(g, w, Len(text), A) /\ \A i \in 1..Len(text) : w[i] = Given(text, newline, i)
                   /\ WithNewlines(text, newline) = g[Len(text)]
<1> DEFINE w == [i \in DOMAIN text |-> Given(text, newline, i)]
<1>1. ASSUME NEW i \in 1..Len(text) PROVE Given(text, newline, i) \in Seq(A)
  <2>1. text[i] \in B
    OBVIOUS
  <2>2. text[i] \notin Newlines => <<text[i]>> \in Seq(A)
    BY <2>1
  <2>3. CASE NewlineAt(text, i)
    BY <2>3 DEF Given
  <2>4. CASE ~NewlineAt(text, i) /\ text[i] \in Newlines
    BY <2>4 DEF Given
  <2>5. CASE ~NewlineAt(text, i) /\ text[i] \notin Newlines
    BY <2>2, <2>5 DEF Given
  <2> QED
    BY <2>3, <2>4, <2>5
<1>2. Len(text) \in Nat /\ DOMAIN text = 1..Len(text)
  OBVIOUS
<1>3. w \in Seq(Seq(A)) /\ Len(w) = Len(text) /\ \A i \in 1..Len(text) : w[i] = Given(text, newline, i)
  BY <1>1, <1>2
<1> HIDE DEF w
<1>4. PICK g : Joined(g, w, Len(w), A) /\ FlattenSeq(w) = g[Len(w)]
  BY <1>3, FlattenJoins
<1>5. WithNewlines(text, newline) = FlattenSeq(w)
  BY Zenon DEF WithNewlines, w
<1> QED
  BY <1>3, <1>4, <1>5

(* A character becomes a newline, nothing, or itself.                      *)
LEMMA Becomes ==
  ASSUME NEW text, NEW newline, NEW i
  PROVE  /\ NewlineAt(text, i) => Given(text, newline, i) = newline
         /\ ~NewlineAt(text, i) /\ text[i] \in Newlines => Given(text, newline, i) = <<>>
         /\ ~NewlineAt(text, i) /\ text[i] \notin Newlines => Given(text, newline, i) = <<text[i]>>
         /\ NewlineAt(text, i) <=>
              At0(text, i) \in {"cr", "lf"} /\ ~(text[i] = "lf" /\ At0(text, i - 1) = "cr")
<1>1. NewlineAt(text, i) => Given(text, newline, i) = newline
  BY DEF Given
<1>2. ~NewlineAt(text, i) /\ text[i] \in Newlines => Given(text, newline, i) = <<>>
  BY DEF Given
<1>3. ~NewlineAt(text, i) /\ text[i] \notin Newlines => Given(text, newline, i) = <<text[i]>>
  BY DEF Given
<1>4. NewlineAt(text, i) <=> At0(text, i) \in {"cr", "lf"} /\ ~(text[i] = "lf" /\ At0(text, i - 1) = "cr")
  BY DEF NewlineAt, Newlines
<1> QED
  BY <1>1, <1>2, <1>3, <1>4

(* A text read has no carriage return, and a text without one is read as   *)
(* it is.                                                                  *)
LEMMA NormalisedHasNone ==
  ASSUME NEW A, NEW text \in Seq(A), "lf" \in A
  PROVE  Normalised(text) \in Seq(A \ {"cr"})
<1> DEFINE B == A \ {"cr"}
<1>1. <<"lf">> \in Seq(B) /\ A \ Newlines \subseteq B
  BY DEF Newlines
<1> HIDE DEF B
<1>2. PICK w, g : Joined(g, w, Len(text), B) /\ Normalised(text) = g[Len(text)]
  BY <1>1, WithNewlinesJoins DEF Normalised
<1>3. Len(text) \in 0..Len(text)
  OBVIOUS
<1> QED
  BY <1>2, <1>3 DEF Joined, B

(* A text without them is normalised to itself.                            *)
LEMMA NormalisedAsItIs ==
  ASSUME NEW A, NEW text \in Seq(A), "cr" \notin A
  PROVE  Normalised(text) = text
<1> DEFINE B == A \cup {"lf"}
<1>1. <<"lf">> \in Seq(B) /\ A \ Newlines \subseteq B /\ text \in Seq(B)
  OBVIOUS
<1> HIDE DEF B
<1>2. PICK w, g : /\ Joined(g, w, Len(text), B) /\ \A i \in 1..Len(text) : w[i] = Given(text, <<"lf">>, i)
                  /\ Normalised(text) = g[Len(text)]
  BY <1>1, WithNewlinesJoins DEF Normalised
<1>3. ASSUME NEW i \in 1..Len(text) PROVE w[i] = <<text[i]>>
  <2>1. text[i] # "cr" /\ \A j \in DOMAIN text : text[j] # "cr"
    OBVIOUS
  <2>2. At0(text, i - 1) # "cr"
    BY <2>1 DEF At0
  <2>3. At0(text, i) = text[i]
    BY DEF At0
  <2>4. w[i] = Given(text, <<"lf">>, i)
    BY <1>2
  <2>5. CASE text[i] = "lf"
    BY <2>2, <2>3, <2>4, <2>5, Becomes
  <2>6. CASE text[i] # "lf"
    <3>1. text[i] \notin Newlines /\ ~NewlineAt(text, i)
      BY <2>1, <2>3, <2>6, Becomes DEF Newlines
    <3> QED
      BY <2>4, <3>1, Becomes
  <2> QED
    BY <2>5, <2>6
<1> QED
  BY <1>1, <1>2, <1>3, JoinedSingles

-----------------------------------------------------------------------------
(* Files: reading their characters one by one.                             *)

(* What the reader has of a text of these characters.                      *)
ScanStates(A) ==
  [records : Seq(Seq(Seq(A))), record : Seq(Seq(A)), cell : Seq(A), quoted : BOOLEAN, started : BOOLEAN,
   closed : BOOLEAN, skip : BOOLEAN, bad : BOOLEAN]

(* Such it remains.                                                        *)
LEMMA CharacterStays ==
  ASSUME NEW A, NEW text \in Seq(A), NEW s \in ScanStates(A), NEW i \in 1..Len(text), "quote" \in A
  PROVE  Character(s, text, i) \in ScanStates(A)
<1>1. PICK c \in A : c = text[i]
  OBVIOUS
<1>2. /\ s.records \in Seq(Seq(Seq(A))) /\ s.record \in Seq(Seq(A)) /\ s.cell \in Seq(A)
      /\ Append(s.cell, c) \in Seq(A) /\ Append(s.cell, "quote") \in Seq(A)
  BY DEF ScanStates
<1>3. WithCell(s) \in Seq(Seq(A))
  BY <1>2 DEF WithCell
<1>4. Append(s.records, WithCell(s)) \in Seq(Seq(Seq(A)))
  <2> DEFINE R == Seq(Seq(A))
  <2>1. s.records \in Seq(R) /\ WithCell(s) \in R
    BY <1>2, <1>3
  <2> HIDE DEF R
  <2>2. Append(s.records, WithCell(s)) \in Seq(R)
    BY <2>1
  <2> QED
    BY <2>2 DEF R
<1>5. <<>> \in Seq(A) /\ <<>> \in Seq(Seq(A))
  OBVIOUS
<1> DEFINE B1 == Seq(A)
           B2 == Seq(Seq(A))
           B3 == Seq(Seq(Seq(A)))
<1> HIDE DEF B1, B2, B3
<1>6. /\ s.records \in B3 /\ s.record \in B2 /\ s.cell \in B1 /\ Append(s.cell, c) \in B1
      /\ Append(s.cell, "quote") \in B1 /\ WithCell(s) \in B2 /\ Append(s.records, WithCell(s)) \in B3
      /\ <<>> \in B1 /\ <<>> \in B2
  BY <1>2, <1>3, <1>4, <1>5 DEF B1, B2, B3
<1>7. ScanStates(A) = [records : B3, record : B2, cell : B1, quoted : BOOLEAN, started : BOOLEAN,
                       closed : BOOLEAN, skip : BOOLEAN, bad : BOOLEAN]
  BY DEF ScanStates, B1, B2, B3
<1> DEFINE T == [records : B3, record : B2, cell : B1, quoted : BOOLEAN, started : BOOLEAN,
                 closed : BOOLEAN, skip : BOOLEAN, bad : BOOLEAN]
<1>8. s \in T
  BY <1>7
<1>9. /\ [s EXCEPT !.cell = Append(@, c)] \in T /\ [s EXCEPT !.cell = Append(@, "quote"), !.skip = TRUE] \in T
      /\ [s EXCEPT !.quoted = FALSE, !.closed = TRUE] \in T
      /\ [s EXCEPT !.bad = TRUE] \in T /\ [s EXCEPT !.skip = FALSE] \in T
      /\ [s EXCEPT !.quoted = TRUE, !.started = TRUE] \in T
      /\ [s EXCEPT !.cell = Append(@, c), !.started = TRUE] \in T
  BY <1>6, <1>8
<1>10. /\ [s EXCEPT !.record = WithCell(s), !.cell = <<>>, !.started = TRUE, !.closed = FALSE] \in T
       /\ [s EXCEPT !.records = Append(@, WithCell(s)), !.record = <<>>, !.cell = <<>>,
                    !.started = FALSE, !.closed = FALSE] \in T
  BY <1>6, <1>8
<1>11. EndCell(s) \in T /\ EndRecord(s) \in T
  BY <1>10 DEF EndCell, EndRecord
<1>12. \A b \in BOOLEAN : [EndRecord(s) EXCEPT !.skip = b] \in T
  BY <1>11
<1> HIDE DEF T
<1>13. Quoted(s, text, i) \in T
  BY <1>1, <1>9, Zenon DEF Quoted
<1>14. (c = "cr" /\ At0(text, i + 1) = "lf") \in BOOLEAN
  OBVIOUS
<1>15. [EndRecord(s) EXCEPT !.skip = c = "cr" /\ At0(text, i + 1) = "lf"] \in T
  BY <1>12, <1>14
<1>16. Plain(s, text, i) \in T
  BY <1>1, <1>9, <1>11, <1>15, Zenon DEF Plain
<1>17. Character(s, text, i) \in T
  BY <1>8, <1>9, <1>13, <1>16 DEF Character, T
<1> QED
  BY <1>7, <1>17 DEF T

(* The text is read character by character.                                *)
LEMMA ScannedGoes ==
  ASSUME NEW A, NEW text \in Seq(A), "quote" \in A
  PROVE  \E g \in [0..Len(text) -> ScanStates(A)] :
           /\ g[0] = Start /\ \A i \in 1..Len(text) : g[i] = Character(g[i - 1], text, i)
           /\ Scanned(text) = g[Len(text)]
<1> DEFINE S == ScanStates(A)
           n == Len(text)
           next == [x \in S \X (1..n) |-> Character(x[1], text, x[2])]
           places == [i \in DOMAIN text |-> i]
           Rule(f) == f = [s \in SUBSET DOMAIN places |->
                             IF s = {} THEN Start ELSE Character(f[s \ {Max(s)}], text, places[Max(s)])]
<1>1. n \in Nat /\ DOMAIN text = 1..n /\ DOMAIN places = 1..n /\ \A i \in 1..n : places[i] = i
  OBVIOUS
<1>2. \A x \in S : \A i \in 1..n : next[<<x, i>>] = Character(x, text, i)
  <2> HIDE DEF S, n
  <2> QED
    BY Zenon
<1>3. \A x \in S : \A i \in 1..n : Character(x, text, i) \in S
  BY CharacterStays
<1>4. Start \in S
  BY DEF Start, ScanStates
<1> HIDE DEF S, n, next, places
<1>5. Stepping(S, Start, next, n)
  BY <1>1, <1>2, <1>3, <1>4 DEF Stepping
<1>6. PICK f : Foldwise(f, S, Start, next, n)
  BY <1>5, FoldByFold
<1>7. Rule(f)
  <2>1. \A s \in SUBSET (1..n) : f[s] = IF s = {} THEN Start ELSE Character(f[s \ {Max(s)}], text, places[Max(s)])
    <3> SUFFICES ASSUME NEW s \in SUBSET (1..n), s # {}
                 PROVE  f[s] = Character(f[s \ {Max(s)}], text, places[Max(s)])
      BY <1>6 DEF Foldwise
    <3>1. Max(s) \in 1..n
      BY <1>1, HasLast
    <3>2. f[s \ {Max(s)}] \in S
      BY <1>6 DEF Foldwise
    <3>3. f[s] = next[<<f[s \ {Max(s)}], Max(s)>>]
      BY <1>6 DEF Foldwise
    <3> QED
      BY <1>1, <1>2, <3>1, <3>2, <3>3
  <2>2. f = [s \in SUBSET (1..n) |-> f[s]]
    BY <1>6 DEF Foldwise
  <2> QED
    BY <1>1, <2>1, <2>2, Zenon
<1>8. PICK it : Rule(it) /\ Scanned(text) = it[DOMAIN places]
  BY <1>7, Zenon DEF Scanned, FoldLeftDomain, FoldLeft, MapThenFoldSet, places
<1>9. it[{}] = Start
  BY <1>8, Zenon
<1>10. ASSUME NEW s \in SUBSET (1..n), s # {}, it[s \ {Max(s)}] \in S
       PROVE  it[s] = next[<<it[s \ {Max(s)}], Max(s)>>]
  <2>1. Max(s) \in 1..n
    BY <1>1, <1>10, HasLast
  <2>2. it[s] = Character(it[s \ {Max(s)}], text, places[Max(s)])
    BY <1>1, <1>8, <1>10, Zenon
  <2> QED
    BY <1>1, <1>2, <1>10, <2>1, <2>2
<1>11. FoldsBy(it, S, Start, next, n)
  BY <1>9, <1>10 DEF FoldsBy
<1>12. PICK g : Stepwise(g, S, Start, next, n) /\ it[1..n] = g[n]
  BY <1>5, <1>11, FoldGoes
<1>13. g \in [0..n -> S] /\ g[0] = Start /\ \A i \in 1..n : i - 1 \in 0..n /\ g[i] = next[<<g[i - 1], i>>]
  BY <1>1, <1>12 DEF Stepwise
<1>14. \A i \in 1..n : g[i] = Character(g[i - 1], text, i)
  BY <1>2, <1>13
<1> QED
  BY <1>1, <1>8, <1>12, <1>13, <1>14 DEF S, n

-----------------------------------------------------------------------------
(* Files: trimming.                                                        *)

(* Some places have a first one.                                           *)
LEMMA HasFirst ==
  ASSUME NEW n \in Nat, NEW s \in SUBSET (1..n), s # {}
  PROVE  \E x \in s : \A y \in s : x <= y
<1> DEFINE r == {k \in 1..n : (n + 1) - k \in s}
<1>1. \A y \in s : y \in 1..n /\ (n + 1) - y \in 1..n /\ (n + 1) - ((n + 1) - y) = y
  OBVIOUS
<1>2. \A y \in s : (n + 1) - y \in r
  BY <1>1
<1>3. r \in SUBSET (1..n) /\ r # {}
  BY <1>2
<1>4. PICK m \in r : \A y \in r : m >= y
  <2> HIDE DEF r
  <2>1. Max(r) \in r /\ \A y \in r : Max(r) >= y
    BY <1>3, HasLast
  <2> QED
    BY <2>1
<1>5. m \in 1..n /\ (n + 1) - m \in s
  BY <1>4
<1>6. \A y \in s : (n + 1) - m <= y
  <2> SUFFICES ASSUME NEW y \in s PROVE (n + 1) - m <= y
    OBVIOUS
  <2>1. y \in 1..n /\ m >= (n + 1) - y
    BY <1>1, <1>2, <1>4
  <2> QED
    BY <1>5, <2>1
<1> QED
  BY <1>5, <1>6

(* A value with nothing to trim.                                           *)
Neat(v) == v # <<>> => v[1] \notin Blanks /\ v[Len(v)] \notin Blanks

(* A cell is trimmed from its first to its last place that is not blank.   *)
LEMMA TrimmedFromTo ==
  ASSUME NEW A, NEW cell \in Seq(A), NEW from \in 1..Len(cell), NEW to \in 1..Len(cell),
         cell[from] \notin Blanks, cell[to] \notin Blanks,
         \A i \in 1..Len(cell) : cell[i] \notin Blanks => from <= i /\ i <= to
  PROVE  Trimmed(cell) = SubSeq(cell, from, to)
<1> DEFINE kept == {i \in DOMAIN cell : cell[i] \notin Blanks}
           first == CHOOSE i \in kept : \A j \in kept : i <= j
           last == CHOOSE i \in kept : \A j \in kept : j <= i
<1>1. from \in kept /\ to \in kept /\ \A i \in kept : i \in 1..Len(cell) /\ from <= i /\ i <= to
  OBVIOUS
<1> HIDE DEF kept
<1>2. first \in kept /\ first <= from
  BY <1>1
<1>3. last \in kept /\ to <= last
  BY <1>1
<1>4. first = from /\ last = to
  <2> HIDE DEF first, last
  <2> QED
    BY <1>1, <1>2, <1>3
<1>5. Trimmed(cell) = IF kept = {} THEN <<>> ELSE SubSeq(cell, first, last)
  BY Zenon DEF Trimmed, kept
<1> HIDE DEF first, last
<1> QED
  BY <1>1, <1>4, <1>5

(* What was trimmed has nothing to trim.                                   *)
LEMMA TrimmedIsNeat ==
  ASSUME NEW A, NEW cell \in Seq(A)
  PROVE  Trimmed(cell) \in Seq(A) /\ Neat(Trimmed(cell))
<1> DEFINE kept == {i \in DOMAIN cell : cell[i] \notin Blanks}
           n == Len(cell)
<1>0. n \in Nat /\ DOMAIN cell = 1..n /\ kept \in SUBSET (1..n)
  OBVIOUS
<1>1. CASE kept = {}
  <2>1. Trimmed(cell) = <<>>
    BY <1>1 DEF Trimmed
  <2> QED
    BY <2>1 DEF Neat
<1>2. CASE kept # {}
  <2>1. PICK from \in kept : \A y \in kept : from <= y
    <3> HIDE DEF kept, n
    <3> QED
      BY <1>0, <1>2, HasFirst
  <2>2. PICK to \in kept : \A y \in kept : y <= to
    <3> HIDE DEF kept, n
    <3>1. Max(kept) \in kept /\ \A y \in kept : Max(kept) >= y
      BY <1>0, <1>2, HasLast
    <3>2. \A y \in kept : y \in Nat
      BY <1>0
    <3> QED
      BY <3>1, <3>2
  <2>3. /\ from \in 1..n /\ to \in 1..n /\ from <= to /\ cell[from] \notin Blanks /\ cell[to] \notin Blanks
        /\ \A i \in 1..n : cell[i] \notin Blanks => from <= i /\ i <= to
    BY <1>0, <2>1, <2>2
  <2>4. Trimmed(cell) = SubSeq(cell, from, to)
    BY <2>3, TrimmedFromTo
  <2>5. \A i \in from..to : cell[i] \in A
    BY <1>0, <2>3
  <2>6. /\ SubSeq(cell, from, to) \in Seq(A) /\ Len(SubSeq(cell, from, to)) = to - from + 1
        /\ \A i \in 1..(to - from + 1) : SubSeq(cell, from, to)[i] = cell[from + i - 1]
    BY <2>3, <2>5, SubSeqProperties
  <2>7. PICK v, l : v = Trimmed(cell) /\ l = to - from + 1
    OBVIOUS
  <2>8. l \in 1..n /\ from + 1 - 1 = from /\ from + l - 1 = to /\ 1 \in 1..l /\ l \in 1..l
    BY <1>0, <2>3, <2>7
  <2>9. v[1] = cell[from] /\ v[l] = cell[to] /\ Len(v) = l
    BY <2>4, <2>6, <2>7, <2>8
  <2> QED
    BY <2>3, <2>4, <2>6, <2>7, <2>9 DEF Neat
<1> QED
  BY <1>1, <1>2

(* And what has nothing to trim stays as it is.                            *)
LEMMA NeatStays ==
  ASSUME NEW A, NEW v \in Seq(A), Neat(v)
  PROVE  Trimmed(v) = v
<1>1. CASE v = <<>>
  <2>1. {i \in DOMAIN v : v[i] \notin Blanks} = {}
    BY <1>1
  <2> QED
    BY <1>1, <2>1 DEF Trimmed
<1>2. CASE v # <<>>
  <2>1. Len(v) \in Nat /\ 1 \in 1..Len(v) /\ Len(v) \in 1..Len(v)
    BY <1>2
  <2>2. v[1] \notin Blanks /\ v[Len(v)] \notin Blanks
    BY <1>2 DEF Neat
  <2>3. \A i \in 1..Len(v) : 1 <= i /\ i <= Len(v)
    BY <2>1
  <2>4. Trimmed(v) = SubSeq(v, 1, Len(v))
    BY <2>1, <2>2, <2>3, TrimmedFromTo
  <2> QED
    BY <2>4, SubSeqFull
<1> QED
  BY <1>1, <1>2

(* Records that all say something are kept as they are; those that are     *)
(* kept say something.                                                     *)
LEMMA SayingAll ==
  ASSUME NEW R, NEW records \in Seq(R), \A i \in 1..Len(records) : ~IsBlank(records[i])
  PROVE  Saying(records) = records
<1> DEFINE w == [i \in DOMAIN records |-> IF IsBlank(records[i]) THEN <<>> ELSE <<records[i]>>]
<1>0. DOMAIN records = 1..Len(records) /\ Len(records) \in Nat /\ \A i \in 1..Len(records) : <<records[i]>> \in Seq(R)
  OBVIOUS
<1>1. w \in Seq(Seq(R)) /\ Len(w) = Len(records) /\ \A i \in 1..Len(records) : w[i] = <<records[i]>>
  <2>1. \A i \in 1..Len(records) : w[i] = <<records[i]>>
    BY <1>0
  <2>2. w = [i \in 1..Len(records) |-> w[i]]
    BY <1>0
  <2> HIDE DEF w
  <2>3. PICK n : n = Len(records)
    OBVIOUS
  <2>4. n \in Nat /\ w = [i \in 1..n |-> w[i]] /\ \A i \in 1..n : w[i] \in Seq(R)
    BY <1>0, <2>1, <2>2, <2>3
  <2>5. w \in Seq(Seq(R)) /\ Len(w) = n
    BY <2>4
  <2> QED
    BY <2>1, <2>3, <2>5
<1> HIDE DEF w
<1>2. PICK g : Joined(g, w, Len(records), R) /\ FlattenSeq(w) = g[Len(records)]
  BY <1>1, FlattenJoins
<1>3. g[Len(records)] = records
  BY <1>1, <1>2, JoinedSingles
<1> QED
  BY <1>2, <1>3, Zenon DEF Saying, w

(* Those that are kept say something.                                      *)
LEMMA SayingIs ==
  ASSUME NEW R, NEW records \in Seq(R)
  PROVE  Saying(records) \in Seq({r \in R : ~IsBlank(r)})
<1> DEFINE w == [i \in DOMAIN records |-> IF IsBlank(records[i]) THEN <<>> ELSE <<records[i]>>]
           Q == {r \in R : ~IsBlank(r)}
<1>1. ASSUME NEW i \in 1..Len(records) PROVE (IF IsBlank(records[i]) THEN <<>> ELSE <<records[i]>>) \in Seq(Q)
  <2>1. records[i] \in R
    OBVIOUS
  <2>2. ~IsBlank(records[i]) => records[i] \in Q
    BY <2>1
  <2> HIDE DEF Q
  <2>3. ~IsBlank(records[i]) => <<records[i]>> \in Seq(Q)
    BY <2>2
  <2> QED
    BY <2>3
<1>2. DOMAIN records = 1..Len(records) /\ Len(records) \in Nat
  OBVIOUS
<1> HIDE DEF Q
<1>3. w \in Seq(Seq(Q))
  BY <1>1, <1>2
<1> HIDE DEF w
<1>4. PICK g : Joined(g, w, Len(w), Q) /\ FlattenSeq(w) = g[Len(w)]
  BY <1>3, FlattenJoins
<1>5. Len(w) \in 0..Len(w)
  BY <1>3
<1>6. FlattenSeq(w) \in Seq(Q)
  BY <1>4, <1>5 DEF Joined
<1>7. Saying(records) = FlattenSeq(w)
  BY Zenon DEF Saying, w
<1> QED
  BY <1>6, <1>7 DEF Q

(* Reading what a form has posted of a text gives what reading it gives.   *)
LEMMA PostedReadsTheSame ==
  ASSUME NEW B, NEW text \in Seq(B)
  PROVE  Normalised(Posted(text)) = Normalised(text)
<1> DEFINE A == B \cup {"cr", "lf"}
           n == Len(text)
           posted == Posted(text)
           m == Len(posted)
<1>1. /\ <<"lf">> \in Seq(A) /\ <<"cr", "lf">> \in Seq(A) /\ B \ Newlines \subseteq A /\ A \ Newlines \subseteq A
      /\ n \in Nat
  OBVIOUS
<1> HIDE DEF A
<1>2. PICK wp, P : Joined(P, wp, n, A) /\ (\A i \in 1..n : wp[i] = Given(text, <<"cr", "lf">>, i)) /\ posted = P[n]
  BY <1>1, WithNewlinesJoins DEF Posted
<1>3. PICK wn, N : Joined(N, wn, n, A) /\ (\A i \in 1..n : wn[i] = Given(text, <<"lf">>, i)) /\ Normalised(text) = N[n]
  BY <1>1, WithNewlinesJoins DEF Normalised
<1>4. posted \in Seq(A)
  <2>1. n \in 0..n
    BY <1>1
  <2> QED
    BY <1>2, <2>1 DEF Joined
<1> HIDE DEF posted
<1>5. PICK wm, M : /\ Joined(M, wm, m, A) /\ \A i \in 1..m : wm[i] = Given(posted, <<"lf">>, i)
                   /\ Normalised(posted) = M[m]
  BY <1>1, <1>4, WithNewlinesJoins DEF Normalised
<1>6. InPlace(P, wp, n)
  BY <1>2, JoinedInPlace
<1>7. m \in Nat /\ DOMAIN posted = 1..m
  BY <1>4
<1> HIDE DEF n, m
<1> DEFINE Same == {i \in Nat : i <= n => M[Len(P[i])] = N[i]}
<1>8. 0 \in Same
  BY <1>3, <1>5, <1>6 DEF InPlace, Joined
<1>9. ASSUME NEW i \in Nat, i \in Same PROVE i + 1 \in Same
  <2> SUFFICES ASSUME i + 1 <= n PROVE M[Len(P[i + 1])] = N[i + 1]
    OBVIOUS
  <2>1. PICK j : j = i + 1
    OBVIOUS
  <2>2. j \in 1..n /\ j \in 0..n /\ i \in 0..n /\ i <= n /\ j - 1 = i
    BY <1>1, <2>1
  <2>3. PICK p, l : p = Len(P[i]) /\ l = Len(wp[j])
    OBVIOUS
  <2>4. /\ p \in Nat /\ l \in Nat /\ Len(P[j]) = p + l /\ p + l <= m
        /\ \A k \in 1..l : posted[p + k] = wp[j][k]
    <3>1. \A x \in 0..n : Len(P[x]) \in Nat /\ Len(P[x]) <= Len(P[n])
      BY <1>6 DEF InPlace
    <3>2. \A x \in 1..n : Len(wp[x]) \in Nat /\ Len(P[x]) = Len(P[x - 1]) + Len(wp[x])
      BY <1>6 DEF InPlace
    <3>3. \A x \in 1..n : \A k \in 1..Len(wp[x]) : P[n][Len(P[x - 1]) + k] = wp[x][k]
      BY <1>6 DEF InPlace
    <3>4. p \in Nat /\ l \in Nat /\ Len(P[j]) = p + l
      BY <2>2, <2>3, <3>1, <3>2
    <3>5. Len(P[j]) <= m
      BY <1>2, <2>2, <3>1 DEF m
    <3>6. \A k \in 1..l : posted[p + k] = wp[j][k]
      BY <1>2, <2>2, <2>3, <3>3
    <3> QED
      BY <3>4, <3>5, <3>6
  <2>5. M[p] = N[i]
    BY <1>9, <2>2, <2>3
  <2>6. N[i] \in Seq(A) /\ N[j] = N[i] \o wn[j]
    <3>1. N \in [0..n -> Seq(A)] /\ \A x \in 1..n : N[x] = N[x - 1] \o wn[x]
      BY <1>3 DEF Joined
    <3> QED
      BY <2>2, <3>1
  <2>7. ASSUME NEW r \in 1..m, NEW q, q = r - 1
        PROVE  /\ M[r] = M[q] \o wm[r] /\ wm[r] = Given(posted, <<"lf">>, r)
               /\ (wm[r] = <<>> => M[r] = M[q]) /\ At0(posted, r) = posted[r]
    <3>1. M[r] = M[q] \o wm[r] /\ (wm[r] = <<>> => M[r] = M[q])
      <4>1. M \in [0..m -> Seq(A)] /\ \A x \in 1..m : M[x] = M[x - 1] \o wm[x]
        BY <1>5 DEF Joined
      <4>2. q \in 0..m
        BY <1>7, <2>7
      <4>3. M[r] = M[q] \o wm[r] /\ M[q] \in Seq(A)
        BY <2>7, <4>1, <4>2
      <4>4. M[q] \o <<>> = M[q]
        BY <4>3
      <4> QED
        BY <4>3, <4>4
    <3>2. At0(posted, r) = posted[r]
      BY <1>7 DEF At0
    <3> QED
      BY <1>5, <3>1, <3>2
  <2>8. wp[j] = Given(text, <<"cr", "lf">>, j) /\ wn[j] = Given(text, <<"lf">>, j)
    BY <1>2, <1>3, <2>2
  <2>9. CASE NewlineAt(text, j)
    <3>1. wp[j] = <<"cr", "lf">> /\ wn[j] = <<"lf">>
      BY <2>8, <2>9, Becomes
    <3>2. l = 2 /\ wp[j][1] = "cr" /\ wp[j][2] = "lf"
      BY <2>3, <3>1
    <3>3. PICK q, r : q = p + 1 /\ r = p + 2
      OBVIOUS
    <3>4. /\ q \in 1..m /\ r \in 1..m /\ p = q - 1 /\ q = r - 1 /\ 1 \in 1..l /\ 2 \in 1..l
          /\ r = p + l
      BY <1>7, <2>4, <3>2, <3>3
    <3>5. posted[q] = "cr" /\ posted[r] = "lf"
      BY <2>4, <3>2, <3>3, <3>4
    <3>6. At0(posted, q) = "cr" /\ At0(posted, r) = "lf" /\ At0(posted, r - 1) = "cr"
      BY <2>7, <3>4, <3>5
    <3>7. NewlineAt(posted, q) /\ ~NewlineAt(posted, r) /\ posted[r] \in Newlines
      BY <3>5, <3>6 DEF NewlineAt, Newlines
    <3>8. wm[q] = Given(posted, <<"lf">>, q) /\ wm[r] = Given(posted, <<"lf">>, r)
      BY <2>7, <3>4
    <3>9. wm[q] = <<"lf">> /\ wm[r] = <<>>
      BY <3>7, <3>8, Becomes
    <3>10. M[q] = M[p] \o <<"lf">> /\ M[r] = M[q]
      BY <2>7, <3>4, <3>9
    <3> QED
      BY <2>1, <2>4, <2>5, <2>6, <3>1, <3>4, <3>10
  <2>10. CASE ~NewlineAt(text, j) /\ text[j] \in Newlines
    <3>1. wp[j] = <<>> /\ wn[j] = <<>>
      BY <2>8, <2>10, Becomes
    <3>2. l = 0 /\ N[i] \o <<>> = N[i]
      BY <2>3, <2>6, <3>1
    <3>3. p + l = p
      BY <2>4, <3>2
    <3> QED
      BY <2>1, <2>4, <2>5, <2>6, <3>1, <3>2, <3>3
  <2>11. CASE ~NewlineAt(text, j) /\ text[j] \notin Newlines
    <3>1. wp[j] = <<text[j]>> /\ wn[j] = <<text[j]>>
      BY <2>8, <2>11, Becomes
    <3>2. l = 1 /\ wp[j][1] = text[j]
      BY <2>3, <3>1
    <3>3. PICK q : q = p + 1
      OBVIOUS
    <3>4. q \in 1..m /\ p = q - 1 /\ 1 \in 1..l /\ q = p + l
      BY <1>7, <2>4, <3>2, <3>3
    <3>5. posted[q] = text[j] /\ At0(posted, q) = text[j]
      <4>1. posted[p + 1] = text[j]
        BY <2>4, <3>2, <3>4
      <4>2. At0(posted, q) = posted[q]
        BY <2>7, <3>4
      <4> QED
        BY <3>3, <4>1, <4>2
    <3>6. ~NewlineAt(posted, q) /\ posted[q] \notin Newlines
      BY <2>11, <3>5 DEF NewlineAt
    <3>7. wm[q] = Given(posted, <<"lf">>, q)
      BY <2>7, <3>4
    <3>8. wm[q] = <<text[j]>>
      BY <3>5, <3>6, <3>7, Becomes
    <3>9. M[q] = M[p] \o <<text[j]>>
      BY <2>7, <3>4, <3>8
    <3> QED
      BY <2>1, <2>4, <2>5, <2>6, <3>1, <3>4, <3>9
  <2> QED
    BY <2>9, <2>10, <2>11
<1>10. n \in Same
  <2> HIDE DEF Same
  <2> QED
    BY <1>1, <1>8, <1>9, CountingUp
<1>11. M[m] = N[n]
  BY <1>1, <1>2, <1>10 DEF m
<1> QED
  BY <1>3, <1>5, <1>11 DEF posted

-----------------------------------------------------------------------------
(* Files: reading what was written in quotes.                              *)

(* A reader that has met nothing bad.                                      *)
Reader(R, r, c, qu, st, cl, sk) ==
  [f \in {"records", "record", "cell", "quoted", "started", "closed", "skip", "bad"} |->
     IF f = "records" THEN R ELSE IF f = "record" THEN r ELSE IF f = "cell" THEN c
     ELSE IF f = "quoted" THEN qu ELSE IF f = "started" THEN st ELSE IF f = "closed" THEN cl
     ELSE IF f = "skip" THEN sk ELSE FALSE]

(* Where it stands: before a cell, in the quotes of one, at the second of  *)
(* two quotes there, after one.                                            *)
Opening(R, r)     == Reader(R, r, <<>>, FALSE, r # <<>>, FALSE, FALSE)
Within(R, r, c)   == Reader(R, r, c, TRUE, TRUE, FALSE, FALSE)
Skipping(R, r, c) == Reader(R, r, c, TRUE, TRUE, FALSE, TRUE)
Closed(R, r, c)   == Reader(R, r, c, FALSE, TRUE, TRUE, FALSE)

(* A quote opens a cell.                                                   *)
LEMMA ReadOpening ==
  ASSUME NEW R, NEW r, NEW text, NEW i, text[i] = "quote"
  PROVE  Character(Opening(R, r), text, i) = Within(R, r, <<>>)
<1> DEFINE s == Opening(R, r)
<1>1. ~s.bad /\ ~s.skip /\ ~s.quoted /\ ~s.closed /\ s.cell = <<>>
  BY DEF Reader, Opening
<1>2. [s EXCEPT !.quoted = TRUE, !.started = TRUE] = Within(R, r, <<>>)
  BY DEF Reader, Opening, Within
<1> HIDE DEF s
<1>3. Character(s, text, i) = [s EXCEPT !.quoted = TRUE, !.started = TRUE]
  BY <1>1 DEF Character, Plain, Newlines
<1> QED
  BY <1>2, <1>3 DEF s

(* A comma or a new line ends it.                                          *)
LEMMA ReadClosed ==
  ASSUME NEW A, NEW R, NEW r \in Seq(A), NEW c \in A, NEW text, NEW i
  PROVE  /\ text[i] = "comma" => Character(Closed(R, r, c), text, i) = Opening(R, Append(r, c))
         /\ text[i] = "lf" => Character(Closed(R, r, c), text, i) = Opening(Append(R, Append(r, c)), <<>>)
<1> DEFINE s == Closed(R, r, c)
<1>1. ~s.bad /\ ~s.skip /\ ~s.quoted
  BY DEF Reader, Closed
<1>2. WithCell(s) = Append(r, c)
  BY DEF Reader, WithCell, Closed
<1>3. PICK q : q = Append(r, c) /\ q # <<>>
  <2>1. Append(r, c) # <<>>
    <3>1. Len(Append(r, c)) = Len(r) + 1 /\ Len(r) \in Nat
      OBVIOUS
    <3>2. Len(<<>>) = 0
      OBVIOUS
    <3> QED
      BY <3>1, <3>2
  <2> QED
    BY <2>1
<1>4. EndCell(s) = Opening(R, q)
  BY <1>2, <1>3 DEF EndCell, Reader, Closed, Opening
<1>5. EndRecord(s) = Opening(Append(R, q), <<>>)
  BY <1>2, <1>3 DEF EndRecord, Reader, Closed, Opening
<1>6. [EndRecord(s) EXCEPT !.skip = FALSE] = EndRecord(s)
  BY <1>5 DEF Reader, Opening
<1> HIDE DEF s
<1>7. text[i] = "comma" => Character(s, text, i) = EndCell(s)
  BY <1>1 DEF Character, Plain, Newlines
<1>8. ASSUME text[i] = "lf" PROVE Character(s, text, i) = EndRecord(s)
  <2>1. Character(s, text, i) = [EndRecord(s) EXCEPT !.skip = text[i] = "cr" /\ At0(text, i + 1) = "lf"]
    BY <1>1, <1>8 DEF Character, Plain, Newlines
  <2>2. (text[i] = "cr" /\ At0(text, i + 1) = "lf") = FALSE
    BY <1>8
  <2> QED
    BY <1>6, <2>1, <2>2
<1> QED
  BY <1>3, <1>4, <1>5, <1>7, <1>8 DEF s

(* The place b is k after the place p.                                     *)
Off(p, k, b) == p \in Nat /\ k \in Nat /\ b = p + k

(* What is read inside quotes.                                             *)
LEMMA ReadWithin ==
  ASSUME NEW R, NEW r, NEW c, NEW text, NEW i, NEW j, Off(i, 1, j)
  PROVE  /\ text[i] # "quote" => Character(Within(R, r, c), text, i) = Within(R, r, Append(c, text[i]))
         /\ text[i] = "quote" /\ At0(text, j) = "quote" =>
              Character(Within(R, r, c), text, i) = Skipping(R, r, Append(c, "quote"))
         /\ text[i] = "quote" /\ At0(text, j) # "quote" => Character(Within(R, r, c), text, i) = Closed(R, r, c)
         /\ Character(Skipping(R, r, c), text, i) = Within(R, r, c)
<1> DEFINE s == Within(R, r, c)
<1>1. ~s.bad /\ ~s.skip /\ s.quoted
  BY DEF Reader, Within
<1>2. [s EXCEPT !.cell = Append(@, text[i])] = Within(R, r, Append(c, text[i]))
  BY DEF Reader, Within
<1>3. [s EXCEPT !.cell = Append(@, "quote"), !.skip = TRUE] = Skipping(R, r, Append(c, "quote"))
  BY DEF Reader, Within, Skipping
<1>4. [s EXCEPT !.quoted = FALSE, !.closed = TRUE] = Closed(R, r, c)
  BY DEF Reader, Within, Closed
<1>5. Character(Skipping(R, r, c), text, i) = Within(R, r, c)
  BY DEF Reader, Character, Skipping, Within
<1> HIDE DEF s
<1>6. /\ text[i] # "quote" => Character(s, text, i) = [s EXCEPT !.cell = Append(@, text[i])]
      /\ text[i] = "quote" /\ At0(text, j) = "quote" =>
           Character(s, text, i) = [s EXCEPT !.cell = Append(@, "quote"), !.skip = TRUE]
      /\ text[i] = "quote" /\ At0(text, j) # "quote" =>
           Character(s, text, i) = [s EXCEPT !.quoted = FALSE, !.closed = TRUE]
  <2>1. i + 1 = j
    BY DEF Off
  <2> QED
    BY <1>1, <2>1 DEF Character, Quoted
<1> QED
  BY <1>2, <1>3, <1>4, <1>5, <1>6 DEF s

(* The text is read from the state g[0] on.                                *)
Reads(g, text) == \A i \in DOMAIN text : g[i] = Character(g[i - 1], text, i)

(* One character is read as the reader reads it.                           *)
LEMMA ReadsOne ==
  ASSUME NEW g, NEW text, Reads(g, text), NEW a, NEW b, Off(a, 1, b), b \in DOMAIN text
  PROVE  g[b] = Character(g[a], text, b) /\ At0(text, b) = text[b]
<1>1. b - 1 = a
  BY DEF Off
<1> QED
  BY <1>1 DEF Reads, At0

(* It has w after the place p.                                             *)
Stands(text, p, w) == \A k \in DOMAIN w : p + k \in DOMAIN text /\ text[p + k] = w[k]

(* What is at one of its places.                                           *)
LEMMA StandsAt ==
  ASSUME NEW text, NEW p, NEW w, Stands(text, p, w), NEW k, NEW b, Off(p, k, b), k \in DOMAIN w
  PROVE  b \in DOMAIN text /\ text[b] = w[k]
<1>1. b = p + k
  BY DEF Off
<1> QED
  BY <1>1 DEF Stands

(* How long two sequences are together.                                    *)
LEMMA OffTogether ==
  ASSUME NEW A, NEW a \in Seq(A), NEW b \in Seq(A)
  PROVE  a \o b \in Seq(A) /\ Off(Len(a), Len(b), Len(a \o b))
<1>1. a \o b \in Seq(A) /\ Len(a) \in Nat /\ Len(b) \in Nat /\ Len(a \o b) = Len(a) + Len(b)
  BY Together
<1> QED
  BY <1>1 DEF Off

(* What two sequences have together, each has after the other.             *)
LEMMA StandsApart ==
  ASSUME NEW A, NEW text, NEW p, NEW a \in Seq(A), NEW b \in Seq(A), Stands(text, p, a \o b),
         NEW q, Off(p, Len(a), q)
  PROVE  Stands(text, p, a) /\ Stands(text, q, b)
<1>0. p \in Nat /\ q = p + Len(a)
  BY DEF Off
<1>1. /\ a \o b \in Seq(A) /\ Len(a) \in Nat /\ Len(b) \in Nat /\ Len(a \o b) = Len(a) + Len(b)
      /\ \A k \in 1..Len(a) : (a \o b)[k] = a[k]
      /\ \A k \in 1..Len(b) : (a \o b)[Len(a) + k] = b[k]
  BY Together
<1>2. PICK ab, la, lb : ab = a \o b /\ la = Len(a) /\ lb = Len(b)
  OBVIOUS
<1>3. DOMAIN ab = 1..(la + lb) /\ DOMAIN a = 1..la /\ DOMAIN b = 1..lb
  BY <1>1, <1>2
<1>4. \A k \in 1..(la + lb) : p + k \in DOMAIN text /\ text[p + k] = ab[k]
  BY <1>2, <1>3 DEF Stands
<1>5. ASSUME NEW k \in 1..la PROVE p + k \in DOMAIN text /\ text[p + k] = a[k]
  <2>1. k \in 1..(la + lb) /\ ab[k] = a[k]
    BY <1>1, <1>2
  <2> QED
    BY <1>4, <2>1
<1>6. ASSUME NEW k \in 1..lb PROVE q + k \in DOMAIN text /\ text[q + k] = b[k]
  <2>1. PICK x : x = la + k
    OBVIOUS
  <2>2. x \in 1..(la + lb) /\ ab[x] = b[k]
    BY <1>1, <1>2, <2>1
  <2>3. p + x = q + k
    BY <1>0, <1>1, <1>2, <2>1
  <2> QED
    BY <1>4, <2>2, <2>3
<1> QED
  BY <1>3, <1>5, <1>6 DEF Stands

(* Of what is joined, each stands after those before it.                   *)
LEMMA OffJoined ==
  ASSUME NEW A, NEW n, NEW w, NEW g, Joined(g, w, n, A), NEW h, NEW i \in 1..n, Off(h, 1, i)
  PROVE  h \in 0..n /\ i \in 0..n /\ Off(Len(g[h]), Len(w[i]), Len(g[i])) /\ g[i] = g[h] \o w[i] /\ g[h] \in Seq(A)
<1>1. InPlace(g, w, n)
  BY JoinedInPlace
<1>2. n \in Nat /\ i - 1 = h /\ h \in 0..n /\ i \in 0..n
  BY <1>1 DEF InPlace, Off
<1>3. Len(w[i]) \in Nat /\ Len(g[i]) = Len(g[i - 1]) + Len(w[i]) /\ Len(g[h]) \in Nat
  BY <1>1, <1>2 DEF InPlace
<1>4. g[i] = g[i - 1] \o w[i] /\ g[h] \in Seq(A)
  BY <1>2 DEF Joined
<1> QED
  BY <1>2, <1>3, <1>4 DEF Off

(* So it is with any number of them.                                       *)
LEMMA StandsJoined ==
  ASSUME NEW A, NEW text, NEW p, NEW n, NEW w, NEW g, Joined(g, w, n, A), Stands(text, p, g[n]),
         NEW h, NEW i \in 1..n, Off(h, 1, i), NEW q, Off(p, Len(g[h]), q)
  PROVE  Stands(text, q, w[i])
<1>1. InPlace(g, w, n)
  BY JoinedInPlace
<1>0. i - 1 = h /\ p \in Nat /\ q = p + Len(g[h])
  BY DEF Off
<1>2. /\ n \in Nat /\ Len(w[i]) \in Nat /\ Len(g[i]) = Len(g[h]) + Len(w[i])
      /\ \A k \in 1..Len(w[i]) : g[n][Len(g[h]) + k] = w[i][k]
  BY <1>0, <1>1 DEF InPlace
<1>3. i \in 0..n /\ h \in 0..n /\ n \in 0..n
  BY <1>0, <1>2
<1>4. Len(g[i]) \in Nat /\ Len(g[h]) \in Nat /\ Len(g[i]) <= Len(g[n]) /\ Len(g[n]) \in Nat
  BY <1>1, <1>3 DEF InPlace
<1>5. PICK a, l, b, e : a = Len(g[h]) /\ l = Len(w[i]) /\ b = Len(g[i]) /\ e = Len(g[n])
  OBVIOUS
<1>6. w[i] \in Seq(A) /\ g[n] \in Seq(A)
  BY <1>3 DEF Joined
<1>7. DOMAIN w[i] = 1..l /\ DOMAIN g[n] = 1..e
  BY <1>5, <1>6
<1>8. ASSUME NEW k \in 1..l PROVE q + k \in DOMAIN text /\ text[q + k] = w[i][k]
  <2>1. PICK x : x = a + k
    OBVIOUS
  <2>2. a \in Nat /\ l \in Nat /\ b = a + l /\ b <= e /\ e \in Nat /\ k \in 1..l
    BY <1>2, <1>4, <1>5
  <2>3. x \in 1..e /\ p + x = q + k
    <3>1. p \in Nat /\ q = p + a
      BY <1>0, <1>5
    <3> QED
      BY <2>1, <2>2, <3>1
  <2>4. g[n][x] = w[i][k]
    BY <1>2, <1>5, <2>1
  <2>5. p + x \in DOMAIN text /\ text[p + x] = g[n][x]
    BY <1>7, <2>3 DEF Stands
  <2> QED
    BY <2>3, <2>4, <2>5
<1> QED
  BY <1>7, <1>8 DEF Stands

(* A quote opens a cell.                                                   *)
LEMMA OpensCell ==
  ASSUME NEW g, NEW text, Reads(g, text), NEW a, NEW b, Off(a, 1, b), b \in DOMAIN text,
         text[b] = "quote", NEW R, NEW r, g[a] = Opening(R, r)
  PROVE  g[b] = Within(R, r, <<>>)
<1>1. g[b] = Character(g[a], text, b)
  BY ReadsOne
<1>2. Character(Opening(R, r), text, b) = Within(R, r, <<>>)
  BY ReadOpening
<1> QED
  BY <1>1, <1>2

(* Any other character is taken.                                           *)
LEMMA TakesCharacter ==
  ASSUME NEW g, NEW text, Reads(g, text), NEW a, NEW b, Off(a, 1, b), b \in DOMAIN text,
         text[b] # "quote", NEW R, NEW r, NEW c, g[a] = Within(R, r, c)
  PROVE  g[b] = Within(R, r, Append(c, text[b]))
<1>1. g[b] = Character(g[a], text, b)
  BY ReadsOne
<1>2. PICK d : Off(b, 1, d)
  <2>1. Off(b, 1, b + 1)
    BY DEF Off
  <2> QED
    BY <2>1
<1>3. Character(Within(R, r, c), text, b) = Within(R, r, Append(c, text[b]))
  BY <1>2, ReadWithin
<1> QED
  BY <1>1, <1>3

(* Two quotes are one.                                                     *)
LEMMA TakesQuotes ==
  ASSUME NEW g, NEW text, Reads(g, text), NEW a, NEW b, Off(a, 1, b), NEW d, Off(b, 1, d),
         b \in DOMAIN text, d \in DOMAIN text, text[b] = "quote", text[d] = "quote",
         NEW R, NEW r, NEW c, g[a] = Within(R, r, c)
  PROVE  g[d] = Within(R, r, Append(c, "quote"))
<1>1. g[b] = Character(g[a], text, b) /\ g[d] = Character(g[b], text, d) /\ At0(text, d) = "quote"
  BY ReadsOne
<1>2. PICK e : Off(d, 1, e)
  <2>1. Off(d, 1, d + 1)
    BY DEF Off
  <2> QED
    BY <2>1
<1>3. PICK q : q = Append(c, "quote")
  OBVIOUS
<1>4. Character(Within(R, r, c), text, b) = Skipping(R, r, q)
  BY <1>1, <1>3, ReadWithin
<1>5. Character(Skipping(R, r, q), text, d) = Within(R, r, q)
  BY <1>2, ReadWithin
<1> QED
  BY <1>1, <1>3, <1>4, <1>5

(* One that no other follows closes the cell.                              *)
LEMMA ClosesCell ==
  ASSUME NEW g, NEW text, Reads(g, text), NEW a, NEW b, Off(a, 1, b), NEW d, Off(b, 1, d),
         b \in DOMAIN text, text[b] = "quote", At0(text, d) # "quote",
         NEW R, NEW r, NEW c, g[a] = Within(R, r, c)
  PROVE  g[b] = Closed(R, r, c)
<1>1. g[b] = Character(g[a], text, b)
  BY ReadsOne
<1>2. Character(Within(R, r, c), text, b) = Closed(R, r, c)
  BY ReadWithin
<1> QED
  BY <1>1, <1>2

(* A comma ends it, a new line the record too.                             *)
LEMMA EndsCell ==
  ASSUME NEW A, NEW g, NEW text, Reads(g, text), NEW a, NEW b, Off(a, 1, b), b \in DOMAIN text,
         NEW R, NEW r \in Seq(A), NEW c \in A, g[a] = Closed(R, r, c)
  PROVE  /\ text[b] = "comma" => g[b] = Opening(R, Append(r, c))
         /\ text[b] = "lf" => g[b] = Opening(Append(R, Append(r, c)), <<>>)
<1>1. g[b] = Character(g[a], text, b)
  BY ReadsOne
<1>2. /\ text[b] = "comma" => Character(Closed(R, r, c), text, b) = Opening(R, Append(r, c))
      /\ text[b] = "lf" => Character(Closed(R, r, c), text, b) = Opening(Append(R, Append(r, c)), <<>>)
  BY ReadClosed
<1> QED
  BY <1>1, <1>2

(* A sequence grows element by element.                                    *)
LEMMA GrowsByOne ==
  ASSUME NEW A, NEW v \in Seq(A), NEW i, NEW j \in 1..Len(v), Off(i, 1, j)
  PROVE  SubSeq(v, 1, i) \in Seq(A) /\ SubSeq(v, 1, j) = Append(SubSeq(v, 1, i), v[j])
<1>1. i \in Nat /\ j - 1 = i /\ i <= Len(v) /\ 1 \in 1..Len(v)
  BY DEF Off
<1>2. SubSeq(v, 1, j) = SubSeq(v, 1, j - 1) \o <<v[j]>>
  BY <1>1, SubSeqRecursiveSecond
<1>3. PICK c : c = SubSeq(v, 1, i)
  OBVIOUS
<1>4. c \in Seq(A) /\ v[j] \in A
  <2>1. \A x \in 1..i : v[x] \in A
    BY <1>1
  <2> QED
    BY <1>1, <1>3, <2>1, SubSeqProperties
<1>5. Append(c, v[j]) = c \o <<v[j]>>
  BY <1>4
<1> QED
  BY <1>1, <1>2, <1>3, <1>4, <1>5

(* A value in quotes is its characters between them, its own quotes twice. *)
LEMMA InQuotesParts ==
  ASSUME NEW A, "quote" \in A, NEW v \in Seq(A)
  PROVE  \E w, J : /\ Joined(J, w, Len(v), A) /\ InQuotes(v) = (<<"quote">> \o J[Len(v)]) \o <<"quote">>
                   /\ \A i \in 1..Len(v) : w[i] = IF v[i] = "quote" THEN <<"quote", "quote">> ELSE <<v[i]>>
<1> DEFINE n == Len(v)
           Written(i) == IF v[i] = "quote" THEN <<"quote", "quote">> ELSE <<v[i]>>
           w == [i \in DOMAIN v |-> Written(i)]
<1>1. Len(v) \in Nat /\ DOMAIN v = 1..Len(v) /\ \A i \in 1..Len(v) : Written(i) \in Seq(A)
  <2>1. \A i \in 1..Len(v) : v[i] \in A
    OBVIOUS
  <2>2. \A x \in A : <<x>> \in Seq(A) /\ <<"quote", "quote">> \in Seq(A)
    OBVIOUS
  <2> QED
    BY <2>1, <2>2
<1>2. w \in Seq(Seq(A)) /\ Len(w) = n /\ \A i \in 1..n : w[i] = Written(i)
  <2> HIDE DEF Written
  <2> QED
    BY <1>1
<1>3. InQuotes(v) = (<<"quote">> \o FlattenSeq(w)) \o <<"quote">>
  BY Zenon DEF InQuotes
<1> HIDE DEF w, n
<1>4. PICK J : Joined(J, w, n, A) /\ FlattenSeq(w) = J[n]
  BY <1>2, FlattenJoins
<1> QED
  BY <1>2, <1>3, <1>4 DEF n

(* A value in quotes is read as it is.                                     *)
LEMMA ValueRead ==
  ASSUME NEW A, "quote" \in A, NEW text, NEW g, Reads(g, text), NEW p, NEW v \in Seq(A),
         Stands(text, p, InQuotes(v)), NEW to, Off(p, Len(InQuotes(v)), to),
         NEW next, Off(to, 1, next), At0(text, next) # "quote",
         NEW R, NEW r, g[p] = Opening(R, r)
  PROVE  g[to] = Closed(R, r, v)
<1> DEFINE n == Len(v)
           Q == <<"quote">>
<1>1. n \in Nat /\ n \in 0..n
  OBVIOUS
<1>2. PICK w, J : /\ Joined(J, w, n, A) /\ InQuotes(v) = (Q \o J[n]) \o Q
                  /\ \A i \in 1..n : w[i] = IF v[i] = "quote" THEN <<"quote", "quote">> ELSE <<v[i]>>
  BY InQuotesParts, Zenon
<1>3. PICK F : F = J[n]
  OBVIOUS
<1> HIDE DEF n
<1>4. n \in Nat /\ F \in Seq(A) /\ J[0] = <<>> /\ Len(J[0]) = 0
  BY <1>1, <1>2, <1>3 DEF Joined
<1>5. InQuotes(v) = (Q \o F) \o Q
  BY <1>2, <1>3
<1>6. Q \in Seq(A) /\ Len(Q) = 1 /\ Q[1] = "quote" /\ 1 \in DOMAIN Q
  OBVIOUS
<1> HIDE DEF Q
<1>7. PICK l, qf, all : l = Len(F) /\ qf = Q \o F /\ all = InQuotes(v)
  OBVIOUS
<1>8. qf \in Seq(A) /\ Off(1, l, Len(qf)) /\ Off(Len(qf), 1, Len(all)) /\ all = qf \o Q
  BY <1>4, <1>5, <1>6, <1>7, OffTogether
<1>9. PICK b, e : b = p + 1 /\ e = p + Len(qf)
  OBVIOUS
<1>10. Off(p, 1, b) /\ Off(p, Len(qf), e) /\ Off(b, l, e) /\ Off(e, 1, to)
  <2>1. p \in Nat /\ to = p + Len(all)
    BY <1>7 DEF Off
  <2>2. l \in Nat /\ Len(qf) = 1 + l /\ Len(all) = Len(qf) + 1
    BY <1>8 DEF Off
  <2> QED
    BY <1>9, <2>1, <2>2 DEF Off
<1>11. Stands(text, p, qf) /\ Stands(text, e, Q)
  BY <1>6, <1>7, <1>8, <1>10, StandsApart
<1>12. Stands(text, p, Q) /\ Stands(text, b, F)
  BY <1>4, <1>6, <1>7, <1>10, <1>11, StandsApart
<1> DEFINE Inside(i) == Within(R, r, SubSeq(v, 1, i))
           Fine == {i \in Nat : i <= n => \A a : Off(b, Len(J[i]), a) => g[a] = Inside(i)}
<1>13. g[b] = Within(R, r, <<>>)
  <2>1. b \in DOMAIN text /\ text[b] = "quote"
    BY <1>6, <1>10, <1>12, StandsAt
  <2> QED
    BY <1>10, <2>1, OpensCell
<1>14. 0 \in Fine
  <2>1. SubSeq(v, 1, 0) = <<>>
    BY SubSeqEmpty
  <2>2. \A a : Off(b, 0, a) => a = b
    BY DEF Off
  <2> QED
    BY <1>4, <1>13, <2>1, <2>2
<1>15. ASSUME NEW i \in Nat, i \in Fine PROVE i + 1 \in Fine
  <2> HIDE DEF Inside
  <2> SUFFICES ASSUME i + 1 <= n, NEW z, Off(b, Len(J[i + 1]), z) PROVE g[z] = Inside(i + 1)
    OBVIOUS
  <2> USE DEF Inside
  <2>1. PICK j, a, c : j = i + 1 /\ a = b + Len(J[i]) /\ c = SubSeq(v, 1, i)
    OBVIOUS
  <2>2. j \in 1..n /\ j - 1 = i /\ i <= n /\ Off(i, 1, j)
    BY <1>4, <2>1 DEF Off
  <2>3. Off(Len(J[i]), Len(w[j]), Len(J[j]))
    BY <1>2, <2>2, OffJoined
  <2>4. Off(b, Len(J[i]), a) /\ Off(a, Len(w[j]), z)
    <3>1. b \in Nat
      BY <1>10 DEF Off
    <3>2. Len(J[i]) \in Nat /\ Len(w[j]) \in Nat /\ Len(J[j]) = Len(J[i]) + Len(w[j])
      BY <2>3 DEF Off
    <3>3. z = b + Len(J[j])
      BY <2>1 DEF Off
    <3>4. PICK x, y, u : x = Len(J[i]) /\ y = Len(w[j]) /\ u = Len(J[j])
      OBVIOUS
    <3>5. x \in Nat /\ y \in Nat /\ u = x + y /\ a = b + x /\ z = b + u
      BY <2>1, <3>2, <3>3, <3>4
    <3>6. a \in Nat /\ z = a + y
      BY <3>1, <3>5
    <3> QED
      BY <3>1, <3>4, <3>5, <3>6 DEF Off
  <2>5. g[a] = Within(R, r, c)
    BY <1>15, <2>1, <2>2, <2>4
  <2>6. Stands(text, a, w[j])
    BY <1>2, <1>3, <1>12, <2>2, <2>4, StandsJoined
  <2>7. SubSeq(v, 1, j) = Append(c, v[j])
    BY <2>1, <2>2, GrowsByOne DEF n
  <2>8. Inside(i + 1) = Within(R, r, Append(c, v[j]))
    BY <2>1, <2>7
  <2>9. CASE v[j] # "quote"
    <3>1. w[j] = <<v[j]>>
      BY <1>2, <2>2, <2>9
    <3>2. Len(w[j]) = 1 /\ w[j][1] = v[j] /\ 1 \in DOMAIN w[j]
      BY <3>1
    <3>3. Off(a, 1, z)
      BY <2>4, <3>2
    <3>4. z \in DOMAIN text /\ text[z] = v[j]
      BY <2>6, <3>2, <3>3, StandsAt
    <3> QED
      BY <2>5, <2>8, <2>9, <3>3, <3>4, TakesCharacter
  <2>10. CASE v[j] = "quote"
    <3>1. w[j] = <<"quote", "quote">>
      BY <1>2, <2>2, <2>10
    <3>2. Len(w[j]) = 2 /\ w[j][1] = "quote" /\ w[j][2] = "quote" /\ 1 \in DOMAIN w[j] /\ 2 \in DOMAIN w[j]
      BY <3>1
    <3>3. Off(a, 2, z)
      BY <2>4, <3>2
    <3>4. PICK y, x : Off(a, 1, y) /\ Off(y, 1, z) /\ Off(z, 1, x)
      <4>1. Off(a, 1, a + 1) /\ Off(a + 1, 1, z) /\ Off(z, 1, z + 1)
        BY <3>3 DEF Off
      <4> QED
        BY <4>1
    <3>5. y \in DOMAIN text /\ z \in DOMAIN text /\ text[y] = "quote" /\ text[z] = "quote"
      BY <2>6, <3>2, <3>3, <3>4, StandsAt
    <3>6. g[z] = Within(R, r, Append(c, "quote"))
      BY <2>5, <3>4, <3>5, TakesQuotes
    <3> QED
      BY <2>8, <2>10, <3>6
  <2> QED
    BY <2>9, <2>10
<1>16. g[e] = Within(R, r, v)
  <2>1. n \in Fine
    <3> HIDE DEF Fine
    <3> QED
      BY <1>4, <1>14, <1>15, CountingUp
  <2>2. SubSeq(v, 1, n) = v
    BY SubSeqFull DEF n
  <2>3. n <= n /\ Off(b, Len(J[n]), e)
    BY <1>3, <1>4, <1>7, <1>10
  <2> QED
    BY <2>1, <2>2, <2>3
<1>17. to \in DOMAIN text /\ text[to] = "quote"
  BY <1>6, <1>10, <1>11, StandsAt
<1> QED
  BY <1>10, <1>16, <1>17, ClosesCell

(* What a value in quotes is.                                              *)
LEMMA InQuotesIs ==
  ASSUME NEW A, "quote" \in A, NEW v \in Seq(A)
  PROVE  InQuotes(v) \in Seq(A)
<1>1. PICK w, J : /\ Joined(J, w, Len(v), A) /\ InQuotes(v) = (<<"quote">> \o J[Len(v)]) \o <<"quote">>
                  /\ \A i \in 1..Len(v) : w[i] = IF v[i] = "quote" THEN <<"quote", "quote">> ELSE <<v[i]>>
  BY InQuotesParts, Zenon
<1>2. J[Len(v)] \in Seq(A)
  <2>1. Len(v) \in 0..Len(v)
    OBVIOUS
  <2> QED
    BY <1>1, <2>1 DEF Joined
<1>3. <<"quote">> \in Seq(A)
  OBVIOUS
<1> QED
  BY <1>1, <1>2, <1>3

(* A value after the first, as it is written.                              *)
AfterComma(v) == <<"comma">> \o InQuotes(v)

(* It is read as the next cell.                                            *)
LEMMA NextRead ==
  ASSUME NEW A, "quote" \in A, "comma" \in A, NEW text, NEW g, Reads(g, text), NEW p, NEW v \in Seq(A),
         NEW w, w = AfterComma(v), Stands(text, p, w), NEW to, Off(p, Len(w), to),
         NEW next, Off(to, 1, next), At0(text, next) # "quote",
         NEW R, NEW r \in Seq(Seq(A)), NEW c \in Seq(A), g[p] = Closed(R, r, c)
  PROVE  g[to] = Closed(R, Append(r, c), v)
<1> DEFINE C == <<"comma">>
<1>1. C \in Seq(A) /\ Len(C) = 1 /\ C[1] = "comma" /\ 1 \in DOMAIN C
  OBVIOUS
<1> HIDE DEF C
<1>2. PICK q : q = InQuotes(v)
  OBVIOUS
<1>3. q \in Seq(A) /\ w = C \o q
  BY <1>2, InQuotesIs DEF C, AfterComma
<1>4. Off(1, Len(q), Len(w))
  BY <1>1, <1>3, OffTogether
<1>5. PICK b : b = p + 1
  OBVIOUS
<1>6. Off(p, 1, b) /\ Off(b, Len(q), to)
  <2>1. PICK x, y : x = Len(q) /\ y = Len(w)
    OBVIOUS
  <2>2. p \in Nat /\ to = p + y /\ x \in Nat /\ y = 1 + x
    BY <1>4, <2>1 DEF Off
  <2>3. b \in Nat /\ to = b + x
    BY <1>5, <2>2
  <2> QED
    BY <1>5, <2>1, <2>2, <2>3 DEF Off
<1>7. Stands(text, p, C) /\ Stands(text, b, q)
  <2>1. Stands(text, p, C \o q) /\ Off(p, Len(C), b)
    BY <1>1, <1>3, <1>6
  <2> QED
    BY <1>1, <1>3, <2>1, StandsApart
<1>8. b \in DOMAIN text /\ text[b] = "comma"
  BY <1>1, <1>6, <1>7, StandsAt
<1>9. g[b] = Opening(R, Append(r, c))
  <2>1. PICK B : B = Seq(A)
    OBVIOUS
  <2>2. r \in Seq(B) /\ c \in B
    BY <2>1
  <2> QED
    BY <1>6, <1>8, <2>2, EndsCell
<1>10. PICK rc : rc = Append(r, c)
  OBVIOUS
<1> QED
  BY <1>2, <1>6, <1>7, <1>9, <1>10, ValueRead

(* Where it has all elements, and before.                                  *)
LEMMA PlaceBefore ==
  ASSUME NEW n \in Nat, n # 0
  PROVE  \E m \in Nat : Off(m, 1, n)
<1>1. n - 1 \in Nat /\ Off(n - 1, 1, n)
  BY DEF Off
<1> QED
  BY <1>1

(* A record is its values in quotes, commas between them, and a new line.  *)
LEMMA RecordParts ==
  ASSUME NEW A, "quote" \in A, "comma" \in A, NEW values \in Seq(Seq(A))
  PROVE  \E w, J : /\ Joined(J, w, Len(values), A) /\ RecordText(values) = J[Len(values)] \o <<"lf">>
                   /\ \A i \in 1..Len(values) :
                        w[i] = IF i = 1 THEN InQuotes(values[i]) ELSE AfterComma(values[i])
<1> DEFINE n == Len(values)
           Part(i) == (IF i = 1 THEN <<>> ELSE <<"comma">>) \o InQuotes(values[i])
           w == [i \in DOMAIN values |-> Part(i)]
<1>1. n \in Nat /\ DOMAIN values = 1..n
  OBVIOUS
<1>2. ASSUME NEW i \in 1..n
      PROVE  /\ Part(i) \in Seq(A)
             /\ Part(i) = IF i = 1 THEN InQuotes(values[i]) ELSE AfterComma(values[i])
  <2>1. values[i] \in Seq(A)
    OBVIOUS
  <2>2. PICK q : q = InQuotes(values[i]) /\ q \in Seq(A)
    BY <2>1, InQuotesIs
  <2>3. <<"comma">> \in Seq(A) /\ <<>> \o q = q
    BY <2>2
  <2>4. <<"comma">> \o q \in Seq(A)
    BY <2>2, <2>3
  <2> QED
    BY <2>2, <2>3, <2>4 DEF AfterComma
<1> HIDE DEF n, Part
<1>3. w \in Seq(Seq(A)) /\ Len(w) = n /\ \A i \in 1..n : w[i] = Part(i)
  BY <1>1, <1>2
<1>4. RecordText(values) = FlattenSeq(w) \o <<"lf">>
  BY Zenon DEF RecordText, Part
<1> HIDE DEF w
<1>5. PICK J : Joined(J, w, n, A) /\ FlattenSeq(w) = J[n]
  BY <1>3, FlattenJoins
<1> QED
  BY <1>2, <1>3, <1>4, <1>5 DEF n

(* And is read as it is.                                                   *)
LEMMA RecordRead ==
  ASSUME NEW A, "quote" \in A, "comma" \in A, "lf" \in A, NEW text, NEW g, Reads(g, text), NEW p,
         NEW values \in Seq(Seq(A)), values # <<>>, NEW all, all = RecordText(values),
         Stands(text, p, all), NEW to, Off(p, Len(all), to), NEW R, g[p] = Opening(R, <<>>)
  PROVE  g[to] = Opening(Append(R, values), <<>>) /\ all \in Seq(A)
<1> DEFINE n == Len(values)
           LF == <<"lf">>
<1>1. n \in Nat /\ n # 0 /\ DOMAIN values = 1..n /\ \A i \in 1..n : values[i] \in Seq(A)
  OBVIOUS
<1>2. LF \in Seq(A) /\ Len(LF) = 1 /\ LF[1] = "lf" /\ 1 \in DOMAIN LF
  OBVIOUS
<1>a. PICK w, J : /\ Joined(J, w, n, A) /\ RecordText(values) = J[n] \o LF
                  /\ \A i \in 1..n :
                       w[i] = IF i = 1 THEN InQuotes(values[i]) ELSE AfterComma(values[i])
  BY RecordParts, Zenon
<1> HIDE DEF n, LF
<1>3. /\ Joined(J, w, n, A) /\ all = J[n] \o LF
      /\ \A i \in 1..n :
           w[i] = IF i = 1 THEN InQuotes(values[i]) ELSE AfterComma(values[i])
  BY <1>a
<1>4. J[0] = <<>> /\ Len(J[0]) = 0 /\ J[n] \in Seq(A)
  <2>1. n \in 0..n
    BY <1>1
  <2> QED
    BY <1>3, <2>1 DEF Joined
<1>5. PICK E, l : E = J[n] /\ l = Len(E)
  OBVIOUS
<1>6. E \in Seq(A) /\ all = E \o LF /\ all \in Seq(A) /\ Off(l, 1, Len(all))
  <2>1. E \in Seq(A) /\ all = E \o LF
    BY <1>3, <1>4, <1>5
  <2>2. all \in Seq(A) /\ Off(Len(E), Len(LF), Len(all))
    BY <1>2, <2>1, OffTogether
  <2> QED
    BY <1>2, <1>5, <2>1, <2>2
<1>7. PICK e : e = p + l
  OBVIOUS
<1>8. Off(p, l, e) /\ Off(e, 1, to)
  <2>1. PICK y : y = Len(all)
    OBVIOUS
  <2>2. p \in Nat /\ to = p + y /\ l \in Nat /\ y = l + 1
    BY <1>6, <2>1 DEF Off
  <2>3. e \in Nat /\ to = e + 1
    BY <1>7, <2>2
  <2> QED
    BY <1>7, <2>2, <2>3 DEF Off
<1>9. Stands(text, p, E) /\ Stands(text, e, LF)
  <2>1. Stands(text, p, E \o LF) /\ Off(p, Len(E), e)
    BY <1>5, <1>6, <1>8
  <2> QED
    BY <1>2, <1>6, <2>1, StandsApart
<1>10. to \in DOMAIN text /\ text[to] = "lf"
  BY <1>2, <1>8, <1>9, StandsAt
(* Where a value ends, no quote follows.                                   *)
<1>11. ASSUME NEW i \in 1..n, NEW a, Off(p, Len(J[i]), a), NEW next, Off(a, 1, next)
       PROVE  At0(text, next) # "quote"
  <2>1. CASE i = n
    <3>1. a = e /\ next = to
      BY <1>5, <1>8, <1>11, <2>1 DEF Off
    <3> QED
      BY <1>10, <3>1 DEF At0
  <2>2. CASE i # n
    <3>1. PICK j : j \in 1..n /\ j # 1 /\ Off(i, 1, j)
      <4>1. i + 1 \in 1..n /\ i + 1 # 1 /\ Off(i, 1, i + 1)
        BY <1>1, <2>2 DEF Off
      <4> QED
        BY <4>1
    <3>2. Stands(text, a, w[j])
      BY <1>3, <1>5, <1>9, <1>11, <3>1, StandsJoined
    <3>3. PICK q : q = InQuotes(values[j]) /\ q \in Seq(A) /\ w[j] = <<"comma">> \o q
      BY <1>1, <1>3, <3>1, InQuotesIs DEF AfterComma
    <3>4. 1 \in DOMAIN w[j] /\ w[j][1] = "comma"
      <4>1. \A s \in Seq(A) : 1 \in DOMAIN (<<"comma">> \o s) /\ (<<"comma">> \o s)[1] = "comma"
        OBVIOUS
      <4> QED
        BY <3>3, <4>1
    <3>5. next \in DOMAIN text /\ text[next] = "comma"
      BY <1>11, <3>2, <3>4, StandsAt
    <3> QED
      BY <3>5 DEF At0
  <2> QED
    BY <2>1, <2>2
<1> DEFINE Fine == {i \in Nat : \A j, a : Off(i, 1, j) /\ j \in 1..n /\ Off(p, Len(J[j]), a)
                                          => g[a] = Closed(R, SubSeq(values, 1, i), values[j])}
<1>12. 0 \in Fine
  <2> SUFFICES ASSUME NEW j, NEW a, Off(0, 1, j), j \in 1..n, Off(p, Len(J[j]), a)
               PROVE  g[a] = Closed(R, SubSeq(values, 1, 0), values[j])
    OBVIOUS
  <2>1. j = 1
    BY DEF Off
  <2>2. Off(Len(J[0]), Len(w[j]), Len(J[j])) /\ w[j] = InQuotes(values[j])
    BY <1>3, <2>1, OffJoined
  <2>3. Off(p, Len(w[j]), a) /\ Off(p, Len(J[0]), p)
    <3>1. Len(J[j]) = Len(w[j]) /\ p \in Nat
      BY <1>4, <1>8, <2>2 DEF Off
    <3> QED
      BY <1>4, <3>1 DEF Off
  <2>4. Stands(text, p, w[j])
    BY <1>3, <1>5, <1>9, <2>3, StandsJoined
  <2>5. PICK next : Off(a, 1, next)
    <3>1. Off(a, 1, a + 1)
      BY <2>3 DEF Off
    <3> QED
      BY <3>1
  <2>6. At0(text, next) # "quote"
    BY <1>11, <2>5
  <2>7. g[a] = Closed(R, <<>>, values[j])
    <3>1. values[j] \in Seq(A) /\ Stands(text, p, InQuotes(values[j])) /\ Off(p, Len(InQuotes(values[j])), a)
      BY <1>1, <2>2, <2>3, <2>4
    <3> QED
      BY <2>5, <2>6, <3>1, ValueRead
  <2>8. SubSeq(values, 1, 0) = <<>>
    BY SubSeqEmpty
  <2> QED
    BY <2>7, <2>8
<1>13. ASSUME NEW i \in Nat, i \in Fine PROVE i + 1 \in Fine
  <2>1. PICK j \in Nat : j = i + 1 /\ Off(i, 1, j)
    BY DEF Off
  <2> SUFFICES ASSUME NEW k, NEW a, Off(j, 1, k), k \in 1..n, Off(p, Len(J[k]), a)
               PROVE  g[a] = Closed(R, SubSeq(values, 1, j), values[k])
    BY <2>1
  <2>2. j \in 1..n /\ k # 1
    BY <1>1, <2>1 DEF Off
  <2>3. Off(Len(J[j]), Len(w[k]), Len(J[k])) /\ w[k] = AfterComma(values[k])
    BY <1>3, <2>2, OffJoined
  <2>4. PICK b : Off(p, Len(J[j]), b) /\ Off(b, Len(w[k]), a)
    <3>1. PICK x, y, u : x = Len(J[j]) /\ y = Len(w[k]) /\ u = Len(J[k])
      OBVIOUS
    <3>2. p \in Nat /\ x \in Nat /\ y \in Nat /\ u = x + y /\ a = p + u
      BY <2>3, <3>1 DEF Off
    <3>3. p + x \in Nat /\ a = (p + x) + y
      BY <3>2
    <3>4. Off(p, x, p + x) /\ Off(p + x, y, a)
      BY <3>2, <3>3 DEF Off
    <3> QED
      BY <3>1, <3>4
  <2>5. g[b] = Closed(R, SubSeq(values, 1, i), values[j])
    BY <1>13, <2>1, <2>2, <2>4
  <2>6. Stands(text, b, w[k])
    BY <1>3, <1>5, <1>9, <2>4, StandsJoined
  <2>7. PICK next : Off(a, 1, next)
    <3>1. Off(a, 1, a + 1)
      BY <2>4 DEF Off
    <3> QED
      BY <3>1
  <2>8. At0(text, next) # "quote"
    BY <1>11, <2>7
  <2>9. SubSeq(values, 1, i) \in Seq(Seq(A)) /\ SubSeq(values, 1, j) = Append(SubSeq(values, 1, i), values[j])
    <3>1. PICK B : B = Seq(A)
      OBVIOUS
    <3>2. values \in Seq(B) /\ j \in 1..Len(values)
      BY <2>2, <3>1 DEF n
    <3>3. SubSeq(values, 1, i) \in Seq(B) /\ SubSeq(values, 1, j) = Append(SubSeq(values, 1, i), values[j])
      BY <2>1, <3>2, GrowsByOne
    <3> QED
      BY <3>1, <3>3
  <2>10. values[j] \in Seq(A) /\ values[k] \in Seq(A)
    BY <1>1, <2>2
  <2>11. g[a] = Closed(R, Append(SubSeq(values, 1, i), values[j]), values[k])
    <3>1. PICK r, c, v, x : r = SubSeq(values, 1, i) /\ c = values[j] /\ v = values[k] /\ x = w[k]
      OBVIOUS
    <3>2. /\ r \in Seq(Seq(A)) /\ c \in Seq(A) /\ v \in Seq(A) /\ x = AfterComma(v)
          /\ Stands(text, b, x) /\ Off(b, Len(x), a) /\ g[b] = Closed(R, r, c)
      BY <2>3, <2>4, <2>5, <2>6, <2>9, <2>10, <3>1
    <3>3. g[a] = Closed(R, Append(r, c), v)
      BY <2>7, <2>8, <3>2, NextRead
    <3> QED
      BY <3>1, <3>3
  <2> QED
    BY <2>9, <2>11
<1>14. PICK m \in Nat : Off(m, 1, n)
  BY <1>1, PlaceBefore
<1>15. m \in Fine
  <2> HIDE DEF Fine
  <2> QED
    BY <1>12, <1>13, CountingUp
<1>16. g[e] = Closed(R, SubSeq(values, 1, m), values[n])
  <2>1. n \in 1..n /\ Off(p, Len(J[n]), e)
    BY <1>1, <1>5, <1>8
  <2> QED
    BY <1>14, <1>15, <2>1
<1>17. SubSeq(values, 1, m) \in Seq(Seq(A)) /\ values = Append(SubSeq(values, 1, m), values[n]) /\ values[n] \in Seq(A)
  <2>1. PICK B : B = Seq(A)
    OBVIOUS
  <2>2. values \in Seq(B) /\ n \in 1..Len(values) /\ SubSeq(values, 1, n) = values
    BY <1>1, <2>1, SubSeqFull DEF n
  <2>3. SubSeq(values, 1, m) \in Seq(B) /\ SubSeq(values, 1, n) = Append(SubSeq(values, 1, m), values[n])
    BY <1>14, <2>2, GrowsByOne
  <2>4. values[n] \in B
    BY <2>2
  <2> QED
    BY <2>1, <2>2, <2>3, <2>4
<1>18. g[to] = Opening(Append(R, Append(SubSeq(values, 1, m), values[n])), <<>>)
  <2>1. PICK B : B = Seq(A)
    OBVIOUS
  <2>2. PICK r, c : r = SubSeq(values, 1, m) /\ c = values[n]
    OBVIOUS
  <2>3. r \in Seq(B) /\ c \in B /\ g[e] = Closed(R, r, c)
    BY <1>16, <1>17, <2>1, <2>2
  <2>4. g[to] = Opening(Append(R, Append(r, c)), <<>>)
    BY <1>8, <1>10, <2>3, EndsCell
  <2> QED
    BY <2>2, <2>4
<1> QED
  BY <1>6, <1>17, <1>18

(* What a record is as a text.                                             *)
LEMMA RecordTextIs ==
  ASSUME NEW A, "quote" \in A, "comma" \in A, "lf" \in A, NEW values \in Seq(Seq(A))
  PROVE  RecordText(values) \in Seq(A)
<1>1. PICK w, J : /\ Joined(J, w, Len(values), A) /\ RecordText(values) = J[Len(values)] \o <<"lf">>
                  /\ \A i \in 1..Len(values) :
                       w[i] = IF i = 1 THEN InQuotes(values[i]) ELSE AfterComma(values[i])
  BY RecordParts, Zenon
<1>2. Len(values) \in 0..Len(values) /\ <<"lf">> \in Seq(A)
  OBVIOUS
<1>3. J[Len(values)] \in Seq(A)
  BY <1>1, <1>2 DEF Joined
<1> QED
  BY <1>1, <1>2, <1>3

(* One sequence, followed by another.                                      *)
Followed(a, b) == a \o b

(* The other can be longer.                                                *)
LEMMA FollowedByMore ==
  ASSUME NEW B, NEW a \in Seq(B), NEW b \in Seq(B), NEW c \in B
  PROVE  Followed(a, Append(b, c)) = Append(Followed(a, b), c)
BY DEF Followed

(* A reader begins before a cell.                                          *)
LEMMA StartOpens ==
  Start = Opening(<<>>, <<>>)
<1> DEFINE F == {"records", "record", "cell", "quoted", "started", "closed", "skip", "bad"}
           e == <<>>
           Begun(x) == IF x = "records" THEN e ELSE IF x = "record" THEN e ELSE IF x = "cell" THEN e ELSE FALSE
<1>1. Start = [x \in F |-> Start[x]]
  BY DEF Start
<1>2. /\ Start["records"] = <<>> /\ Start["record"] = <<>> /\ Start["cell"] = <<>>
      /\ Start["quoted"] = FALSE /\ Start["started"] = FALSE /\ Start["closed"] = FALSE
      /\ Start["skip"] = FALSE /\ Start["bad"] = FALSE
  BY DEF Start
<1>3. \A x \in F : Start[x] = Begun(x)
  BY <1>2
<1>4. Opening(e, e) = [x \in F |-> Begun(x)]
  BY DEF Reader, Opening
<1> HIDE DEF F, Begun, e
<1>5. Start = Opening(e, e)
  BY <1>1, <1>3, <1>4
<1> QED
  BY <1>5 DEF e

(* The texts of records that have a value each.                            *)
AsTexts(A, recs, w) ==
  /\ recs \in Seq(Seq(Seq(A))) /\ w \in Seq(Seq(A)) /\ Len(w) = Len(recs)
  /\ \A i \in 1..Len(recs) : recs[i] # <<>> /\ w[i] = RecordText(recs[i])

(* Records one after the other are read as they are.                       *)
LEMMA RecordsRead ==
  ASSUME NEW A, "quote" \in A, "comma" \in A, "lf" \in A, NEW text, NEW g, Reads(g, text), NEW p,
         NEW recs, NEW w, AsTexts(A, recs, w),
         NEW f, f = FlattenSeq(w), Stands(text, p, f), NEW to, Off(p, Len(f), to),
         NEW R \in Seq(Seq(Seq(A))), g[p] = Opening(R, <<>>)
  PROVE  g[to] = Opening(Followed(R, recs), <<>>)
<1> DEFINE n == Len(recs)
<1>b. PICK B : B = Seq(Seq(A))
  OBVIOUS
<1>0. /\ R \in Seq(B) /\ recs \in Seq(B) /\ w \in Seq(Seq(A)) /\ Len(w) = Len(recs)
      /\ \A i \in 1..Len(recs) : recs[i] # <<>> /\ w[i] = RecordText(recs[i])
  BY <1>b DEF AsTexts
<1>1. n \in Nat /\ n \in 0..n
  BY <1>0
<1>2. PICK J : Joined(J, w, n, A) /\ FlattenSeq(w) = J[n]
  BY <1>0, FlattenJoins
<1> HIDE DEF n
<1>3. J[0] = <<>> /\ Len(J[0]) = 0
  BY <1>2 DEF Joined
<1>4. Stands(text, p, J[n]) /\ Off(p, Len(J[n]), to)
  BY <1>2
<1> DEFINE Fine == {i \in Nat : \A a : i <= n /\ Off(p, Len(J[i]), a)
                                         => g[a] = Opening(Followed(R, SubSeq(recs, 1, i)), <<>>)}
<1>5. 0 \in Fine
  <2>1. SubSeq(recs, 1, 0) = <<>>
    BY SubSeqEmpty
  <2>2. Followed(R, <<>>) = R
    BY <1>0 DEF Followed
  <2>3. \A a : Off(p, Len(J[0]), a) => a = p
    BY <1>3 DEF Off
  <2> QED
    BY <2>1, <2>2, <2>3
<1>6. ASSUME NEW i \in Nat, i \in Fine PROVE i + 1 \in Fine
  <2>1. PICK j \in Nat : j = i + 1 /\ Off(i, 1, j)
    BY DEF Off
  <2> SUFFICES ASSUME NEW a, j <= n, Off(p, Len(J[j]), a)
               PROVE  g[a] = Opening(Followed(R, SubSeq(recs, 1, j)), <<>>)
    BY <2>1
  <2>2. j \in 1..n /\ i <= n
    BY <1>1, <2>1
  <2>3. Off(Len(J[i]), Len(w[j]), Len(J[j]))
    BY <1>2, <2>1, <2>2, OffJoined
  <2>4. PICK b : Off(p, Len(J[i]), b) /\ Off(b, Len(w[j]), a)
    <3>1. PICK x, y, u : x = Len(J[i]) /\ y = Len(w[j]) /\ u = Len(J[j])
      OBVIOUS
    <3>2. p \in Nat /\ x \in Nat /\ y \in Nat /\ u = x + y /\ a = p + u
      BY <2>3, <3>1 DEF Off
    <3>3. p + x \in Nat /\ a = (p + x) + y
      BY <3>2
    <3>4. Off(p, x, p + x) /\ Off(p + x, y, a)
      BY <3>2, <3>3 DEF Off
    <3> QED
      BY <3>1, <3>4
  <2>5. PICK S, q, v, all : S = SubSeq(recs, 1, i) /\ q = Followed(R, S) /\ v = recs[j] /\ all = w[j]
    OBVIOUS
  <2>6. /\ v \in Seq(Seq(A)) /\ v \in B /\ v # <<>> /\ all = RecordText(v) /\ S \in Seq(B)
        /\ SubSeq(recs, 1, j) = Append(S, v)
    <3>1. j \in 1..Len(recs)
      BY <2>2 DEF n
    <3>2. S \in Seq(B) /\ SubSeq(recs, 1, j) = Append(S, v)
      BY <1>0, <2>1, <2>5, <3>1, GrowsByOne
    <3>3. v \in B /\ v # <<>> /\ all = RecordText(v)
      BY <1>0, <2>5, <3>1
    <3> QED
      BY <1>b, <3>2, <3>3
  <2>7. g[b] = Opening(q, <<>>)
    BY <1>6, <2>2, <2>4, <2>5
  <2>8. Stands(text, b, all) /\ Off(b, Len(all), a)
    BY <1>2, <1>4, <2>1, <2>2, <2>4, <2>5, StandsJoined
  <2>9. g[a] = Opening(Append(q, v), <<>>)
    BY <2>6, <2>7, <2>8, RecordRead
  <2>10. Followed(R, Append(S, v)) = Append(q, v)
    <3>1. R \in Seq(B) /\ S \in Seq(B) /\ v \in B
      BY <1>0, <2>6
    <3>2. Followed(R, Append(S, v)) = Append(Followed(R, S), v)
      BY <3>1, FollowedByMore
    <3> QED
      BY <2>5, <3>2
  <2> QED
    BY <2>6, <2>9, <2>10
<1>7. n \in Fine
  <2> HIDE DEF Fine
  <2> QED
    BY <1>1, <1>5, <1>6, CountingUp
<1>8. SubSeq(recs, 1, n) = recs
  BY <1>0, SubSeqFull DEF n
<1>9. g[to] = Opening(Followed(R, SubSeq(recs, 1, n)), <<>>)
  <2>1. n <= n
    BY <1>1
  <2> QED
    BY <1>4, <1>7, <2>1
<1> QED
  BY <1>8, <1>9

(* A file of a header and the texts of its other records.                  *)
FileOf(header, w) == RecordText(header) \o FlattenSeq(w)

(* It is read as it is, too.                                               *)
LEMMA FileRead ==
  ASSUME NEW A, "quote" \in A, "comma" \in A, "lf" \in A,
         NEW header \in Seq(Seq(A)), header # <<>>, NEW recs, NEW w, AsTexts(A, recs, w),
         NEW text, text = FileOf(header, w)
  PROVE  text \in Seq(A) /\ Scanned(text) = Opening(Followed(<<header>>, recs), <<>>)
<1>1. PICK h, f : h = RecordText(header) /\ f = FlattenSeq(w)
  OBVIOUS
<1>2. h \in Seq(A)
  BY <1>1, RecordTextIs
<1>3. f \in Seq(A)
  <2>1. PICK J : Joined(J, w, Len(w), A) /\ FlattenSeq(w) = J[Len(w)]
    BY FlattenJoins DEF AsTexts
  <2>2. Len(w) \in 0..Len(w)
    BY DEF AsTexts
  <2> QED
    BY <1>1, <2>1, <2>2 DEF Joined
<1>4. text = h \o f /\ text \in Seq(A) /\ Off(Len(h), Len(f), Len(text))
  <2>1. text = h \o f
    BY <1>1 DEF FileOf
  <2> QED
    BY <1>2, <1>3, <2>1, OffTogether
<1>5. PICK g : /\ g[0] = Start /\ \A i \in 1..Len(text) : g[i] = Character(g[i - 1], text, i)
               /\ Scanned(text) = g[Len(text)]
  BY <1>4, ScannedGoes
<1>6. Reads(g, text)
  <2>1. DOMAIN text = 1..Len(text)
    BY <1>4
  <2> QED
    BY <1>5, <2>1 DEF Reads
<1>7. g[0] = Opening(<<>>, <<>>)
  BY <1>5, StartOpens
<1>8. Stands(text, 0, text) /\ Off(0, Len(h), Len(h))
  <2>1. \A k \in DOMAIN text : 0 + k = k
    BY <1>4
  <2>2. Len(h) \in Nat
    BY <1>2
  <2> QED
    BY <2>1, <2>2 DEF Stands, Off
<1>9. Stands(text, 0, h) /\ Stands(text, Len(h), f)
  BY <1>2, <1>3, <1>4, <1>8, StandsApart
<1>10. PICK R, empty : R = <<header>> /\ R \in Seq(Seq(Seq(A))) /\ empty = <<>> /\ R = Append(empty, header)
  <2>1. PICK B : B = Seq(Seq(A))
    OBVIOUS
  <2>2. header \in B
    BY <2>1
  <2>3. <<header>> \in Seq(B) /\ <<header>> = Append(<<>>, header)
    BY <2>2
  <2> QED
    BY <2>1, <2>3
<1>11. g[Len(h)] = Opening(R, <<>>)
  <2>1. header \in Seq(Seq(A)) /\ g[0] = Opening(empty, <<>>)
    BY <1>7, <1>10
  <2>2. g[Len(h)] = Opening(Append(empty, header), <<>>)
    BY <1>1, <1>6, <1>8, <1>9, <2>1, RecordRead
  <2> QED
    BY <1>10, <2>2
<1>12. g[Len(text)] = Opening(Followed(R, recs), <<>>)
  <2>2. PICK q, to : q = Len(h) /\ to = Len(text)
    OBVIOUS
  <2>3. Stands(text, q, f) /\ f = FlattenSeq(w) /\ Off(q, Len(f), to) /\ g[q] = Opening(R, <<>>)
    BY <1>1, <1>4, <1>9, <1>11, <2>2
  <2>4. g[to] = Opening(Followed(R, recs), <<>>)
    <3>1. R \in Seq(Seq(Seq(A)))
      BY <1>10
    <3> QED
      BY <1>6, <2>3, <3>1, RecordsRead
  <2> QED
    BY <2>2, <2>4
<1> QED
  BY <1>4, <1>5, <1>10, <1>12
=============================================================================
