---------------------------- MODULE WorkspaceProofs ----------------------------
(***************************************************************************)
(* Proofs about Workspace, a screen at a time: the invariant that its      *)
(* tables and the requests under way keep, that the steps of the other     *)
(* screens leave it alone, that each of its own actions keeps it, and the  *)
(* property that follows.                                                  *)
(***************************************************************************)
EXTENDS WorkspaceSteps

-----------------------------------------------------------------------------
(* Training: who is shown as competent.                                    *)

(* A step is one of training, or it leaves records and competences alone.  *)
LEMMA TrainingSteps ==
  ASSUME Shaped, [Next]_vars
  PROVE  \/ \E t \in Requests : TrainingStep(t) /\ Passes(t, CompetencePhases)
         \/ UNCHANGED <<record, fulfilment>> /\ Elsewhere(CompetencePhases)
<1>1. ASSUME NEW t \in Requests, Files(t) \/ Register(t) \/ Applications(t) \/ Organisation(t) \/
             Policies(t) \/ Work(t) \/ ChangeControl(t) \/ Incident(t)
      PROVE  UNCHANGED <<record, fulfilment>> /\ Elsewhere(CompetencePhases)
  BY <1>1, PassesElsewhere, FilesPasses, RegisterPasses, ApplicationsPasses, OrganisationPasses,
    ChartPasses, PoliciesPasses, WorkPasses, ChangeControlPasses, IncidentPasses DEF CompetencePhases,
    Files, Register, Applications, Organisation, Policies, Work, ChangeControl, Incident, FilesPhases,
    RegisterPhases, ApplicationsPhases, OrganisationPhases, ChartPhases, PoliciesPhases, WorkPhases,
    ChangeControlPhases, IncidentPhases, trainingVars
<1>2. ASSUME NEW t \in Requests, Decision(t) \/ Audit(t) \/ Journal(t) \/ Standing(t) \/ Devices(t) \/
             Steps(t) \/ Control(t) \/ Passwords(t)
      PROVE  UNCHANGED <<record, fulfilment>> /\ Elsewhere(CompetencePhases)
  BY <1>2, PassesElsewhere, DecisionPasses, AuditPasses, JournalPasses, StandingPasses, DevicesPasses,
    StepsPasses, ControlPasses, PasswordsPasses DEF CompetencePhases, Decision, Audit, Journal, Standing,
    Devices, Steps, Control, Passwords, DecisionPhases, AuditPhases, JournalPhases, StandingPhases,
    DevicesPhases, StepsPhases, ControlPhases, PasswordsPhases, trainingVars
<1>3. ASSUME NEW t \in Requests, Shared(t)
      PROVE  UNCHANGED <<record, fulfilment>> /\ Elsewhere(CompetencePhases)
  BY <1>3, SharedElsewhere DEF Shared, CompetencePhases, trainingVars
<1>4. ASSUME NEW t \in Requests, Competence(t)
      PROVE  TrainingStep(t) /\ Passes(t, CompetencePhases)
  BY <1>4, CompetencePasses DEF Competence
<1>5. ASSUME TimePasses \/ Outside \/ Machinery \/ Terminated \/ UNCHANGED vars
      PROVE  UNCHANGED <<record, fulfilment>> /\ Elsewhere(CompetencePhases)
  BY <1>5, RestElsewhere DEF TimePasses, ExpireException, ReviewDayComes, EntryFallsDue, DayPasses,
    DeviationLapses, Outside, PortalChanges, SeedLoads, Machinery, Orchestrator, Terminated, vars,
    trainingVars
<1> QED
  BY <1>1, <1>2, <1>3, <1>4, <1>5 DEF Next

(* What is judged effective is judged as it is completed.                  *)
JudgedAsCompleted ==
  \A k \in DOMAIN record :
    /\ k = <<k[1], k[2]>>
    /\ DOMAIN record[k] = {"completion", "evaluation", "judged"}
    /\ record[k].evaluation = "effective" => record[k].judged = record[k].completion

Cites(year, u) == year # None => <<year, u>> \in DOMAIN record

(* Evidence that is cited, or is about to be, is there.                    *)
CitedIsThere ==
  /\ \A u \in DOMAIN fulfilment : Cites(fulfilment[u].year, u)
  /\ \A t \in Requests : pc[t] = "saveFulfillment" => Cites(req[t].arg.year, req[t].arg.user)

TrainingInv == Shaped /\ JudgedAsCompleted /\ CitedIsThere

(* A synchronisation judges nothing, an evaluation judges what is there,   *)
(* and records are never deleted.                                          *)
LEMMA TrainingKept ==
  ASSUME TrainingInv, [Next]_vars
  PROVE  TrainingInv'
<1>0. Shaped /\ JudgedAsCompleted /\ CitedIsThere
  BY DEF TrainingInv
<1>1. CASE UNCHANGED <<record, fulfilment>> /\ Elsewhere(CompetencePhases)
  BY <1>0, <1>1 DEF TrainingInv, JudgedAsCompleted, CitedIsThere, Cites, Elsewhere, CompetencePhases
<1>2. ASSUME NEW t \in Requests, TrainingStep(t), Passes(t, CompetencePhases)
      PROVE  TrainingInv'
  <2>0. OnlyMoves(t) /\ Shaped'
    BY <1>2 DEF Passes, OnlyMoves
  <2>1. CASE BeginSync(t)
    BY <1>0, <2>0, <2>1, BeginMoves
       DEF BeginSync, TrainingInv, JudgedAsCompleted, CitedIsThere, Cites, OnlyMoves, trainingVars
  <2>2. CASE MatchUsers(t)
    BY <1>0, <2>0, <2>2, GotoMoves
       DEF MatchUsers, TrainingInv, JudgedAsCompleted, CitedIsThere, Cites, OnlyMoves, trainingVars
  <2>3. CASE ImportRows(t)
    <3>1. JudgedAsCompleted'
      BY <1>0, <2>3 DEF ImportRows, JudgedAsCompleted, Evaluation, KeyOf
    <3>2. DOMAIN record \subseteq DOMAIN record'
      BY <2>3 DEF ImportRows
    <3>3. CitedIsThere'
      BY <1>0, <2>0, <2>3, <3>2, DoneMoves DEF ImportRows, CitedIsThere, Cites, OnlyMoves
    <3> QED
      BY <2>0, <3>1, <3>3 DEF TrainingInv
  <2>4. CASE EvaluateTrainingRecord(t)
    <3>1. PICK k \in DOMAIN record, e \in Evaluations :
            /\ Once(t, "evaluateTrainingRecord", Lock(Write, RecordRow(k)))
            /\ record' = [record EXCEPT ![k].evaluation = e, ![k].judged = record[k].completion]
      BY <2>4 DEF EvaluateTrainingRecord
    <3>2. JudgedAsCompleted'
      BY <1>0, <3>1 DEF JudgedAsCompleted
    <3>3. CitedIsThere'
      BY <1>0, <2>0, <2>4, <3>1, OnceMoves DEF EvaluateTrainingRecord, CitedIsThere, Cites, OnlyMoves
    <3> QED
      BY <2>0, <3>2, <3>3 DEF TrainingInv
  <2>5. CASE BeginSaveFulfillment(t)
    <3>1. PICK u \in DOMAIN fulfilment, s \in Levels : \E y \in Evidence(u) \cup {None} :
            Begin(t, "saveFulfillment", [user |-> u, status |-> s, year |-> y], "saveFulfillment",
                  <<Lock(Write, FulfilmentRow(u))>>)
      BY <2>5 DEF BeginSaveFulfillment
    <3>2. PICK y \in Evidence(u) \cup {None} :
            Begin(t, "saveFulfillment", [user |-> u, status |-> s, year |-> y], "saveFulfillment",
                  <<Lock(Write, FulfilmentRow(u))>>)
      BY <3>1
    <3>3. Cites(y, u)
      BY <1>0 DEF Evidence, Cites, JudgedAsCompleted
    <3>4. req'[t].arg.year = y /\ req'[t].arg.user = u
      BY <1>0, <3>2, BeginMoves
    <3>5. CitedIsThere'
      BY <1>0, <2>0, <2>5, <3>3, <3>4 DEF BeginSaveFulfillment, CitedIsThere, Cites, OnlyMoves, trainingVars
    <3> QED
      BY <1>0, <2>0, <2>5, <3>5 DEF TrainingInv, JudgedAsCompleted, BeginSaveFulfillment, trainingVars
  <2>6. CASE SaveFulfillment(t)
    <3>1. CitedIsThere'
      BY <1>0, <2>0, <2>6, DoneMoves DEF SaveFulfillment, At, CitedIsThere, Cites, OnlyMoves
    <3> QED
      BY <1>0, <2>0, <2>6, <3>1 DEF TrainingInv, JudgedAsCompleted, SaveFulfillment
  <2> QED
    BY <1>2, <2>1, <2>2, <2>3, <2>4, <2>5, <2>6 DEF TrainingStep
<1> QED
  BY <1>0, <1>1, <1>2, TrainingSteps

(* The tables one begins with are as they should be.                       *)
LEMMA TrainingInitial == Init => TrainingInv
<1> SUFFICES ASSUME Init PROVE TrainingInv
  OBVIOUS
<1>1. PICK name \in DOMAIN Plans : /\ record = Plans[name].tables.record
                                   /\ fulfilment = Plans[name].tables.fulfilment
  BY DEF Init
<1> QED
  BY <1>1, ShapedInit, TrainingAssumption DEF TrainingInv, JudgedAsCompleted, CitedIsThere, Cites

(* Who is shown as competent by a training completed it as it was judged   *)
(* effective (syncElearningCompletions, evaluateTrainingRecord and         *)
(* saveFulfillment overlap).                                               *)
THEOREM CompetenceIsEvidenced == Spec => []CompetentOnEvaluatedTraining
<1>1. TrainingInv => CompetentOnEvaluatedTraining
  BY DEF TrainingInv, CompetentOnEvaluatedTraining, JudgedAsCompleted, CitedIsThere, Cites, ShownFulfilled
<1> QED
  BY <1>1, TrainingInitial, TrainingKept, PTL DEF Spec

-----------------------------------------------------------------------------
(* Posture reports: when a device was last seen.                           *)

(* A step is one of a posture report, or it leaves the device and its      *)
(* reports alone.                                                          *)
LEMMA PostureSteps ==
  ASSUME Shaped, [Next]_vars
  PROVE  \/ \E t \in Requests : PostureStep(t) /\ Passes(t, DevicesPhases)
         \/ UNCHANGED postureVars /\ Elsewhere(DevicesPhases)
<1>1. ASSUME NEW t \in Requests, Files(t) \/ Register(t) \/ Applications(t) \/ Organisation(t) \/
             Policies(t) \/ Work(t) \/ ChangeControl(t) \/ Incident(t)
      PROVE  UNCHANGED postureVars /\ Elsewhere(DevicesPhases)
  BY <1>1, PassesElsewhere, FilesPasses, RegisterPasses, ApplicationsPasses, OrganisationPasses,
    ChartPasses, PoliciesPasses, WorkPasses, ChangeControlPasses, IncidentPasses DEF DevicesPhases, Files,
    Register, Applications, Organisation, Policies, Work, ChangeControl, Incident, FilesPhases,
    RegisterPhases, ApplicationsPhases, OrganisationPhases, ChartPhases, PoliciesPhases, WorkPhases,
    ChangeControlPhases, IncidentPhases, postureVars
<1>2. ASSUME NEW t \in Requests, Decision(t) \/ Audit(t) \/ Journal(t) \/ Standing(t) \/ Competence(t) \/
             Steps(t) \/ Control(t) \/ Passwords(t)
      PROVE  UNCHANGED postureVars /\ Elsewhere(DevicesPhases)
  BY <1>2, PassesElsewhere, DecisionPasses, AuditPasses, JournalPasses, StandingPasses,
    CompetencePasses, StepsPasses, ControlPasses, PasswordsPasses DEF DevicesPhases, Decision, Audit,
    Journal, Standing, Competence, Steps, Control, Passwords, DecisionPhases, AuditPhases, JournalPhases,
    StandingPhases, CompetencePhases, StepsPhases, ControlPhases, PasswordsPhases, postureVars
<1>3. ASSUME NEW t \in Requests, Shared(t)
      PROVE  UNCHANGED postureVars /\ Elsewhere(DevicesPhases)
  BY <1>3, SharedElsewhere DEF Shared, DevicesPhases, postureVars
<1>4. ASSUME NEW t \in Requests, Devices(t)
      PROVE  PostureStep(t) /\ Passes(t, DevicesPhases)
  BY <1>4, DevicesPasses DEF Devices
<1>5. ASSUME TimePasses \/ Outside \/ Machinery \/ Terminated \/ UNCHANGED vars
      PROVE  UNCHANGED postureVars /\ Elsewhere(DevicesPhases)
  BY <1>5, RestElsewhere DEF TimePasses, ExpireException, ReviewDayComes, EntryFallsDue, DayPasses,
    DeviationLapses, Outside, PortalChanges, SeedLoads, Machinery, Orchestrator, Terminated, vars,
    postureVars
<1> QED
  BY <1>1, <1>2, <1>3, <1>4, <1>5 DEF Next

(* Everything that is stored was collected, and the device was last seen   *)
(* when the newest of it was, whatever its key is by now.                  *)
SeenAsReported ==
  /\ DOMAIN device = {"os", "key", "host", "lastSeen"}
  /\ device.lastSeen \in Nat
  /\ snapshots \subseteq Plan.reports
  /\ \A report \in snapshots : report.at <= device.lastSeen
  /\ \/ snapshots = {} /\ device.lastSeen = 0
     \/ \E report \in snapshots : report.at = device.lastSeen

(* What a request is about to store is a report.                           *)
ReportsUnderWay == \A t \in Requests : pc[t] \in DevicesPhases => req[t].arg \in Plan.reports

PostureInv == Shaped /\ SeenAsReported /\ ReportsUnderWay

(* The newest time is only ever raised, by the row as it is then.          *)
LEMMA PostureKept ==
  ASSUME PostureInv, [Next]_vars
  PROVE  PostureInv'
<1>0. Shaped /\ SeenAsReported /\ ReportsUnderWay /\ None \notin Plan.reports
      /\ \A report \in Plan.reports : report.at \in Nat
  BY PostureAssumption DEF PostureInv, Shaped, Plan
<1>1. CASE UNCHANGED postureVars /\ Elsewhere(DevicesPhases)
  BY <1>0, <1>1 DEF PostureInv, SeenAsReported, ReportsUnderWay, Elsewhere, postureVars, Plan
<1>2. ASSUME NEW t \in Requests, PostureStep(t), Passes(t, DevicesPhases)
      PROVE  PostureInv'
  <2>0. OnlyMoves(t) /\ Shaped' /\ Plan' = Plan
    BY <1>2 DEF Passes, OnlyMoves, Plan
  <2>1. CASE BeginPosture(t)
    BY <1>0, <2>0, <2>1, BeginMoves
       DEF BeginPosture, PostureInv, SeenAsReported, ReportsUnderWay, OnlyMoves, postureVars
  <2>2. CASE ReadDefinition(t)
    BY <1>0, <2>0, <2>2, GotoMoves, DoneMoves
       DEF ReadDefinition, At, DevicesPhases, PostureInv, SeenAsReported, ReportsUnderWay, OnlyMoves, postureVars
  <2>3. CASE ExamineReport(t)
    BY <1>0, <2>0, <2>3, GotoMoves, DoneMoves
       DEF ExamineReport, At, DevicesPhases, PostureInv, SeenAsReported, ReportsUnderWay, OnlyMoves, postureVars
  <2>4. CASE InsertReport(t)
    BY <1>0, <2>0, <2>4, GotoMoves
       DEF InsertReport, At, DevicesPhases, PostureInv, SeenAsReported, ReportsUnderWay, OnlyMoves, postureVars
  <2>5. CASE TouchDevice(t)
    <3> DEFINE report == req[t].arg
    <3>1. report \in Plan.reports /\ report.at \in Nat
      BY <1>0, <2>5 DEF TouchDevice, At, DevicesPhases, ReportsUnderWay
    <3>2. snapshots' = snapshots \cup {report}
      BY <2>5 DEF TouchDevice
    <3>3. /\ DOMAIN device' = DOMAIN device
          /\ device'.lastSeen = IF device.lastSeen > report.at THEN device.lastSeen ELSE report.at
      BY <1>0, <2>5 DEF TouchDevice, LastSeen, SeenAsReported
    <3>4. SeenAsReported'
      BY <1>0, <2>0, <3>1, <3>2, <3>3 DEF SeenAsReported
    <3>5. ReportsUnderWay'
      BY <1>0, <2>0, <2>5, DoneMoves DEF TouchDevice, DevicesPhases, ReportsUnderWay, OnlyMoves
    <3> QED
      BY <2>0, <3>4, <3>5 DEF PostureInv
  <2>6. CASE DetachDevice(t)
    BY <1>0, <2>0, <2>6, OnceMoves
       DEF DetachDevice, DevicesPhases, PostureInv, SeenAsReported, ReportsUnderWay, OnlyMoves
  <2>7. CASE EnrollAgain(t)
    BY <1>0, <2>0, <2>7, OnceMoves
       DEF EnrollAgain, DevicesPhases, PostureInv, SeenAsReported, ReportsUnderWay, OnlyMoves
  <2> QED
    BY <1>2, <2>1, <2>2, <2>3, <2>4, <2>5, <2>6, <2>7 DEF PostureStep
<1> QED
  BY <1>0, <1>1, <1>2, PostureSteps

(* The report shown with a device is one of those collected last, and was  *)
(* collected when the device is said to have been seen.                    *)
LEMMA LatestIsLastSeen ==
  ASSUME PostureInv
  PROVE  LastSeenIsNewest
<1>0. SeenAsReported /\ None \notin Plan.reports /\ \A report \in Plan.reports : report.at \in Nat
  BY PostureAssumption DEF PostureInv, Shaped, Plan
<1> SUFFICES ASSUME NEW row \in Basics
             PROVE  row.lastSeen = IF row.report = None THEN 0 ELSE row.report.at
  BY DEF LastSeenIsNewest
<1>1. PICK r \in (IF snapshots = {} THEN {None} ELSE LatestReports(snapshots)) :
        row.lastSeen = device.lastSeen /\ row.report = r
  BY DEF Basics
<1>2. CASE snapshots = {}
  BY <1>0, <1>1, <1>2 DEF SeenAsReported
<1>3. CASE snapshots # {}
  <2>1. PICK newest \in snapshots : newest.at = device.lastSeen
    BY <1>0, <1>3 DEF SeenAsReported
  <2>2. r \in snapshots /\ newest.at <= r.at
    BY <1>1, <1>3, <2>1 DEF LatestReports
  <2>3. r # None /\ r.at \in Nat /\ r.at <= device.lastSeen /\ device.lastSeen \in Nat
    BY <1>0, <2>2 DEF SeenAsReported
  <2> QED
    BY <1>1, <2>1, <2>2, <2>3
<1> QED
  BY <1>2, <1>3

(* A device is said to have been seen when the report shown with it was    *)
(* collected, in whatever order reports are stored (touchDevice of one     *)
(* report races that of another).                                          *)
THEOREM SeenWhenReported == Spec => []LastSeenIsNewest
<1>1. Init => PostureInv
  <2> SUFFICES ASSUME Init PROVE PostureInv
    OBVIOUS
  <2>1. PICK name \in DOMAIN Plans : /\ plan.name = name
                                     /\ device = Plans[name].tables.device
                                     /\ snapshots = Plans[name].tables.snapshots
    BY DEF Init
  <2>2. SeenAsReported
    BY <2>1, PostureAssumption DEF SeenAsReported, Plan
  <2> QED
    BY <2>2, ShapedInit DEF PostureInv, ReportsUnderWay, DevicesPhases
<1> QED
  BY <1>1, PostureKept, LatestIsLastSeen, PTL DEF Spec

-----------------------------------------------------------------------------
(* Findings: a finding is excepted or seen through.                        *)

(* A step is one of the findings, an exception that expires, or it leaves  *)
(* the findings and their exceptions alone.                                *)
LEMMA FindingsSteps ==
  ASSUME Shaped, [Next]_vars
  PROVE  \/ \E t \in Requests : FindingStep(t) /\ Passes(t, AuditPhases)
         \/ ExpireException /\ Elsewhere(AuditPhases)
         \/ UNCHANGED <<finding, exceptions>> /\ Elsewhere(AuditPhases)
<1>1. ASSUME NEW t \in Requests, Files(t) \/ Register(t) \/ Applications(t) \/ Organisation(t) \/
             Policies(t) \/ Work(t) \/ ChangeControl(t) \/ Incident(t)
      PROVE  UNCHANGED <<finding, exceptions>> /\ Elsewhere(AuditPhases)
  BY <1>1, PassesElsewhere, FilesPasses, RegisterPasses, ApplicationsPasses, OrganisationPasses,
    ChartPasses, PoliciesPasses, WorkPasses, ChangeControlPasses, IncidentPasses DEF AuditPhases, Files,
    Register, Applications, Organisation, Policies, Work, ChangeControl, Incident, FilesPhases,
    RegisterPhases, ApplicationsPhases, OrganisationPhases, ChartPhases, PoliciesPhases, WorkPhases,
    ChangeControlPhases, IncidentPhases, findingVars, JournalStep, SaveAudit, AddReviewOutput,
    SaveEffectiveness, SaveVendorAssessment, SaveEvidence, Add
<1>2. ASSUME NEW t \in Requests, Decision(t) \/ Journal(t) \/ Standing(t) \/ Competence(t) \/ Devices(t) \/
             Steps(t) \/ Control(t) \/ Passwords(t)
      PROVE  UNCHANGED <<finding, exceptions>> /\ Elsewhere(AuditPhases)
  BY <1>2, PassesElsewhere, DecisionPasses, JournalPasses, StandingPasses, CompetencePasses,
    DevicesPasses, StepsPasses, ControlPasses, PasswordsPasses DEF AuditPhases, Decision, Journal,
    Standing, Competence, Devices, Steps, Control, Passwords, DecisionPhases, JournalPhases,
    StandingPhases, CompetencePhases, DevicesPhases, StepsPhases, ControlPhases, PasswordsPhases,
    findingVars, JournalStep, SaveAudit, AddReviewOutput, SaveEffectiveness, SaveVendorAssessment,
    SaveEvidence, Add
<1>3. ASSUME NEW t \in Requests, Shared(t)
      PROVE  UNCHANGED <<finding, exceptions>> /\ Elsewhere(AuditPhases)
  BY <1>3, SharedElsewhere DEF Shared, AuditPhases, findingVars, JournalStep, SaveAudit,
    AddReviewOutput, SaveEffectiveness, SaveVendorAssessment, SaveEvidence, Add
<1>4. ASSUME NEW t \in Requests, Audit(t)
      PROVE  FindingStep(t) /\ Passes(t, AuditPhases)
  BY <1>4, AuditPasses DEF Audit
<1>5. ASSUME TimePasses \/ Outside \/ Machinery \/ Terminated \/ UNCHANGED vars
      PROVE  (ExpireException \/ UNCHANGED <<finding, exceptions>>) /\ Elsewhere(AuditPhases)
  BY <1>5, RestElsewhere DEF TimePasses, ExpireException, ReviewDayComes, EntryFallsDue, DayPasses,
    DeviationLapses, Outside, PortalChanges, SeedLoads, Machinery, Orchestrator, Terminated, vars,
    findingVars, JournalStep, SaveAudit, AddReviewOutput, SaveEffectiveness, SaveVendorAssessment,
    SaveEvidence, Add
<1> QED
  BY <1>1, <1>2, <1>3, <1>4, <1>5 DEF Next

(* A row has its columns; what is verified has a verifier; a finding that  *)
(* is marked as excepted was; an exception in force is the only one of its *)
(* finding, which is marked.                                               *)
FindingsKept ==
  /\ \A f \in DOMAIN finding :
       /\ DOMAIN finding[f] = {"status", "verifier"}
       /\ finding[f].status \in {"verified", "closed"} => finding[f].verifier # None
       /\ finding[f].status = "exception" => \E x \in DOMAIN exceptions : exceptions[x].finding = f
  /\ \A x \in DOMAIN exceptions :
       /\ DOMAIN exceptions[x] = {"finding", "live"}
       /\ exceptions[x].finding \in DOMAIN finding
       /\ exceptions[x].live => finding[exceptions[x].finding].status = "exception"
  /\ \A x, y \in DOMAIN exceptions :
       exceptions[x].live /\ exceptions[y].live /\ exceptions[x].finding = exceptions[y].finding => x = y

(* A row is named by the request that made it, which is done then.         *)
FindingsFresh == \A t \in Requests : pc[t] # "done" => t \notin DOMAIN finding \cup DOMAIN exceptions

(* The finding that a request has examined and is about to write.          *)
Writes(t, f) ==
  \/ pc[t] = "writeFinding" /\ f = req[t].arg.id
  \/ pc[t] = "writeException" /\ f = req[t].arg

(* A request waits for the finding before it examines it, holds it from    *)
(* then on, alone, and what it found stays so.                             *)
FindingsUnderWay ==
  /\ \A t \in Requests :
       /\ pc[t] \in {"advanceFinding", "writeFinding"} =>
            req[t].arg.id \in DOMAIN finding /\ req[t].arg.by \in People /\ req[t].arg.to \in DOMAIN FINDING_FROM
       /\ pc[t] \in {"approveException", "writeException"} => req[t].arg \in DOMAIN finding
       /\ pc[t] = "advanceFinding" => want[t] = FindingLocks(req[t].arg.id)
       /\ pc[t] = "approveException" => want[t] = FindingLocks(req[t].arg)
       /\ pc[t] = "writeFinding" =>
            MayAdvance(req[t].arg.id, req[t].arg.to)
       /\ pc[t] = "writeException" => MayBeExcepted(req[t].arg)
       /\ \A f \in DOMAIN finding : Writes(t, f) => Lock(Update, FindingRow(f)) \in held[t]
  /\ \A s, t \in Requests, f \in DOMAIN finding : Writes(s, f) /\ Writes(t, f) => s = t

FindingInv == Shaped /\ FindingsKept /\ FindingsFresh /\ FindingsUnderWay

(* Who waits for a finding does not get it while somebody writes it.       *)
LEMMA FindingIsHeld ==
  ASSUME FindingInv, NEW s \in Requests, NEW t \in Requests, NEW f \in DOMAIN finding,
         Writes(s, f), want[t] = FindingLocks(f), Granted(t)
  PROVE  s = t
<1>1. Lock(Update, FindingRow(f)) \in held[s]
  BY DEF FindingInv, FindingsUnderWay
<1> QED
  BY <1>1, RowIsHeld DEF FindingLocks

(* A step that writes neither table, and examines nothing, keeps all.      *)
LEMMA FindingsStand ==
  ASSUME FindingInv, Elsewhere(AuditPhases), UNCHANGED <<finding, exceptions>>
  PROVE  FindingInv'
<1>0. Shaped /\ FindingsKept /\ FindingsFresh /\ FindingsUnderWay /\ Shaped'
  BY DEF FindingInv, Elsewhere
<1>1. FindingsKept' /\ FindingsFresh'
  BY <1>0 DEF FindingsKept, FindingsFresh, Elsewhere
<1>2. FindingsUnderWay'
  <2>1. \A t \in Requests : pc'[t] \in AuditPhases =>
          /\ pc[t] = pc'[t] /\ req'[t] = req[t] /\ held[t] \subseteq held'[t]
          /\ Len(want[t]) <= 1 => want'[t] = want[t]
    BY DEF Elsewhere
  <2>2. \A t \in Requests : \A f : Writes(t, f)' => Writes(t, f)
    BY <2>1 DEF Writes, AuditPhases
  <2>3. \A f : Len(FindingLocks(f)) <= 1
    BY DEF FindingLocks
  <2>4. \A f, to : (MayAdvance(f, to)' <=> MayAdvance(f, to)) /\ (MayBeExcepted(f)' <=> MayBeExcepted(f))
    BY DEF MayAdvance, MayBeExcepted, LiveExceptions
  <2> QED
    BY <1>0, <2>1, <2>2, <2>3, <2>4 DEF FindingsUnderWay, AuditPhases, Writes
<1> QED
  BY <1>0, <1>1, <1>2 DEF FindingInv

(* A step of the findings keeps all: each was examined by the one who      *)
(* writes it, while nobody else could.                                     *)
LEMMA FindingStepKept ==
  ASSUME FindingInv, NEW t \in Requests, FindingStep(t), Passes(t, AuditPhases)
  PROVE  FindingInv'
<1>0. /\ Shaped /\ FindingsKept /\ FindingsFresh /\ FindingsUnderWay
      /\ OnlyMoves(t) /\ Shaped' /\ pc[t] # "done" /\ None \notin People
  BY NoneAssumption DEF FindingInv, Passes, OnlyMoves, AuditPhases
<1>a. ASSUME UNCHANGED <<finding, exceptions>>, pc'[t] \in {"done", "approveReview", "recordApproval"}
      PROVE  FindingInv'
  <2>1. \A s, f : Writes(s, f)' /\ s \in Requests => s # t /\ Writes(s, f)
    BY <1>0, <1>a DEF OnlyMoves, Writes
  <2>2. \A f, to : (MayAdvance(f, to)' <=> MayAdvance(f, to)) /\ (MayBeExcepted(f)' <=> MayBeExcepted(f))
    BY <1>a DEF MayAdvance, MayBeExcepted, LiveExceptions
  <2>3. FindingsUnderWay'
    BY <1>0, <1>a, <2>1, <2>2 DEF FindingsUnderWay, OnlyMoves
  <2> QED
    BY <1>0, <1>a, <2>3 DEF FindingInv, FindingsKept, FindingsFresh, OnlyMoves
<1>1. CASE SaveFinding(t)
  <2>1. /\ pc[t] = "idle" /\ pc'[t] = "done" /\ t \notin DOMAIN finding
        /\ finding' = WithRow(finding, t, [status |-> "detected", verifier |-> None])
        /\ exceptions' = exceptions
    BY <1>0, <1>1, OnceMoves DEF SaveFinding, FindingsFresh
  <2>2. /\ DOMAIN finding' = DOMAIN finding \cup {t}
        /\ finding'[t] = [status |-> "detected", verifier |-> None]
        /\ \A f \in DOMAIN finding : finding'[f] = finding[f]
    BY <2>1 DEF WithRow
  <2>3. FindingsKept'
    BY <1>0, <2>1, <2>2 DEF FindingsKept
  <2>4. FindingsFresh'
    BY <1>0, <2>1, <2>2 DEF FindingsFresh, OnlyMoves
  <2>5. \A f \in DOMAIN finding : \A to :
          (MayAdvance(f, to)' <=> MayAdvance(f, to)) /\ (MayBeExcepted(f)' <=> MayBeExcepted(f))
    BY <2>1, <2>2 DEF MayAdvance, MayBeExcepted, LiveExceptions
  <2>6. \A s \in Requests : \A f : Writes(s, f)' => s # t /\ Writes(s, f) /\ f \in DOMAIN finding
    BY <1>0, <2>1 DEF OnlyMoves, Writes, FindingsUnderWay
  <2>7. FindingsUnderWay'
    BY <1>0, <2>1, <2>2, <2>5, <2>6 DEF FindingsUnderWay, OnlyMoves
  <2> QED
    BY <1>0, <2>3, <2>4, <2>7 DEF FindingInv
<1>2. CASE BeginAdvanceFinding(t)
  <2>1. PICK f \in DOMAIN finding, u \in People, goal \in DOMAIN FINDING_FROM :
          Begin(t, "advanceFinding", [id |-> f, to |-> goal, by |-> u], "advanceFinding", FindingLocks(f))
    BY <1>2 DEF BeginAdvanceFinding, NextFindingSteps
  <2>2. /\ pc[t] = "idle" /\ pc'[t] = "advanceFinding" /\ want'[t] = FindingLocks(f)
        /\ req'[t].arg.id = f /\ req'[t].arg.by = u /\ req'[t].arg.to = goal
    BY <1>0, <2>1, BeginMoves
  <2>3. UNCHANGED <<finding, exceptions>>
    BY <1>2 DEF BeginAdvanceFinding, findingVars
  <2>4. \A s \in Requests : \A g : Writes(s, g)' => s # t /\ Writes(s, g)
    BY <1>0, <2>2 DEF OnlyMoves, Writes
  <2>5. \A g, to : (MayAdvance(g, to)' <=> MayAdvance(g, to)) /\ (MayBeExcepted(g)' <=> MayBeExcepted(g))
    BY <2>3 DEF MayAdvance, MayBeExcepted, LiveExceptions
  <2>6. FindingsUnderWay'
    BY <1>0, <2>2, <2>3, <2>4, <2>5 DEF FindingsUnderWay, OnlyMoves
  <2> QED
    BY <1>0, <2>2, <2>3, <2>6 DEF FindingInv, FindingsKept, FindingsFresh, OnlyMoves
<1>3. CASE AdvanceFinding(t)
  <2> DEFINE arg == req[t].arg
  <2>1. /\ pc[t] = "advanceFinding" /\ Granted(t) /\ want[t] = FindingLocks(arg.id)
        /\ arg.id \in DOMAIN finding /\ arg.by \in People
        /\ UNCHANGED <<finding, exceptions>> /\ plan' = plan
    BY <1>0, <1>3 DEF AdvanceFinding, At, FindingsUnderWay, findingVars
  <2>2. CASE ~MayAdvance(arg.id, arg.to)
    BY <1>0, <1>3, <1>a, <2>1, <2>2, DoneMoves DEF AdvanceFinding
  <2>3. CASE MayAdvance(arg.id, arg.to)
    <3>1. /\ pc'[t] = "writeFinding" /\ held'[t] = Taken(t) /\ req'[t].arg = arg
      BY <1>0, <1>3, <2>1, <2>3, GotoMoves DEF AdvanceFinding
    <3>2. Lock(Update, FindingRow(arg.id)) \in held'[t]
      BY <2>1, <3>1, RowIsTaken DEF FindingLocks
    <3>3. \A s \in Requests, g \in DOMAIN finding :
            Writes(s, g)' => (s # t /\ Writes(s, g)) \/ (s = t /\ g = arg.id)
      BY <1>0, <3>1 DEF OnlyMoves, Writes
    <3>4. \A s \in Requests : ~Writes(s, arg.id)
      BY <2>1, FindingIsHeld DEF Writes
    <3>5. \A g, to : (MayAdvance(g, to)' <=> MayAdvance(g, to)) /\ (MayBeExcepted(g)' <=> MayBeExcepted(g))
      BY <2>1 DEF MayAdvance, MayBeExcepted, LiveExceptions
    <3>6. FindingsUnderWay'
      BY <1>0, <2>1, <2>3, <3>1, <3>2, <3>3, <3>4, <3>5 DEF FindingsUnderWay, OnlyMoves
    <3> QED
      BY <1>0, <2>1, <3>1, <3>6 DEF FindingInv, FindingsKept, FindingsFresh, OnlyMoves
  <2> QED
    BY <2>2, <2>3
<1>4. CASE WriteFinding(t)
  <2> DEFINE arg == req[t].arg
  <2>1. /\ pc[t] = "writeFinding" /\ arg.id \in DOMAIN finding /\ arg.by \in People
        /\ arg.to \in DOMAIN FINDING_FROM /\ MayAdvance(arg.id, arg.to) /\ Writes(t, arg.id)
    BY <1>0, <1>4 DEF WriteFinding, At, FindingsUnderWay, Writes
  <2>2. /\ pc'[t] = "done" /\ exceptions' = exceptions
        /\ finding' = [finding EXCEPT ![arg.id] =
                         [status |-> arg.to, verifier |-> IF arg.to = "verified" THEN arg.by ELSE @.verifier]]
    BY <1>0, <1>4, DoneMoves DEF WriteFinding
  <2>3. arg.to # "exception" /\ finding[arg.id].status # "exception"
    BY <2>1 DEF FINDING_FROM, MayAdvance
  <2>4. FindingsKept'
    BY <1>0, <2>1, <2>2, <2>3 DEF FindingsKept, MayAdvance
  <2>5. \A s \in Requests : \A f : Writes(s, f)' => s # t /\ Writes(s, f)
    BY <1>0, <2>2 DEF OnlyMoves, Writes
  <2>6. \A s \in Requests, f \in DOMAIN finding : Writes(s, f)' => f # arg.id
    BY <1>0, <2>1, <2>5 DEF FindingsUnderWay
  <2>7. \A f \in DOMAIN finding \ {arg.id} : \A to :
          (MayAdvance(f, to)' <=> MayAdvance(f, to)) /\ (MayBeExcepted(f)' <=> MayBeExcepted(f))
    BY <2>2 DEF MayAdvance, MayBeExcepted, LiveExceptions
  <2>8. FindingsUnderWay'
    BY <1>0, <2>1, <2>2, <2>5, <2>6, <2>7 DEF FindingsUnderWay, OnlyMoves, Writes
  <2> QED
    BY <1>0, <2>2, <2>4, <2>8 DEF FindingInv, FindingsFresh, OnlyMoves
<1>5. CASE BeginApproveException(t)
  <2>1. PICK f \in DOMAIN finding : Begin(t, "approveException", f, "approveException", FindingLocks(f))
    BY <1>5 DEF BeginApproveException
  <2>2. /\ pc[t] = "idle" /\ pc'[t] = "approveException" /\ want'[t] = FindingLocks(f) /\ req'[t].arg = f
    BY <1>0, <2>1, BeginMoves
  <2>3. UNCHANGED <<finding, exceptions>>
    BY <1>5 DEF BeginApproveException, findingVars
  <2>4. \A s \in Requests : \A g : Writes(s, g)' => s # t /\ Writes(s, g)
    BY <1>0, <2>2 DEF OnlyMoves, Writes
  <2>5. \A g, to : (MayAdvance(g, to)' <=> MayAdvance(g, to)) /\ (MayBeExcepted(g)' <=> MayBeExcepted(g))
    BY <2>3 DEF MayAdvance, MayBeExcepted, LiveExceptions
  <2>6. FindingsUnderWay'
    BY <1>0, <2>2, <2>3, <2>4, <2>5 DEF FindingsUnderWay, OnlyMoves
  <2> QED
    BY <1>0, <2>2, <2>3, <2>6 DEF FindingInv, FindingsKept, FindingsFresh, OnlyMoves
<1>6. CASE ApproveException(t)
  <2> DEFINE f == req[t].arg
  <2>1. /\ pc[t] = "approveException" /\ Granted(t) /\ want[t] = FindingLocks(f) /\ f \in DOMAIN finding
        /\ UNCHANGED <<finding, exceptions>> /\ plan' = plan
    BY <1>0, <1>6 DEF ApproveException, At, FindingsUnderWay, findingVars
  <2>2. CASE ~MayBeExcepted(f)
    BY <1>0, <1>6, <1>a, <2>1, <2>2, DoneMoves DEF ApproveException
  <2>3. CASE MayBeExcepted(f)
    <3>1. /\ pc'[t] = "writeException" /\ held'[t] = Taken(t) /\ req'[t].arg = f
      BY <1>0, <1>6, <2>1, <2>3, GotoMoves DEF ApproveException
    <3>2. Lock(Update, FindingRow(f)) \in held'[t]
      BY <2>1, <3>1, RowIsTaken DEF FindingLocks
    <3>3. \A s \in Requests, g \in DOMAIN finding :
            Writes(s, g)' => (s # t /\ Writes(s, g)) \/ (s = t /\ g = f)
      BY <1>0, <3>1 DEF OnlyMoves, Writes
    <3>4. \A s \in Requests : ~Writes(s, f)
      BY <2>1, FindingIsHeld DEF Writes
    <3>5. \A g, to : (MayAdvance(g, to)' <=> MayAdvance(g, to)) /\ (MayBeExcepted(g)' <=> MayBeExcepted(g))
      BY <2>1 DEF MayAdvance, MayBeExcepted, LiveExceptions
    <3>6. FindingsUnderWay'
      BY <1>0, <2>1, <2>3, <3>1, <3>2, <3>3, <3>4, <3>5 DEF FindingsUnderWay, OnlyMoves
    <3> QED
      BY <1>0, <2>1, <3>1, <3>6 DEF FindingInv, FindingsKept, FindingsFresh, OnlyMoves
  <2> QED
    BY <2>2, <2>3
<1>7. CASE WriteException(t)
  <2> DEFINE f == req[t].arg
  <2>1. pc[t] = "writeException" /\ f \in DOMAIN finding /\ MayBeExcepted(f) /\ Writes(t, f)
    BY <1>0, <1>7 DEF WriteException, At, FindingsUnderWay, Writes
  <2>2. /\ pc'[t] = "done" /\ finding' = [finding EXCEPT ![f].status = "exception"]
        /\ exceptions' = WithRow(exceptions, t, [finding |-> f, live |-> TRUE])
        /\ t \notin DOMAIN exceptions
    BY <1>0, <1>7, <2>1, DoneMoves DEF WriteException, FindingsFresh
  <2>3. /\ DOMAIN exceptions' = DOMAIN exceptions \cup {t}
        /\ exceptions'[t] = [finding |-> f, live |-> TRUE]
        /\ \A x \in DOMAIN exceptions : exceptions'[x] = exceptions[x]
    BY <2>2 DEF WithRow
  <2>4. \A x \in DOMAIN exceptions : exceptions[x].finding = f => ~exceptions[x].live
    BY <1>0, <2>1 DEF MayBeExcepted, LiveExceptions, FindingsKept
  <2>5. FindingsKept'
    <3>1. /\ DOMAIN finding' = DOMAIN finding /\ finding'[f].status = "exception"
          /\ DOMAIN finding'[f] = {"status", "verifier"}
          /\ \A g \in DOMAIN finding \ {f} : finding'[g] = finding[g]
      BY <1>0, <2>1, <2>2 DEF FindingsKept
    <3>2. DOMAIN exceptions'[t] = {"finding", "live"} /\ exceptions'[t].finding = f
      BY <2>3
    <3> QED
      BY <1>0, <2>1, <2>3, <2>4, <3>1, <3>2 DEF FindingsKept
  <2>6. \A s \in Requests : \A g : Writes(s, g)' => s # t /\ Writes(s, g)
    BY <1>0, <2>2 DEF OnlyMoves, Writes
  <2>7. \A s \in Requests, g \in DOMAIN finding : Writes(s, g)' => g # f
    BY <1>0, <2>1, <2>6 DEF FindingsUnderWay
  <2>8. \A g \in DOMAIN finding \ {f} : \A to :
          (MayAdvance(g, to)' <=> MayAdvance(g, to)) /\ (MayBeExcepted(g)' <=> MayBeExcepted(g))
    <3>1. \A g \in DOMAIN finding \ {f} : finding'[g] = finding[g] /\ LiveExceptions(g)' = LiveExceptions(g)
      <4>1. exceptions'[t].finding = f
        BY <2>3
      <4> QED
        BY <2>1, <2>2, <2>3, <4>1 DEF LiveExceptions
    <3> QED
      BY <3>1 DEF MayAdvance, MayBeExcepted
  <2>9. FindingsUnderWay'
    <3>1. DOMAIN finding' = DOMAIN finding
      BY <2>2
    <3>2. \A s \in Requests :
            /\ pc'[s] = "writeFinding" => Writes(s, req[s].arg.id)'
            /\ pc'[s] = "writeException" => Writes(s, req[s].arg)'
      BY DEF Writes
    <3>3. \A s \in Requests : pc'[s] \in {"advanceFinding", "writeFinding", "approveException", "writeException"} =>
            s # t /\ pc'[s] = pc[s] /\ req'[s] = req[s] /\ held'[s] = held[s] /\ want'[s] = want[s]
      BY <1>0, <2>2 DEF OnlyMoves
    <3>4. ASSUME NEW s \in Requests, pc'[s] = "writeFinding"
          PROVE  MayAdvance(req[s].arg.id, req[s].arg.to)'
      <4>1. req[s].arg.id \in DOMAIN finding \ {f} /\ MayAdvance(req[s].arg.id, req[s].arg.to)
        BY <1>0, <2>7, <3>2, <3>3, <3>4 DEF FindingsUnderWay
      <4> QED
        BY <2>8, <3>3, <3>4, <4>1
    <3>5. ASSUME NEW s \in Requests, pc'[s] = "writeException"
          PROVE  MayBeExcepted(req[s].arg)'
      <4>1. req[s].arg \in DOMAIN finding \ {f} /\ MayBeExcepted(req[s].arg)
        BY <1>0, <2>7, <3>2, <3>3, <3>5 DEF FindingsUnderWay
      <4> QED
        BY <2>8, <3>3, <3>5, <4>1
    <3>6. \A s \in Requests, g \in DOMAIN finding : Writes(s, g)' => Lock(Update, FindingRow(g)) \in held'[s]
      BY <1>0, <2>6, <3>3 DEF FindingsUnderWay, Writes
    <3>7. \A s, u \in Requests, g \in DOMAIN finding : Writes(s, g)' /\ Writes(u, g)' => s = u
      BY <1>0, <2>6 DEF FindingsUnderWay
    <3>8. \A s \in Requests :
            /\ pc'[s] \in {"advanceFinding", "writeFinding"} =>
                 /\ req'[s].arg.id \in DOMAIN finding /\ req'[s].arg.by \in People
                 /\ req'[s].arg.to \in DOMAIN FINDING_FROM
            /\ pc'[s] \in {"approveException", "writeException"} => req'[s].arg \in DOMAIN finding
            /\ pc'[s] = "advanceFinding" => want'[s] = FindingLocks(req'[s].arg.id)
            /\ pc'[s] = "approveException" => want'[s] = FindingLocks(req'[s].arg)
      BY <1>0, <3>3 DEF FindingsUnderWay
    <3> QED
      BY <3>1, <3>4, <3>5, <3>6, <3>7, <3>8 DEF FindingsUnderWay
  <2>10. FindingsFresh'
    BY <1>0, <2>2, <2>3 DEF FindingsFresh, OnlyMoves
  <2> QED
    BY <1>0, <2>5, <2>9, <2>10 DEF FindingInv
<1>8. CASE SaveCorrective(t) \/ CompleteCorrective(t) \/ ReviewCorrective(t) \/ SaveReview(t)
  BY <1>0, <1>8, <1>a, OnceMoves DEF SaveCorrective, CompleteCorrective, ReviewCorrective, SaveReview
<1>9. CASE BeginApproveReview(t)
  BY <1>0, <1>9, <1>a, BeginMoves DEF BeginApproveReview, findingVars
<1>10. CASE ApproveReview(t)
  BY <1>0, <1>10, <1>a, GotoMoves, DoneMoves DEF ApproveReview, findingVars
<1>11. CASE RecordApproval(t)
  BY <1>0, <1>11, <1>a, DoneMoves DEF RecordApproval
<1> QED
  BY <1>1, <1>2, <1>3, <1>4, <1>5, <1>6, <1>7, <1>8, <1>9, <1>10, <1>11 DEF FindingStep

(* An exception that expires leaves more findings free to be excepted.     *)
LEMMA ExpiryKept ==
  ASSUME FindingInv, ExpireException, Elsewhere(AuditPhases)
  PROVE  FindingInv'
<1>0. Shaped /\ FindingsKept /\ FindingsFresh /\ FindingsUnderWay /\ Shaped' /\ UNCHANGED <<pc, req, held, want>>
  BY DEF FindingInv, Elsewhere, ExpireException, requestVars
<1>1. PICK z \in DOMAIN exceptions : exceptions' = [exceptions EXCEPT ![z].live = FALSE]
  BY DEF ExpireException
<1>2. finding' = finding
  BY DEF ExpireException
<1>3. /\ DOMAIN exceptions' = DOMAIN exceptions
      /\ \A x \in DOMAIN exceptions :
           /\ DOMAIN exceptions'[x] = DOMAIN exceptions[x]
           /\ exceptions'[x].finding = exceptions[x].finding
           /\ exceptions'[x].live => exceptions[x].live
  BY <1>0, <1>1 DEF FindingsKept
<1>4. FindingsKept' /\ FindingsFresh'
  BY <1>0, <1>2, <1>3 DEF FindingsKept, FindingsFresh
<1>5. \A f, to : (MayAdvance(f, to)' <=> MayAdvance(f, to)) /\ (MayBeExcepted(f) => MayBeExcepted(f)')
  BY <1>2, <1>3 DEF MayAdvance, MayBeExcepted, LiveExceptions
<1>6. \A s, f : Writes(s, f)' <=> Writes(s, f)
  BY <1>0 DEF Writes
<1>7. FindingsUnderWay'
  BY <1>0, <1>2, <1>5, <1>6 DEF FindingsUnderWay
<1> QED
  BY <1>0, <1>4, <1>7 DEF FindingInv

(* There is at most one of what is all equal.                              *)
LEMMA OneAtMost ==
  ASSUME NEW S, \A x, y \in S : x = y
  PROVE  Cardinality(S) <= 1
<1>1. CASE S = {}
  BY <1>1, FS_EmptySet
<1>2. CASE S # {}
  <2>1. PICK x \in S : S = {x}
    BY <1>2
  <2> QED
    BY <2>1, FS_Singleton
<1> QED
  BY <1>1, <1>2

(* A finding is either let go for a time or seen through, however          *)
(* advanceFinding, approveException and the expiry of exceptions overlap.  *)
THEOREM FindingsGoOneWay == Spec => []FindingGoesOneWay
<1>1. Init => FindingInv
  <2> SUFFICES ASSUME Init PROVE FindingInv
    OBVIOUS
  <2>1. PICK name \in DOMAIN Plans : /\ finding = Plans[name].tables.finding
                                     /\ exceptions = Plans[name].tables.exceptions
    BY DEF Init
  <2>2. Requests \cap (DOMAIN finding \cup DOMAIN exceptions) = {} /\ FindingsKept
    BY <2>1, FindingsAssumption DEF FindingsKept
  <2> QED
    BY <2>2, ShapedInit DEF FindingInv, FindingsFresh, FindingsUnderWay, Writes
<1>2. FindingInv /\ [Next]_vars => FindingInv'
  BY FindingsSteps, FindingStepKept, FindingsStand, ExpiryKept DEF FindingInv
<1>3. FindingInv => FindingGoesOneWay
  <2> SUFFICES ASSUME FindingInv, NEW f \in DOMAIN finding
               PROVE  /\ Cardinality(LiveExceptions(f)) <= 1
                      /\ finding[f].status \in {"verified", "closed"} =>
                           finding[f].verifier # None /\ LiveExceptions(f) = {}
                      /\ finding[f].status = "exception" => \E x \in DOMAIN exceptions : exceptions[x].finding = f
    BY DEF FindingGoesOneWay
  <2>1. \A x, y \in LiveExceptions(f) : x = y
    BY DEF FindingInv, FindingsKept, LiveExceptions
  <2> QED
    BY <2>1, OneAtMost DEF FindingInv, FindingsKept, LiveExceptions
<1> QED
  BY <1>1, <1>2, <1>3, PTL DEF Spec

-----------------------------------------------------------------------------
(* Changes: what is implemented is what was approved.                      *)

(* No change comes to name another asset, or none.                         *)
LinksStay == \A c : AssetOf(ChangeRow(c))' = AssetOf(ChangeRow(c))

(* A step of the register leaves what the changes name.                    *)
LEMMA RegisterKeepsLinks ==
  ASSUME NEW t \in Requests, RegisterStep(t) PROVE LinksStay
<1> USE DEF registerVars, LinksStay, AssetOf
<1>1. CASE BeginImportAssets(t)  BY <1>1 DEF BeginImportAssets, BeginImport
<1>2. CASE ExamineAssets(t)  BY <1>2 DEF ExamineAssets, Refused
<1>3. CASE InsertAssets(t)  BY <1>3 DEF InsertAssets, Imported, Refused
<1>4. CASE BeginImportRisks(t)  BY <1>4 DEF BeginImportRisks, BeginImport
<1>5. CASE ExamineRisks(t)  BY <1>5 DEF ExamineRisks, Refused
<1>6. CASE InsertRisks(t)  BY <1>6 DEF InsertRisks, Refused
<1>7. CASE CommitRisks(t)  BY <1>7 DEF CommitRisks, Imported
<1>8. CASE BeginUndoAssets(t)  BY <1>8 DEF BeginUndoAssets, BeginUndo
<1>9. CASE UndoAssets(t)  BY <1>9 DEF UndoAssets, Refused, Undone
<1>10. CASE BeginUndoRisks(t)  BY <1>10 DEF BeginUndoRisks, BeginUndo
<1>11. CASE UndoRisks(t)  BY <1>11 DEF UndoRisks, Refused, Undone
<1>12. CASE BeginSaveAsset(t)  BY <1>12 DEF BeginSaveAsset
<1>13. CASE SaveAsset(t)  BY <1>13 DEF SaveAsset
<1>14. CASE BeginSaveRisk(t)  BY <1>14 DEF BeginSaveRisk
<1>15. CASE SaveRisk(t)  BY <1>15 DEF SaveRisk
<1>16. CASE CommitRisk(t)  BY <1>16 DEF CommitRisk
<1>17. CASE BeginAddRiskSnapshot(t)  BY <1>17 DEF BeginAddRiskSnapshot
<1>18. CASE AddRiskSnapshot(t)  BY <1>18 DEF AddRiskSnapshot
<1>19. CASE InsertSnapshot(t)  BY <1>19 DEF InsertSnapshot
<1>20. CASE CommitSnapshot(t)  BY <1>20 DEF CommitSnapshot
<1> QED BY <1>1, <1>2, <1>3, <1>4, <1>5, <1>6, <1>7, <1>8, <1>9, <1>10, <1>11, <1>12, <1>13, <1>14,
      <1>15, <1>16, <1>17, <1>18, <1>19, <1>20 DEF RegisterStep

(* A step of the used systems leaves what the changes name.                *)
LEMMA ApplicationsKeepsLinks ==
  ASSUME NEW t \in Requests, SystemsStep(t) PROVE LinksStay
<1> USE DEF registerVars, LinksStay, AssetOf
<1>1. CASE BeginSaveSystem(t)  BY <1>1 DEF BeginSaveSystem
<1>2. CASE ReadSystemKeys(t)  BY <1>2 DEF ReadSystemKeys
<1>3. CASE CreateSystem(t)  BY <1>3 DEF CreateSystem
<1>4. CASE BeginUpdateSystem(t)  BY <1>4 DEF BeginUpdateSystem
<1>5. CASE CountLocated(t)  BY <1>5 DEF CountLocated, LooksForAssets
<1>6. CASE LookAgain(t)  BY <1>6 DEF LookAgain, LooksForAssets
<1>7. CASE WriteSystem(t)  BY <1>7 DEF WriteSystem
<1>8. CASE BeginSaveDepartmentSystem(t)  BY <1>8 DEF BeginSaveDepartmentSystem
<1>9. CASE SaveDepartmentSystem(t)  BY <1>9 DEF SaveDepartmentSystem
<1>10. CASE ReferDepartment(t)  BY <1>10 DEF ReferDepartment
<1>11. CASE CommitUsage(t)  BY <1>11 DEF CommitUsage
<1>12. CASE BeginRemoveDepartmentSystem(t)  BY <1>12 DEF BeginRemoveDepartmentSystem
<1>13. CASE RemoveDepartmentSystem(t)  BY <1>13 DEF RemoveDepartmentSystem
<1> QED BY <1>1, <1>2, <1>3, <1>4, <1>5, <1>6, <1>7, <1>8, <1>9, <1>10, <1>11, <1>12, <1>13 DEF
      SystemsStep

(* A step of the assignments leaves what the changes name.                 *)
LEMMA WorkKeepsLinks ==
  ASSUME NEW t \in Requests, WorkStep(t) PROVE LinksStay
<1> USE DEF registerVars, LinksStay, AssetOf
<1>1. CASE BeginSaveAssignment(t)  BY <1>1 DEF BeginSaveAssignment
<1>2. CASE SaveAssignment(t)  BY <1>2 DEF SaveAssignment
<1>3. CASE CommitAssignment(t)  BY <1>3 DEF CommitAssignment
<1>4. CASE BeginAddAssignees(t)  BY <1>4 DEF BeginAddAssignees
<1>5. CASE AddAssignees(t)  BY <1>5 DEF AddAssignees
<1>6. CASE CommitAssignees(t)  BY <1>6 DEF CommitAssignees
<1>7. CASE BeginRemoveAssignee(t)  BY <1>7 DEF BeginRemoveAssignee
<1>8. CASE RemoveAssignee(t)  BY <1>8 DEF RemoveAssignee
<1>9. CASE BeginCancelAssignment(t)  BY <1>9 DEF BeginCancelAssignment
<1>10. CASE CancelAssignment(t)  BY <1>10 DEF CancelAssignment
<1>11. CASE CancelRows(t)  BY <1>11 DEF CancelRows
<1>12. CASE BeginUpdateAssignment(t)  BY <1>12 DEF BeginUpdateAssignment
<1>13. CASE UpdateAssignment(t)  BY <1>13 DEF UpdateAssignment
<1>14. CASE ReportRow(t)  BY <1>14 DEF ReportRow
<1>15. CASE ReportItem(t)  BY <1>15 DEF ReportItem
<1> QED BY <1>1, <1>2, <1>3, <1>4, <1>5, <1>6, <1>7, <1>8, <1>9, <1>10, <1>11, <1>12, <1>13, <1>14,
      <1>15 DEF WorkStep

(* A step of the incidents leaves what the changes name.                   *)
LEMMA IncidentKeepsLinks ==
  ASSUME NEW t \in Requests, IncidentStep(t) PROVE LinksStay
<1> USE DEF registerVars, LinksStay, AssetOf
<1>1. CASE BeginRegisterIncident(t)  BY <1>1 DEF BeginRegisterIncident
<1>2. CASE BeginEditIncident(t)  BY <1>2 DEF BeginEditIncident, ChangeRow, IncidentRow, WithRow, Restrict
<1>3. CASE ReadIncident(t)  BY <1>3 DEF ReadIncident
<1>4. CASE CheckOwner(t)  BY <1>4 DEF CheckOwner
<1>5. CASE WriteIncident(t)  BY <1>5 DEF WriteIncident
<1>6. CASE ReferIncident(t)  BY <1>6 DEF ReferIncident
<1>7. CASE CommitIncident(t)  BY <1>7 DEF CommitIncident, ChangeRow, IncidentRow, WithRow, Restrict
<1> QED BY <1>1, <1>2, <1>3, <1>4, <1>5, <1>6, <1>7 DEF IncidentStep

(* A step of the decisions leaves what the changes name.                   *)
LEMMA DecisionKeepsLinks ==
  ASSUME NEW t \in Requests, DecisionStep(t) PROVE LinksStay
<1> USE DEF registerVars, LinksStay, AssetOf
<1>1. CASE BeginAcceptRisk(t)  BY <1>1 DEF BeginAcceptRisk
<1>2. CASE AcceptRisk(t)  BY <1>2 DEF AcceptRisk
<1>3. CASE AcceptOperation(t)  BY <1>3 DEF AcceptOperation
<1>4. CASE ApproveAcceptance(t)  BY <1>4 DEF ApproveAcceptance
<1>5. CASE AcceptSnapshot(t)  BY <1>5 DEF AcceptSnapshot
<1>6. CASE RecordAcceptance(t)  BY <1>6 DEF RecordAcceptance
<1>7. CASE BeginRequestDeviation(t)  BY <1>7 DEF BeginRequestDeviation
<1>8. CASE RequestDeviation(t)  BY <1>8 DEF RequestDeviation
<1>9. CASE InsertDeviation(t)  BY <1>9 DEF InsertDeviation
<1>10. CASE LinkDeviation(t)  BY <1>10 DEF LinkDeviation
<1>11. CASE CommitDeviation(t)  BY <1>11 DEF CommitDeviation, ChangeRow, DeviationRow, WithRow
<1>12. CASE BeginDecideDeviation(t)  BY <1>12 DEF BeginDecideDeviation, ChangeRow, DeviationRow, WithRow
<1>13. CASE DecideDeviation(t)  BY <1>13 DEF DecideDeviation
<1> QED BY <1>1, <1>2, <1>3, <1>4, <1>5, <1>6, <1>7, <1>8, <1>9, <1>10, <1>11, <1>12, <1>13 DEF
      DecisionStep

(* A step is one of the changes and vulnerabilities, or it leaves the      *)
(* changes alone, and what each of them names.                             *)
LEMMA ChangesSteps ==
  ASSUME Shaped, [Next]_vars
  PROVE  \/ \E t \in Requests : ChangeStep(t) /\ Passes(t, ChangeControlPhases)
         \/ UNCHANGED change /\ LinksStay /\ Elsewhere(ChangeControlPhases)
<1>1. ASSUME NEW t \in Requests, Files(t) \/ Register(t) \/ Applications(t) \/ Organisation(t) \/
             Policies(t) \/ Work(t) \/ Incident(t) \/ Decision(t)
      PROVE  UNCHANGED change /\ LinksStay /\ Elsewhere(ChangeControlPhases)
  BY <1>1, PassesElsewhere, RegisterKeepsLinks, ApplicationsKeepsLinks, WorkKeepsLinks,
    IncidentKeepsLinks, DecisionKeepsLinks, FilesPasses, RegisterPasses, ApplicationsPasses,
    OrganisationPasses, ChartPasses, PoliciesPasses, WorkPasses, IncidentPasses, DecisionPasses DEF
    ChangeControlPhases, Files, Register, Applications, Organisation, Policies, Work, Incident, Decision,
    FilesPhases, RegisterPhases, ApplicationsPhases, OrganisationPhases, ChartPhases, PoliciesPhases,
    WorkPhases, IncidentPhases, DecisionPhases, changeVars, registerVars, LinksStay, AssetOf
<1>2. ASSUME NEW t \in Requests, Audit(t) \/ Journal(t) \/ Standing(t) \/ Competence(t) \/ Devices(t) \/
             Steps(t) \/ Control(t) \/ Passwords(t)
      PROVE  UNCHANGED change /\ LinksStay /\ Elsewhere(ChangeControlPhases)
  BY <1>2, PassesElsewhere, RegisterKeepsLinks, ApplicationsKeepsLinks, WorkKeepsLinks,
    IncidentKeepsLinks, DecisionKeepsLinks, AuditPasses, JournalPasses, StandingPasses, CompetencePasses,
    DevicesPasses, StepsPasses, ControlPasses, PasswordsPasses DEF ChangeControlPhases, Audit, Journal,
    Standing, Competence, Devices, Steps, Control, Passwords, AuditPhases, JournalPhases, StandingPhases,
    CompetencePhases, DevicesPhases, StepsPhases, ControlPhases, PasswordsPhases, changeVars,
    registerVars, LinksStay, AssetOf
<1>3. ASSUME NEW t \in Requests, Shared(t)
      PROVE  UNCHANGED change /\ LinksStay /\ Elsewhere(ChangeControlPhases)
  BY <1>3, SharedElsewhere DEF Shared, ChangeControlPhases, changeVars, registerVars, LinksStay, AssetOf
<1>4. ASSUME NEW t \in Requests, ChangeControl(t)
      PROVE  ChangeStep(t) /\ Passes(t, ChangeControlPhases)
  BY <1>4, ChangeControlPasses DEF ChangeControl
<1>5. ASSUME TimePasses \/ Outside \/ Machinery \/ Terminated \/ UNCHANGED vars
      PROVE  UNCHANGED change /\ LinksStay /\ Elsewhere(ChangeControlPhases)
  BY <1>5, RestElsewhere DEF TimePasses, ExpireException, ReviewDayComes, EntryFallsDue, DayPasses,
    DeviationLapses, Outside, PortalChanges, SeedLoads, Machinery, Orchestrator, Terminated, vars,
    changeVars, registerVars, LinksStay, AssetOf
<1> QED
  BY <1>1, <1>2, <1>3, <1>4, <1>5 DEF Next

(* A row has its columns, and was approved as it is.                       *)
ChangesKept ==
  /\ \A c \in DOMAIN change : DOMAIN change[c] = {"status", "text", "by", "decider", "approval"}
  /\ ImplementedAsApproved

(* A row is named by the request that made it, which is done then.         *)
ChangesFresh == \A t \in Requests : pc[t] # "done" => t \notin DOMAIN change

(* Phases of a request that has examined a change and is about to write.   *)
Changing == {"linkChange", "writeChange", "recordDecision"}

(* What a request of the changes waits for before it examines a change,    *)
(* and knows of it from then on.                                           *)
ChangeUnderWay(t) ==
  /\ pc[t] \in Changing \cup {"updateChangeRequest", "decideChangeRequest"} => req[t].arg.id \in DOMAIN change
  /\ pc[t] \in {"updateChangeRequest", "decideChangeRequest"} =>
       want[t] = <<Lock(Update, ChangeRow(req[t].arg.id))>>
  /\ pc[t] \in Changing =>
       Lock(Update, ChangeRow(req[t].arg.id)) \in held[t] /\ req[t].arg.id \in Pending
  /\ pc[t] = "recordDecision" =>
       MayDecide(req[t].arg.id, req[t].arg.by) /\ req[t].saw = Content(req[t].arg.id)

(* Nobody else is about to write the change.                               *)
ChangesAlone ==
  \A s, t \in Requests :
    pc[s] \in Changing /\ pc[t] \in Changing /\ req[s].arg.id = req[t].arg.id => s = t

ChangesUnderWay == ChangesAlone /\ \A t \in Requests : ChangeUnderWay(t)

ChangeInv == Shaped /\ ChangesKept /\ ChangesFresh /\ ChangesUnderWay

(* Who waits for a change does not get it while somebody is about to write *)
(* it.                                                                     *)
LEMMA ChangeIsHeld ==
  ASSUME ChangeInv, NEW s \in Requests, NEW t \in Requests, pc[s] \in Changing,
         want[t] = <<Lock(Update, ChangeRow(req[s].arg.id))>>, Granted(t)
  PROVE  s = t
<1>1. Lock(Update, ChangeRow(req[s].arg.id)) \in held[s]
  BY DEF ChangeInv, ChangesUnderWay, ChangeUnderWay
<1> QED
  BY <1>1, RowIsHeld

(* Nor does a request of one statement.                                    *)
LEMMA ChangeIsBarred ==
  ASSUME ChangeInv, NEW t \in Requests, NEW op, NEW c, Once(t, op, Lock(Write, ChangeRow(c)))
  PROVE  \A s \in Requests : pc[s] \in Changing => req[s].arg.id # c
<1> SUFFICES ASSUME NEW s \in Requests, pc[s] \in Changing, req[s].arg.id = c PROVE FALSE
  OBVIOUS
<1>1. Lock(Update, ChangeRow(c)) \in held[s]
  BY DEF ChangeInv, ChangesUnderWay, ChangeUnderWay
<1> QED
  BY <1>1, RowIsBarred

(* The change is as it was.                                                *)
Stays(c) == c \in DOMAIN change' /\ change'[c] = change[c] /\ AssetOf(ChangeRow(c))' = AssetOf(ChangeRow(c))

(* What is known of changes that stay as they were is still so.            *)
LEMMA KnownStays ==
  ASSUME ChangeInv, NEW s \in Requests, pc'[s] = pc[s], req'[s] = req[s], held[s] \subseteq held'[s],
         Len(want[s]) <= 1 => want'[s] = want[s], DOMAIN change \subseteq DOMAIN change',
         pc[s] \in Changing => Stays(req[s].arg.id)
  PROVE  ChangeUnderWay(s)'
<1>1. ChangeUnderWay(s)
  BY DEF ChangeInv, ChangesUnderWay
<1>2. \A c : Stays(c) =>
        /\ c \in Pending => c \in Pending'
        /\ \A u : MayDecide(c, u) => MayDecide(c, u)'
        /\ Content(c)' = Content(c)
  BY DEF Stays, Pending, MayDecide, Content
<1>3. pc[s] \in Changing /\ req[s].arg.id \in Pending => req[s].arg.id \in Pending'
  BY <1>2
<1>4. pc[s] = "recordDecision" /\ MayDecide(req[s].arg.id, req[s].arg.by)
        => MayDecide(req[s].arg.id, req[s].arg.by)' /\ Content(req[s].arg.id)' = Content(req[s].arg.id)
  <2> SUFFICES ASSUME pc[s] = "recordDecision", MayDecide(req[s].arg.id, req[s].arg.by)
               PROVE  MayDecide(req[s].arg.id, req[s].arg.by)' /\ Content(req[s].arg.id)' = Content(req[s].arg.id)
    OBVIOUS
  <2> DEFINE c == req[s].arg.id
  <2>1. Stays(c)
    BY DEF Changing
  <2>2. req'[s].arg = req[s].arg
    OBVIOUS
  <2> QED
    BY <2>1, <2>2 DEF Stays, MayDecide, Content
<1>5. pc[s] \in {"updateChangeRequest", "decideChangeRequest"} =>
        req'[s].arg.id \in DOMAIN change' /\ want'[s] = <<Lock(Update, ChangeRow(req'[s].arg.id))>>
  <2>1. \A l : Len(<<l>>) <= 1
    OBVIOUS
  <2> QED
    BY <1>1, <2>1 DEF ChangeUnderWay
<1>6. pc[s] \in Changing => /\ req'[s].arg.id \in DOMAIN change'
                            /\ Lock(Update, ChangeRow(req'[s].arg.id)) \in held'[s]
                            /\ req'[s].arg.id \in Pending'
  BY <1>1, <1>3 DEF ChangeUnderWay
<1>7. pc[s] = "recordDecision" =>
        MayDecide(req[s].arg.id, req[s].arg.by)' /\ req'[s].saw = Content(req[s].arg.id)'
  BY <1>1, <1>4 DEF ChangeUnderWay
<1> QED
  BY <1>5, <1>6, <1>7 DEF ChangeUnderWay

(* Nothing is to be known of a request that is elsewhere.                  *)
LEMMA NothingKnown ==
  ASSUME NEW s \in Requests, pc'[s] \notin Changing \cup {"updateChangeRequest", "decideChangeRequest"}
  PROVE  ChangeUnderWay(s)'
BY DEF ChangeUnderWay, Changing

(* A step of others leaves the changes, and what is known of them.         *)
LEMMA ChangesStand ==
  ASSUME ChangeInv, Elsewhere(ChangeControlPhases), UNCHANGED change, LinksStay
  PROVE  ChangeInv'
<1>1. \A c \in DOMAIN change : Stays(c)
  BY DEF Stays, LinksStay
<1>2. ASSUME NEW s \in Requests PROVE ChangeUnderWay(s)'
  <2>1. CASE pc'[s] \in ChangeControlPhases
    <3>1. /\ pc'[s] = pc[s] /\ req'[s] = req[s] /\ held[s] \subseteq held'[s]
          /\ Len(want[s]) <= 1 => want'[s] = want[s]
      BY <2>1 DEF Elsewhere
    <3>2. pc[s] \in Changing => Stays(req[s].arg.id)
      BY <1>1 DEF ChangeInv, ChangesUnderWay, ChangeUnderWay
    <3> QED
      BY <3>1, <3>2, KnownStays
  <2>2. CASE pc'[s] \notin ChangeControlPhases
    BY <2>2, NothingKnown DEF ChangeControlPhases, Changing
  <2> QED
    BY <2>1, <2>2
<1>3. ChangesAlone'
  BY DEF ChangeInv, ChangesUnderWay, ChangesAlone, Elsewhere, ChangeControlPhases, Changing
<1>4. ChangesKept'
  BY <1>1 DEF ChangeInv, ChangesKept, ImplementedAsApproved, Content, Stays
<1>5. Shaped' /\ ChangesFresh'
  BY DEF ChangeInv, ChangesFresh, Elsewhere
<1> QED
  BY <1>2, <1>3, <1>4, <1>5 DEF ChangeInv, ChangesUnderWay

(* A request that writes no change, and of which something or nothing is   *)
(* known then.                                                             *)
LEMMA ChangeMoves ==
  ASSUME ChangeInv, NEW t \in Requests, OnlyMoves(t), pc[t] # "done", UNCHANGED <<change, uses>>,
         ChangeUnderWay(t)',
         pc'[t] \in Changing => \A s \in Requests \ {t} : pc[s] \in Changing => req[s].arg.id # req'[t].arg.id
  PROVE  ChangeInv'
<1>1. \A c \in DOMAIN change : Stays(c)
  BY DEF Stays, AssetOf
<1>2. ASSUME NEW s \in Requests \ {t} PROVE ChangeUnderWay(s)'
  <2>1. pc[s] \in Changing => Stays(req[s].arg.id)
    BY <1>1 DEF ChangeInv, ChangesUnderWay, ChangeUnderWay
  <2> QED
    BY <2>1, KnownStays DEF OnlyMoves
<1>3. ChangesAlone'
  BY DEF ChangeInv, ChangesUnderWay, ChangesAlone, OnlyMoves
<1>4. ChangesKept'
  BY <1>1 DEF ChangeInv, ChangesKept, ImplementedAsApproved, Content, Stays
<1>5. Shaped' /\ ChangesFresh'
  BY DEF ChangeInv, ChangesFresh, OnlyMoves
<1> QED
  BY <1>2, <1>3, <1>4, <1>5 DEF ChangeInv, ChangesUnderWay

(* A request that is done, and wrote at most one change, which nobody else *)
(* is about to write.                                                      *)
LEMMA ChangeEnds ==
  ASSUME ChangeInv, NEW t \in Requests, OnlyMoves(t), pc[t] # "done", pc'[t] = "done", NEW c,
         DOMAIN change \subseteq DOMAIN change', DOMAIN change' \subseteq DOMAIN change \cup {t},
         \A d \in DOMAIN change \ {c} : Stays(d), ChangesKept',
         \A s \in Requests \ {t} : pc[s] \in Changing => req[s].arg.id # c
  PROVE  ChangeInv'
<1>1. ASSUME NEW s \in Requests \ {t} PROVE ChangeUnderWay(s)'
  <2>1. pc[s] \in Changing => Stays(req[s].arg.id)
    BY DEF ChangeInv, ChangesUnderWay, ChangeUnderWay
  <2> QED
    BY <2>1, KnownStays DEF OnlyMoves
<1>2. ChangeUnderWay(t)'
  BY NothingKnown DEF Changing
<1>3. ChangesAlone'
  BY DEF ChangeInv, ChangesUnderWay, ChangesAlone, OnlyMoves, Changing
<1>4. Shaped' /\ ChangesFresh'
  BY DEF ChangeInv, ChangesFresh, OnlyMoves
<1> QED
  BY <1>1, <1>2, <1>3, <1>4 DEF ChangeInv, ChangesUnderWay

(* A change that says what it was approved for, or is not approved.        *)
AsApproved(c) ==
  /\ DOMAIN change[c] = {"status", "text", "by", "decider", "approval"}
  /\ change[c].status \in {"approved", "implemented"} =>
       change[c].approval = Content(c) /\ change[c].decider \in Chiefs \ {change[c].by}

(* It goes on saying so.                                                   *)
LEMMA StaysApproved ==
  ASSUME NEW c, Stays(c), AsApproved(c)
  PROVE  AsApproved(c)'
BY DEF Stays, AsApproved, Content

(* A step of the changes keeps all: a change is only written by who has    *)
(* examined it, or by one statement while nobody has.                      *)
LEMMA ChangeStepKept ==
  ASSUME ChangeInv, NEW t \in Requests, ChangeStep(t), Passes(t, ChangeControlPhases)
  PROVE  ChangeInv'
<1>0. /\ Shaped /\ OnlyMoves(t) /\ pc[t] # "done" /\ t \notin DOMAIN change /\ plan' = plan
      /\ ChangeUnderWay(t) /\ \A c \in DOMAIN change : AsApproved(c)
      /\ \A s \in Requests : pc[s] \in Changing => req[s].arg.id \in DOMAIN change /\ req[s].arg.id # t
  BY DEF ChangeInv, ChangesFresh, ChangesUnderWay, ChangeUnderWay, ChangesKept, ImplementedAsApproved, AsApproved,
         Passes, OnlyMoves, ChangeControlPhases
<1>k. ASSUME \A c \in DOMAIN change' : AsApproved(c)' PROVE ChangesKept'
  BY <1>k DEF ChangesKept, ImplementedAsApproved, AsApproved
<1>a. ASSUME UNCHANGED <<change, uses>>, pc'[t] \notin Changing \cup {"updateChangeRequest", "decideChangeRequest"}
      PROVE  ChangeInv'
  BY <1>0, <1>a, NothingKnown, ChangeMoves
<1>1. CASE BeginSaveVulnerability(t)
  BY <1>0, <1>1, <1>a, BeginMoves DEF BeginSaveVulnerability, registerVars, changeVars, Changing
<1>2. CASE SaveVulnerability(t)
  BY <1>0, <1>2, <1>a, GotoMoves, DoneMoves DEF SaveVulnerability, registerVars, changeVars, Changing
<1>3. CASE InsertVulnerability(t)
  <2>1. change' = change /\ pc'[t] = "done"
    BY <1>0, <1>3, DoneMoves DEF InsertVulnerability
  <2>2. \A c : AssetOf(ChangeRow(c))' = AssetOf(ChangeRow(c))
    BY <1>3 DEF InsertVulnerability, Naming, WithRow, Restrict, AssetOf, ChangeRow, VulnRow
  <2>3. \A c \in DOMAIN change : Stays(c)
    BY <2>1, <2>2 DEF Stays
  <2> QED
    BY <1>0, <1>k, <2>1, <2>3, StaysApproved, ChangeEnds
<1>4. CASE ProgressVulnerability(t)
  BY <1>0, <1>4, <1>a, OnceMoves DEF ProgressVulnerability, registerVars, Changing
<1>5. CASE BeginRequestChange(t)
  BY <1>0, <1>5, <1>a, BeginMoves DEF BeginRequestChange, registerVars, changeVars, Changing
<1>6. CASE RequestChange(t)
  BY <1>0, <1>6, <1>a, GotoMoves, DoneMoves DEF RequestChange, registerVars, changeVars, Changing
<1>7. CASE CommitChange(t)
  <2> DEFINE row == [status |-> "requested", text |-> req[t].arg.text, by |-> req[t].arg.by,
                     decider |-> None, approval |-> None]
  <2>1. /\ change' = WithRow(change, t, row) /\ pc'[t] = "done"
        /\ uses' = Naming(ChangeRow(t), req[t].arg.asset)
    BY <1>0, <1>7, DoneMoves DEF CommitChange
  <2>2. DOMAIN change' = DOMAIN change \cup {t} /\ change'[t] = row
    BY <2>1 DEF WithRow
  <2>3. \A c \in DOMAIN change : Stays(c)
    BY <1>0, <2>1, <2>2 DEF Stays, Naming, WithRow, Restrict, AssetOf, ChangeRow
  <2>4. AsApproved(t)'
    BY <2>2 DEF AsApproved
  <2>5. ChangesKept'
    BY <1>0, <1>k, <2>2, <2>3, <2>4, StaysApproved
  <2> QED
    BY <1>0, <2>1, <2>2, <2>3, <2>5, ChangeEnds
<1>8. CASE BeginUpdateChangeRequest(t)
  <2>1. UNCHANGED <<change, uses>>
    BY <1>8 DEF BeginUpdateChangeRequest, registerVars, changeVars
  <2>2. PICK c \in Pending, text \in Texts : \E a \in AssetsOffered \cup {AssetOf(ChangeRow(c))} :
          Begin(t, "updateChangeRequest", [id |-> c, text |-> text, asset |-> a], "updateChangeRequest",
                <<Lock(Update, ChangeRow(c))>>)
    BY <1>8 DEF BeginUpdateChangeRequest
  <2>3. pc'[t] = "updateChangeRequest" /\ req'[t].arg.id = c /\ want'[t] = <<Lock(Update, ChangeRow(c))>>
    BY <1>0, <2>2, BeginMoves
  <2>4. ChangeUnderWay(t)'
    BY <2>1, <2>3 DEF ChangeUnderWay, Changing, Pending
  <2> QED
    BY <1>0, <2>1, <2>3, <2>4, ChangeMoves DEF Changing
<1>9. CASE UpdateChangeRequest(t)
  <2> DEFINE c == req[t].arg.id
  <2>1. /\ pc[t] = "updateChangeRequest" /\ Granted(t) /\ want[t] = <<Lock(Update, ChangeRow(c))>>
        /\ c \in DOMAIN change /\ UNCHANGED <<change, uses>>
    BY <1>0, <1>9 DEF UpdateChangeRequest, At, ChangeUnderWay, registerVars, changeVars
  <2>2. CASE c \notin Pending
    BY <1>0, <1>9, <1>a, <2>1, <2>2, DoneMoves DEF UpdateChangeRequest, Changing
  <2>3. CASE c \in Pending
    <3>1. PICK locks, saw : Goto(t, "linkChange", locks, saw)
      BY <1>9, <2>3 DEF UpdateChangeRequest
    <3>2. pc'[t] = "linkChange" /\ req'[t].arg = req[t].arg /\ held'[t] = Taken(t)
      BY <1>0, <3>1, GotoMoves
    <3>3. Lock(Update, ChangeRow(c)) \in Taken(t)
      BY <2>1, RowIsTaken
    <3>4. ChangeUnderWay(t)'
      BY <2>1, <2>3, <3>2, <3>3 DEF ChangeUnderWay, Changing, Pending
    <3>5. \A s \in Requests : pc[s] \in Changing => req[s].arg.id # c
      BY <2>1, ChangeIsHeld DEF Changing
    <3> QED
      BY <1>0, <2>1, <3>2, <3>4, <3>5, ChangeMoves
  <2> QED
    BY <2>2, <2>3
<1>10. CASE LinkChange(t)
  <2>1. pc[t] = "linkChange" /\ UNCHANGED <<change, uses>>
    BY <1>10 DEF LinkChange, At, registerVars, changeVars
  <2>2. CASE Done(t)
    BY <1>0, <1>a, <2>1, <2>2, DoneMoves DEF Changing
  <2>3. CASE Goto(t, "writeChange", <<>>, None)
    <3>1. pc'[t] = "writeChange" /\ req'[t].arg = req[t].arg /\ held'[t] = Taken(t)
      BY <1>0, <2>3, GotoMoves
    <3>2. ChangeUnderWay(t)'
      BY <1>0, <2>1, <3>1 DEF ChangeUnderWay, Changing, Pending, Taken
    <3>3. \A s \in Requests \ {t} : pc[s] \in Changing => req[s].arg.id # req[t].arg.id
      BY <2>1 DEF ChangeInv, ChangesUnderWay, ChangesAlone, Changing
    <3> QED
      BY <1>0, <2>1, <3>1, <3>2, <3>3, ChangeMoves
  <2> QED
    BY <1>10, <2>2, <2>3 DEF LinkChange
<1>11. CASE WriteChange(t)
  <2>0. PICK c : c = req[t].arg.id
    OBVIOUS
  <2>1. pc[t] = "writeChange" /\ c \in Pending /\ pc'[t] = "done"
    BY <1>0, <1>11, <2>0, DoneMoves DEF WriteChange, At, ChangeUnderWay, Changing
  <2>2. /\ change' = [change EXCEPT ![c].text = req[t].arg.text]
        /\ uses' = Naming(ChangeRow(c), req[t].arg.asset)
    BY <1>11, <2>0 DEF WriteChange
  <2>3. \A d \in DOMAIN change \ {c} : Stays(d)
    BY <2>2 DEF Stays, Naming, WithRow, Restrict, AssetOf, ChangeRow
  <2>4. AsApproved(c)'
    BY <1>0, <2>1, <2>2 DEF AsApproved, Pending
  <2>5. ChangesKept'
    BY <1>0, <1>k, <2>2, <2>3, <2>4, StaysApproved
  <2>6. \A s \in Requests \ {t} : pc[s] \in Changing => req[s].arg.id # c
    BY <2>0, <2>1 DEF ChangeInv, ChangesUnderWay, ChangesAlone, Changing
  <2> QED
    BY <1>0, <2>1, <2>2, <2>3, <2>5, <2>6, ChangeEnds
<1>12. CASE BeginDecideChangeRequest(t)
  <2>1. UNCHANGED <<change, uses>>
    BY <1>12 DEF BeginDecideChangeRequest, registerVars, changeVars
  <2>2. PICK c \in DOMAIN change, u \in Chiefs, approve \in BOOLEAN :
          Begin(t, "decideChangeRequest", [id |-> c, by |-> u, approve |-> approve],
                "decideChangeRequest", DecisionLocks(c))
    BY <1>12 DEF BeginDecideChangeRequest
  <2>3. pc'[t] = "decideChangeRequest" /\ req'[t].arg.id = c /\ want'[t] = <<Lock(Update, ChangeRow(c))>>
    BY <1>0, <2>2, BeginMoves DEF DecisionLocks
  <2>4. ChangeUnderWay(t)'
    BY <2>1, <2>3 DEF ChangeUnderWay, Changing
  <2> QED
    BY <1>0, <2>1, <2>3, <2>4, ChangeMoves DEF Changing
<1>13. CASE DecideChangeRequest(t)
  <2> DEFINE c == req[t].arg.id
  <2>1. /\ pc[t] = "decideChangeRequest" /\ Granted(t) /\ want[t] = <<Lock(Update, ChangeRow(c))>>
        /\ c \in DOMAIN change /\ UNCHANGED <<change, uses>>
    BY <1>0, <1>13 DEF DecideChangeRequest, At, ChangeUnderWay, registerVars, changeVars
  <2>2. CASE ~MayDecide(c, req[t].arg.by)
    BY <1>0, <1>13, <1>a, <2>1, <2>2, DoneMoves DEF DecideChangeRequest, Changing
  <2>3. CASE MayDecide(c, req[t].arg.by)
    <3>1. Goto(t, "recordDecision", <<Lock(Write, ChangeRow(c))>>, Content(c))
      BY <1>13, <2>3 DEF DecideChangeRequest
    <3>2. /\ pc'[t] = "recordDecision" /\ req'[t].arg = req[t].arg /\ req'[t].saw = Content(c)
          /\ held'[t] = Taken(t)
      BY <1>0, <3>1, GotoMoves
    <3>3. Lock(Update, ChangeRow(c)) \in Taken(t)
      BY <2>1, RowIsTaken
    <3>4. ChangeUnderWay(t)'
      BY <2>1, <2>3, <3>2, <3>3 DEF ChangeUnderWay, Changing, Pending, MayDecide, Content, AssetOf
    <3>5. \A s \in Requests : pc[s] \in Changing => req[s].arg.id # c
      BY <2>1, ChangeIsHeld DEF Changing
    <3> QED
      BY <1>0, <2>1, <3>2, <3>4, <3>5, ChangeMoves
  <2> QED
    BY <2>2, <2>3
<1>14. CASE RecordDecision(t)
  <2> DEFINE arg == req[t].arg
  <2>0. PICK c : c = arg.id
    OBVIOUS
  <2>1. /\ pc[t] = "recordDecision" /\ c \in Pending /\ pc'[t] = "done"
        /\ MayDecide(c, arg.by) /\ req[t].saw = Content(c) /\ uses' = uses
    BY <1>0, <1>14, <2>0, DoneMoves DEF RecordDecision, At, ChangeUnderWay, Changing, registerVars
  <2>2. change' = [change EXCEPT ![c] = [@ EXCEPT !.status   = IF arg.approve THEN "approved" ELSE "rejected",
                                                  !.decider  = arg.by,
                                                  !.approval = IF arg.approve THEN req[t].saw ELSE None]]
    BY <1>14, <2>0, <2>1 DEF RecordDecision
  <2>3. \A d \in DOMAIN change \ {c} : Stays(d)
    BY <2>1, <2>2 DEF Stays, AssetOf
  <2>4. AsApproved(c)'
    BY <1>0, <2>1, <2>2 DEF AsApproved, Pending, MayDecide, Content, AssetOf
  <2>5. ChangesKept'
    BY <1>0, <1>k, <2>2, <2>3, <2>4, StaysApproved
  <2>6. \A s \in Requests \ {t} : pc[s] \in Changing => req[s].arg.id # c
    BY <2>0, <2>1 DEF ChangeInv, ChangesUnderWay, ChangesAlone, Changing
  <2> QED
    BY <1>0, <2>1, <2>2, <2>3, <2>5, <2>6, ChangeEnds
<1>15. CASE ImplementChange(t)
  <2>1. PICK c \in DOMAIN change :
          /\ Once(t, "implementChange", Lock(Write, ChangeRow(c)))
          /\ change' = IF c \in Approved THEN [change EXCEPT ![c].status = "implemented"] ELSE change
    BY <1>15 DEF ImplementChange
  <2>2. uses' = uses /\ pc'[t] = "done"
    BY <1>0, <1>15, <2>1, OnceMoves DEF ImplementChange, registerVars
  <2>3. \A d \in DOMAIN change \ {c} : Stays(d)
    BY <2>1, <2>2 DEF Stays, AssetOf
  <2>4. AsApproved(c)'
    BY <1>0, <2>1, <2>2 DEF AsApproved, Approved, Content, AssetOf
  <2>5. ChangesKept'
    BY <1>0, <1>k, <2>1, <2>3, <2>4, StaysApproved
  <2> QED
    BY <1>0, <2>1, <2>2, <2>3, <2>5, ChangeIsBarred, ChangeEnds
<1>16. CASE CancelChange(t)
  <2>1. PICK c \in DOMAIN change :
          /\ Once(t, "cancelChange", Lock(Write, ChangeRow(c)))
          /\ change' = IF c \in Pending \cup Approved THEN [change EXCEPT ![c].status = "cancelled"] ELSE change
    BY <1>16 DEF CancelChange
  <2>2. uses' = uses /\ pc'[t] = "done"
    BY <1>0, <1>16, <2>1, OnceMoves DEF CancelChange, registerVars
  <2>3. \A d \in DOMAIN change \ {c} : Stays(d)
    BY <2>1, <2>2 DEF Stays, AssetOf
  <2>4. AsApproved(c)'
    BY <1>0, <2>1, <2>2 DEF AsApproved, Content, AssetOf
  <2>5. ChangesKept'
    BY <1>0, <1>k, <2>1, <2>3, <2>4, StaysApproved
  <2> QED
    BY <1>0, <2>1, <2>2, <2>3, <2>5, ChangeIsBarred, ChangeEnds
<1> QED
  BY <1>1, <1>2, <1>3, <1>4, <1>5, <1>6, <1>7, <1>8, <1>9, <1>10, <1>11, <1>12, <1>13, <1>14, <1>15, <1>16
     DEF ChangeStep

(* At first nobody is about to change anything.                            *)
LEMMA ChangesInitial == Init => ChangeInv
<1> SUFFICES ASSUME Init PROVE ChangeInv
  OBVIOUS
<1>1. PICK name \in DOMAIN Plans : change = Plans[name].tables.change /\ uses = Plans[name].tables.uses
  BY DEF Init
<1>2. Requests \cap DOMAIN change = {} /\ ChangesKept
  BY <1>1, ChangesAssumption DEF ChangesKept, ImplementedAsApproved, Content, AssetOf, ChangeRow
<1> QED
  BY <1>2, ShapedInit DEF ChangeInv, ChangesFresh, ChangesUnderWay, ChangeUnderWay, ChangesAlone, Changing

(* What is approved or implemented is what the decision was about, however *)
(* edits, decisions and cancellations of a change overlap.                 *)
THEOREM ChangesAreAsApproved == Spec => []ImplementedAsApproved
<1>1. Init => ChangeInv
  BY ChangesInitial
<1>2. ChangeInv /\ [Next]_vars => ChangeInv'
  BY ChangesSteps, ChangeStepKept, ChangesStand DEF ChangeInv
<1>3. ChangeInv => ImplementedAsApproved
  BY DEF ChangeInv, ChangesKept
<1> QED
  BY <1>1, <1>2, <1>3, PTL DEF Spec

-----------------------------------------------------------------------------
(* Assignments: who is handed an item.                                     *)

(* A step is one of the assignments, or it leaves them alone.              *)
LEMMA WorkSteps ==
  ASSUME Shaped, [Next]_vars
  PROVE  \/ \E t \in Requests : WorkStep(t) /\ Passes(t, WorkPhases)
         \/ UNCHANGED workVars /\ Elsewhere(WorkPhases)
<1>1. ASSUME NEW t \in Requests, Files(t) \/ Register(t) \/ Applications(t) \/ Organisation(t) \/
             Policies(t) \/ ChangeControl(t) \/ Incident(t) \/ Decision(t)
      PROVE  UNCHANGED workVars /\ Elsewhere(WorkPhases)
  BY <1>1, PassesElsewhere, FilesPasses, RegisterPasses, ApplicationsPasses, OrganisationPasses,
    ChartPasses, PoliciesPasses, ChangeControlPasses, IncidentPasses, DecisionPasses DEF WorkPhases,
    Files, Register, Applications, Organisation, Policies, ChangeControl, Incident, Decision, FilesPhases,
    RegisterPhases, ApplicationsPhases, OrganisationPhases, ChartPhases, PoliciesPhases,
    ChangeControlPhases, IncidentPhases, DecisionPhases, workVars
<1>2. ASSUME NEW t \in Requests, Audit(t) \/ Journal(t) \/ Standing(t) \/ Competence(t) \/ Devices(t) \/
             Steps(t) \/ Control(t) \/ Passwords(t)
      PROVE  UNCHANGED workVars /\ Elsewhere(WorkPhases)
  BY <1>2, PassesElsewhere, AuditPasses, JournalPasses, StandingPasses, CompetencePasses, DevicesPasses,
    StepsPasses, ControlPasses, PasswordsPasses DEF WorkPhases, Audit, Journal, Standing, Competence,
    Devices, Steps, Control, Passwords, AuditPhases, JournalPhases, StandingPhases, CompetencePhases,
    DevicesPhases, StepsPhases, ControlPhases, PasswordsPhases, workVars
<1>3. ASSUME NEW t \in Requests, Shared(t)
      PROVE  UNCHANGED workVars /\ Elsewhere(WorkPhases)
  BY <1>3, SharedElsewhere DEF Shared, WorkPhases, workVars
<1>4. ASSUME NEW t \in Requests, Work(t)
      PROVE  WorkStep(t) /\ Passes(t, WorkPhases)
  BY <1>4, WorkPasses DEF Work
<1>5. ASSUME TimePasses \/ Outside \/ Machinery \/ Terminated \/ UNCHANGED vars
      PROVE  UNCHANGED workVars /\ Elsewhere(WorkPhases)
  BY <1>5, RestElsewhere DEF TimePasses, ExpireException, ReviewDayComes, EntryFallsDue, DayPasses,
    DeviationLapses, Outside, PortalChanges, SeedLoads, Machinery, Orchestrator, Terminated, vars,
    workVars
<1> QED
  BY <1>1, <1>2, <1>3, <1>4, <1>5 DEF Next

(* Everybody has a status of their own, none while there is no item, and a *)
(* number of mails.                                                        *)
WorkKept ==
  /\ DOMAIN item = {"status", "target"} /\ DOMAIN assignee = People
  /\ \A u \in People : mails[u] \in Nat
  /\ item.status = "none" => Assignees = {}

(* What a request waits for, and knows of the item and of its person.      *)
WorkUnderWay(t) ==
  /\ pc[t] \in {"saveAssignment", "commitAssignment"} => req[t].op = "saveAssignment" /\ item.status = "none"
  /\ pc[t] \in WorkPhases \ {"saveAssignment", "commitAssignment"} => item.status # "none"
  /\ pc[t] = "addAssignees" => want[t] = AddLocks
  /\ pc[t] = "commitAssignees" => Open /\ Lock(Update, ItemRow) \in held[t]
  /\ pc[t] = "removeAssignee" => want[t] = <<Lock(Update, AssigneeRow(req[t].arg))>>
  /\ pc[t] = "cancelAssignment" => want[t] = <<Lock(Write, ItemRow)>>
  /\ pc[t] = "cancelRows" => Lock(Write, ItemRow) \in held[t]
  /\ pc[t] \in {"updateAssignment", "reportRow", "reportItem"} => req[t].arg.status \in RowStatuses
  /\ pc[t] = "reportRow" => want[t] = <<Lock(Write, AssigneeRow(req[t].arg.user))>>
  /\ pc[t] = "reportItem" =>
       /\ want[t] = <<Lock(Write, ItemRow)>>
       /\ req[t].arg.user \in Assignees /\ Lock(Write, AssigneeRow(req[t].arg.user)) \in held[t]

(* One item is made, and its rows are not added to while it is cancelled.  *)
WorkAlone ==
  \A s, t \in Requests :
    /\ pc[s] \in {"saveAssignment", "commitAssignment"} /\ pc[t] \in {"saveAssignment", "commitAssignment"} => s = t
    /\ ~(pc[s] = "commitAssignees" /\ pc[t] = "cancelRows")

WorkInv == Shaped /\ WorkKept /\ WorkAlone /\ \A t \in Requests : WorkUnderWay(t)

(* What HandedOutWhileOpen says of a step.                                 *)
HandedOut ==
  \A u \in People :
    /\ assignee[u] = "none" /\ assignee'[u] # "none" => Open'
    /\ mails'[u] = mails[u] + (IF assignee[u] = "none" /\ assignee'[u] # "none" THEN 1 ELSE 0)

(* Nobody is handed anything by a step that leaves the rows as they are.   *)
LEMMA NobodyIsHanded ==
  ASSUME WorkInv, UNCHANGED <<assignee, mails>>
  PROVE  HandedOut
<1> SUFFICES ASSUME NEW u \in People PROVE mails[u] = mails[u] + 0
  BY DEF HandedOut
<1> QED
  BY DEF WorkInv, WorkKept

(* What a request knows is still so after a step of another one that       *)
(* leaves alone what it holds.                                             *)
LEMMA WorkStays ==
  ASSUME NEW s \in Requests, WorkUnderWay(s), pc'[s] = pc[s], req'[s] = req[s], held[s] \subseteq held'[s],
         Len(want[s]) <= 1 => want'[s] = want[s],
         item'.status = "none" <=> item.status = "none",
         pc[s] = "commitAssignees" => Open',
         pc[s] = "reportItem" => req[s].arg.user \in Assignees'
  PROVE  WorkUnderWay(s)'
<1>1. \A lock : Len(<<lock>>) <= 1
  OBVIOUS
<1> QED
  BY <1>1 DEF WorkUnderWay, WorkPhases, AddLocks

(* A step of others leaves it too.                                         *)
LEMMA WorkStands ==
  ASSUME WorkInv, Elsewhere(WorkPhases), UNCHANGED workVars
  PROVE  WorkInv' /\ HandedOut
<1>0. Shaped' /\ UNCHANGED <<item, assignee, mails>> /\ Open' = Open /\ Assignees' = Assignees
  BY DEF Elsewhere, workVars, Open, Assignees
<1>1. ASSUME NEW s \in Requests PROVE WorkUnderWay(s)'
  <2>1. CASE pc'[s] \in WorkPhases
    BY <1>0, <2>1, WorkStays DEF WorkInv, WorkUnderWay, Elsewhere
  <2>2. CASE pc'[s] \notin WorkPhases
    BY <2>2 DEF WorkUnderWay, WorkPhases
  <2> QED
    BY <2>1, <2>2
<1>2. WorkAlone'
  BY DEF WorkInv, WorkAlone, Elsewhere, WorkPhases
<1>3. WorkKept'
  BY <1>0 DEF WorkInv, WorkKept
<1> QED
  BY <1>0, <1>1, <1>2, <1>3, NobodyIsHanded DEF WorkInv

(* A request that moves and leaves the item and its rows as they are.      *)
LEMMA WorkMoves ==
  ASSUME WorkInv, NEW t \in Requests, OnlyMoves(t), UNCHANGED workVars, WorkUnderWay(t)',
         pc'[t] \in {"saveAssignment", "commitAssignment"} =>
           \A s \in Requests \ {t} : pc[s] \notin {"saveAssignment", "commitAssignment"},
         pc'[t] = "commitAssignees" => \A s \in Requests \ {t} : pc[s] # "cancelRows",
         pc'[t] = "cancelRows" => \A s \in Requests \ {t} : pc[s] # "commitAssignees"
  PROVE  WorkInv' /\ HandedOut
<1>0. Shaped' /\ UNCHANGED <<item, assignee, mails>> /\ Open' = Open /\ Assignees' = Assignees
  BY DEF OnlyMoves, workVars, Open, Assignees
<1>1. ASSUME NEW s \in Requests \ {t} PROVE WorkUnderWay(s)'
  BY <1>0, WorkStays DEF WorkInv, WorkUnderWay, OnlyMoves
<1>2. WorkAlone'
  BY DEF WorkInv, WorkAlone, OnlyMoves
<1>3. WorkKept'
  BY <1>0 DEF WorkInv, WorkKept
<1> QED
  BY <1>0, <1>1, <1>2, <1>3, NobodyIsHanded DEF WorkInv

(* A request that is done, and has taken nobody's row who is reporting nor *)
(* closed an item that is being handed out.                                *)
LEMMA WorkEnds ==
  ASSUME WorkInv, NEW t \in Requests, OnlyMoves(t), pc'[t] = "done", WorkKept',
         item'.status = "none" => item.status = "none",
         \A s \in Requests \ {t} :
           /\ pc[s] \in {"saveAssignment", "commitAssignment"} => item'.status = "none"
           /\ pc[s] = "commitAssignees" => Open'
           /\ pc[s] = "reportItem" => req[s].arg.user \in Assignees'
  PROVE  WorkInv'
<1>1. ASSUME NEW s \in Requests \ {t} PROVE WorkUnderWay(s)'
  <2>1. CASE pc[s] \in WorkPhases
    <3>1. item'.status = "none" <=> item.status = "none"
      BY <2>1 DEF WorkInv, WorkUnderWay
    <3> QED
      BY <3>1, WorkStays DEF WorkInv, OnlyMoves
  <2>2. CASE pc[s] \notin WorkPhases
    BY <2>2 DEF WorkUnderWay, WorkPhases, OnlyMoves
  <2> QED
    BY <2>1, <2>2
<1>2. WorkUnderWay(t)'
  BY DEF WorkUnderWay, WorkPhases
<1>3. WorkAlone'
  BY DEF WorkInv, WorkAlone, OnlyMoves
<1> QED
  BY <1>1, <1>2, <1>3 DEF WorkInv, OnlyMoves

(* A step of the assignments keeps all, and hands out as it should.        *)
LEMMA WorkStepKept ==
  ASSUME WorkInv, NEW t \in Requests, WorkStep(t), Passes(t, WorkPhases)
  PROVE  WorkInv' /\ HandedOut
<1>0. /\ Shaped /\ WorkKept /\ WorkAlone /\ WorkUnderWay(t) /\ OnlyMoves(t) /\ plan' = plan
      /\ \A s \in Requests : WorkUnderWay(s)
  BY DEF WorkInv, Passes, OnlyMoves
<1>d. ASSUME UNCHANGED workVars, pc'[t] = "done" PROVE WorkInv' /\ HandedOut
  <2>1. WorkUnderWay(t)'
    BY <1>d DEF WorkUnderWay, WorkPhases
  <2> QED
    BY <1>0, <1>d, <2>1, WorkMoves
<1>1. CASE BeginSaveAssignment(t)
  <2>1. PICK arg : Begin(t, "saveAssignment", arg, "saveAssignment", <<>>)
    BY <1>1, Zenon DEF BeginSaveAssignment
  <2>2. UNCHANGED workVars /\ item.status = "none" /\ \A s \in Requests : req[s].op # "saveAssignment"
    BY <1>1 DEF BeginSaveAssignment
  <2>3. pc'[t] = "saveAssignment" /\ req'[t].op = "saveAssignment"
    BY <1>0, <2>1, BeginMoves
  <2>4. WorkUnderWay(t)'
    BY <2>2, <2>3 DEF WorkUnderWay, WorkPhases, workVars
  <2>5. \A s \in Requests : pc[s] \notin {"saveAssignment", "commitAssignment"}
    BY <1>0, <2>2 DEF WorkUnderWay
  <2> QED
    BY <1>0, <2>2, <2>3, <2>4, <2>5, WorkMoves
<1>2. CASE SaveAssignment(t)
  <2>1. pc[t] = "saveAssignment" /\ UNCHANGED workVars /\ (Done(t) \/ Goto(t, "commitAssignment", <<>>, Wanted(t)))
    BY <1>0, <1>2 DEF SaveAssignment, At
  <2>2. CASE Done(t)
    BY <1>0, <1>d, <2>1, <2>2, DoneMoves
  <2>3. CASE Goto(t, "commitAssignment", <<>>, Wanted(t))
    <3>1. pc'[t] = "commitAssignment" /\ req'[t].op = req[t].op
      BY <1>0, <2>3, GotoMoves
    <3>2. WorkUnderWay(t)'
      BY <1>0, <2>1, <3>1 DEF WorkUnderWay, WorkPhases, workVars
    <3>3. \A s \in Requests \ {t} : pc[s] \notin {"saveAssignment", "commitAssignment"}
      BY <1>0, <2>1 DEF WorkAlone
    <3> QED
      BY <1>0, <2>1, <3>1, <3>2, <3>3, WorkMoves
  <2> QED
    BY <2>1, <2>2, <2>3
<1>3. CASE CommitAssignment(t)
  <2>0. PICK users : users = req[t].saw
    OBVIOUS
  <2>1. /\ pc[t] = "commitAssignment" /\ pc'[t] = "done" /\ item.status = "none" /\ Assignees = {}
        /\ item' = [status |-> "requested", target |-> req[t].arg.target] /\ AddRows(users, users)
    BY <1>0, <1>3, <2>0, DoneMoves DEF CommitAssignment, At, Quiet, WorkUnderWay, WorkKept
  <2>2. /\ \A u \in People : assignee[u] = "none"
        /\ DOMAIN assignee' = People
        /\ \A u \in People : /\ assignee'[u] = IF u \in users THEN "requested" ELSE "none"
                             /\ mails'[u] = IF u \in users THEN mails[u] + 1 ELSE mails[u]
    BY <2>1 DEF AddRows, Assignees
  <2>3. Open' /\ item'.status = "requested" /\ DOMAIN item' = {"status", "target"}
    BY <2>1 DEF Open
  <2>4. HandedOut
    BY <1>0, <2>2, <2>3 DEF HandedOut, WorkKept
  <2>5. WorkKept'
    BY <1>0, <2>2, <2>3 DEF WorkKept
  <2>6. \A s \in Requests \ {t} : pc[s] \notin WorkPhases
    BY <1>0, <2>1 DEF WorkUnderWay, WorkAlone, WorkPhases
  <2> QED
    BY <1>0, <2>1, <2>3, <2>4, <2>5, <2>6, WorkEnds DEF WorkPhases
<1>4. CASE BeginAddAssignees(t)
  <2>1. PICK arg : Begin(t, "addAssignees", arg, "addAssignees", AddLocks)
    BY <1>4, Zenon DEF BeginAddAssignees
  <2>2. UNCHANGED workVars /\ item.status # "none"
    BY <1>4 DEF BeginAddAssignees, Open
  <2>3. pc'[t] = "addAssignees" /\ want'[t] = AddLocks
    BY <1>0, <2>1, BeginMoves
  <2>4. WorkUnderWay(t)'
    BY <2>2, <2>3 DEF WorkUnderWay, WorkPhases, workVars, AddLocks
  <2> QED
    BY <1>0, <2>2, <2>3, <2>4, WorkMoves
<1>5. CASE AddAssignees(t)
  <2>1. /\ pc[t] = "addAssignees" /\ Granted(t) /\ want[t] = <<Lock(Update, ItemRow)>> /\ item.status # "none"
        /\ UNCHANGED workVars
    BY <1>0, <1>5 DEF AddAssignees, At, WorkUnderWay, AddLocks, WorkPhases
  <2>2. CASE Done(t)
    BY <1>0, <1>d, <2>1, <2>2, DoneMoves
  <2>3. CASE ~Done(t)
    <3>1. Open /\ \E locks, saw : Goto(t, "commitAssignees", locks, saw)
      BY <1>5, <2>3, Zenon DEF AddAssignees
    <3>2. pc'[t] = "commitAssignees" /\ held'[t] = Taken(t)
      BY <1>0, <3>1, GotoMoves
    <3>3. WorkUnderWay(t)'
      BY <2>1, <3>1, <3>2, RowIsTaken DEF WorkUnderWay, WorkPhases, workVars, Open
    <3>4. \A s \in Requests \ {t} : pc[s] # "cancelRows"
      BY <1>0, <2>1, RowIsHeld DEF WorkUnderWay
    <3> QED
      BY <1>0, <2>1, <3>2, <3>3, <3>4, WorkMoves
  <2> QED
    BY <2>2, <2>3
<1>6. CASE CommitAssignees(t)
  <2>0. PICK users : users = req[t].saw \ Assignees
    OBVIOUS
  <2>1. /\ pc[t] = "commitAssignees" /\ pc'[t] = "done" /\ Open /\ item' = item /\ AddRows(users, users)
    BY <1>0, <1>6, <2>0, DoneMoves DEF CommitAssignees, At, Quiet, WorkUnderWay
  <2>2. /\ DOMAIN assignee' = People
        /\ \A u \in People : /\ assignee'[u] = IF u \in users THEN "requested" ELSE assignee[u]
                             /\ mails'[u] = IF u \in users THEN mails[u] + 1 ELSE mails[u]
                             /\ u \in users => assignee[u] = "none"
    BY <2>0, <2>1 DEF AddRows, Assignees
  <2>3. Open' /\ item'.status # "none" /\ Assignees \subseteq Assignees'
    BY <2>1, <2>2 DEF Open, Assignees
  <2>4. HandedOut
    BY <1>0, <2>2, <2>3 DEF HandedOut, WorkKept
  <2>5. WorkKept'
    BY <1>0, <2>1, <2>2, <2>3 DEF WorkKept
  <2>6. \A s \in Requests : pc[s] = "reportItem" => req[s].arg.user \in Assignees'
    BY <1>0, <2>3 DEF WorkUnderWay
  <2> QED
    BY <1>0, <2>1, <2>3, <2>4, <2>5, <2>6, WorkEnds DEF WorkUnderWay
<1>7. CASE BeginRemoveAssignee(t)
  <2>1. PICK u \in Assignees : Begin(t, "removeAssignee", u, "removeAssignee", <<Lock(Update, AssigneeRow(u))>>)
    BY <1>7 DEF BeginRemoveAssignee
  <2>2. UNCHANGED workVars /\ item.status # "none"
    BY <1>7 DEF BeginRemoveAssignee, Open
  <2>3. pc'[t] = "removeAssignee" /\ req'[t].arg = u /\ want'[t] = <<Lock(Update, AssigneeRow(u))>>
    BY <1>0, <2>1, BeginMoves
  <2>4. WorkUnderWay(t)'
    BY <2>2, <2>3 DEF WorkUnderWay, WorkPhases, workVars
  <2> QED
    BY <1>0, <2>2, <2>3, <2>4, WorkMoves
<1>8. CASE RemoveAssignee(t)
  <2>0. PICK u : u = req[t].arg
    OBVIOUS
  <2>1. /\ pc[t] = "removeAssignee" /\ Granted(t) /\ want[t] = <<Lock(Update, AssigneeRow(u))>>
        /\ pc'[t] = "done" /\ item.status # "none" /\ item' = item /\ mails' = mails
        /\ assignee' = [assignee EXCEPT ![u] = "none"]
    BY <1>0, <1>8, <2>0, DoneMoves DEF RemoveAssignee, At, Quiet, WorkUnderWay, WorkPhases
  <2>2. /\ DOMAIN assignee' = People /\ Open' = Open
        /\ \A v \in People : assignee'[v] = IF v = u THEN "none" ELSE assignee[v]
    BY <1>0, <2>1 DEF WorkKept, Open
  <2>3. HandedOut
    BY <1>0, <2>1, <2>2 DEF HandedOut, WorkKept
  <2>4. WorkKept'
    BY <1>0, <2>1, <2>2 DEF WorkKept
  <2>5. ASSUME NEW s \in Requests \ {t}, pc[s] = "reportItem" PROVE req[s].arg.user \in Assignees'
    <3>1. req[s].arg.user \in Assignees /\ Lock(Write, AssigneeRow(req[s].arg.user)) \in held[s]
      BY <1>0, <2>5 DEF WorkUnderWay
    <3>2. req[s].arg.user # u
      BY <2>1, <3>1, RowIsHeld
    <3> QED
      BY <2>2, <3>1, <3>2 DEF Assignees
  <2> QED
    BY <1>0, <2>1, <2>2, <2>3, <2>4, <2>5, WorkEnds DEF WorkUnderWay
<1>9. CASE BeginCancelAssignment(t)
  <2>1. UNCHANGED workVars /\ item.status # "none"
    BY <1>9 DEF BeginCancelAssignment, Open
  <2>2. pc'[t] = "cancelAssignment" /\ want'[t] = <<Lock(Write, ItemRow)>>
    BY <1>0, <1>9, BeginMoves DEF BeginCancelAssignment
  <2>3. WorkUnderWay(t)'
    BY <2>1, <2>2 DEF WorkUnderWay, WorkPhases, workVars
  <2> QED
    BY <1>0, <2>1, <2>2, <2>3, WorkMoves
<1>10. CASE CancelAssignment(t)
  <2>1. /\ pc[t] = "cancelAssignment" /\ Granted(t) /\ want[t] = <<Lock(Write, ItemRow)>> /\ item.status # "none"
        /\ UNCHANGED workVars
    BY <1>0, <1>10 DEF CancelAssignment, At, WorkUnderWay, WorkPhases
  <2>2. CASE Done(t)
    BY <1>0, <1>d, <2>1, <2>2, DoneMoves
  <2>3. CASE ~Done(t)
    <3>1. \E locks, saw : Goto(t, "cancelRows", locks, saw)
      BY <1>10, <2>3, Zenon DEF CancelAssignment
    <3>2. pc'[t] = "cancelRows" /\ held'[t] = Taken(t)
      BY <1>0, <3>1, GotoMoves
    <3>3. WorkUnderWay(t)'
      BY <2>1, <3>2, RowIsTaken DEF WorkUnderWay, WorkPhases, workVars
    <3>4. \A s \in Requests \ {t} : pc[s] # "commitAssignees"
      BY <1>0, <2>1, RowIsHeld DEF WorkUnderWay
    <3> QED
      BY <1>0, <2>1, <3>2, <3>3, <3>4, WorkMoves
  <2> QED
    BY <2>2, <2>3
<1>11. CASE CancelRows(t)
  <2>0. PICK rows : rows = req[t].saw \cap Unfinished
    OBVIOUS
  <2>1. /\ pc[t] = "cancelRows" /\ pc'[t] = "done" /\ item.status # "none" /\ mails' = mails
        /\ \/ /\ item' = [item EXCEPT !.status = "cancelled"]
              /\ assignee' = [u \in People |-> IF u \in rows THEN "cancelled" ELSE assignee[u]]
           \/ UNCHANGED <<item, assignee>>
    BY <1>0, <1>11, <2>0, DoneMoves DEF CancelRows, At, Quiet, WorkUnderWay, WorkPhases
  <2>2. /\ DOMAIN assignee' = People /\ DOMAIN item' = {"status", "target"} /\ item'.status # "none"
        /\ Assignees' = Assignees
    BY <1>0, <2>0, <2>1 DEF WorkKept, Assignees, Unfinished
  <2>3. HandedOut
    BY <1>0, <2>1, <2>2 DEF HandedOut, WorkKept, Assignees
  <2>4. WorkKept'
    BY <1>0, <2>1, <2>2 DEF WorkKept
  <2>5. \A s \in Requests : pc[s] # "commitAssignees"
    BY <1>0, <2>1 DEF WorkAlone
  <2> QED
    BY <1>0, <2>1, <2>2, <2>3, <2>4, <2>5, WorkEnds DEF WorkUnderWay
<1>12. CASE BeginUpdateAssignment(t)
  <2>1. PICK u \in Assignees, status \in RowStatuses :
          Begin(t, "updateAssignment", [user |-> u, status |-> status], "updateAssignment", <<>>)
    BY <1>12 DEF BeginUpdateAssignment
  <2>2. UNCHANGED workVars /\ item.status # "none"
    BY <1>12 DEF BeginUpdateAssignment, Open
  <2>3. pc'[t] = "updateAssignment" /\ req'[t].arg.status = status
    BY <1>0, <2>1, BeginMoves
  <2>4. WorkUnderWay(t)'
    BY <2>2, <2>3 DEF WorkUnderWay, WorkPhases, workVars
  <2> QED
    BY <1>0, <2>2, <2>3, <2>4, WorkMoves
<1>13. CASE UpdateAssignment(t)
  <2>1. pc[t] = "updateAssignment" /\ item.status # "none" /\ UNCHANGED workVars
    BY <1>0, <1>13 DEF UpdateAssignment, At, WorkUnderWay, WorkPhases
  <2>2. CASE Done(t)
    BY <1>0, <1>d, <2>1, <2>2, DoneMoves
  <2>3. CASE ~Done(t)
    <3>1. /\ pc'[t] = "reportRow" /\ req'[t].arg = req[t].arg
          /\ want'[t] = <<Lock(Write, AssigneeRow(req[t].arg.user))>>
      BY <1>0, <1>13, <2>3, GotoMoves DEF UpdateAssignment
    <3>2. WorkUnderWay(t)'
      BY <1>0, <2>1, <3>1 DEF WorkUnderWay, WorkPhases, workVars
    <3> QED
      BY <1>0, <2>1, <3>1, <3>2, WorkMoves
  <2> QED
    BY <2>2, <2>3
<1>14. CASE ReportRow(t)
  <2>1. /\ pc[t] = "reportRow" /\ want[t] = <<Lock(Write, AssigneeRow(req[t].arg.user))>>
        /\ item.status # "none" /\ UNCHANGED workVars
    BY <1>0, <1>14 DEF ReportRow, At, WorkUnderWay, WorkPhases
  <2>2. CASE Done(t)
    BY <1>0, <1>d, <2>1, <2>2, DoneMoves
  <2>3. CASE ~Done(t)
    <3>1. req[t].arg.user \in Assignees /\ \E saw : Goto(t, "reportItem", <<Lock(Write, ItemRow)>>, saw)
      BY <1>14, <2>3, Zenon DEF ReportRow
    <3>2. /\ pc'[t] = "reportItem" /\ req'[t].arg = req[t].arg /\ held'[t] = Taken(t)
          /\ want'[t] = <<Lock(Write, ItemRow)>>
      BY <1>0, <3>1, GotoMoves
    <3>3. WorkUnderWay(t)'
      BY <1>0, <2>1, <3>1, <3>2, RowIsTaken DEF WorkUnderWay, WorkPhases, workVars, Assignees
    <3> QED
      BY <1>0, <2>1, <3>2, <3>3, WorkMoves
  <2> QED
    BY <2>2, <2>3
<1>15. CASE ReportItem(t)
  <2>0. PICK u, status : u = req[t].arg.user /\ status = req[t].arg.status
    OBVIOUS
  <2>1. /\ pc[t] = "reportItem" /\ Granted(t) /\ want[t] = <<Lock(Write, ItemRow)>>
        /\ u \in Assignees /\ status # "none" /\ item.status # "none" /\ pc'[t] = "done" /\ mails' = mails
    BY <1>0, <1>15, <2>0, DoneMoves
       DEF ReportItem, At, Quiet, WorkUnderWay, WorkPhases, RowStatuses, Finishing
  <2>2. \/ /\ assignee' = [assignee EXCEPT ![u] = status]
           /\ \E to \in {"completed", "in_progress", "submitted", item.status} : item' = [item EXCEPT !.status = to]
        \/ UNCHANGED <<item, assignee>>
    <3>1. CASE UNCHANGED <<item, assignee>>
      BY <3>1
    <3>2. CASE ~UNCHANGED <<item, assignee>>
      <4>1. /\ assignee' = [assignee EXCEPT ![u] = status]
            /\ item' = [item EXCEPT !.status = CASE req[t].saw -> "completed"
                                                 [] ~req[t].saw /\ status \in {"in_progress", "submitted"} -> status
                                                 [] OTHER -> @]
        BY <1>15, <2>0, <3>2 DEF ReportItem
      <4> QED
        BY <4>1
    <3> QED
      BY <3>1, <3>2
  <2>3. /\ DOMAIN assignee' = People /\ DOMAIN item' = {"status", "target"} /\ item'.status # "none"
        /\ Assignees' = Assignees
    BY <1>0, <2>1, <2>2 DEF WorkKept, Assignees
  <2>4. HandedOut
    BY <1>0, <2>1, <2>3 DEF HandedOut, WorkKept, Assignees
  <2>5. WorkKept'
    BY <1>0, <2>1, <2>3 DEF WorkKept
  <2>6. \A s \in Requests \ {t} : pc[s] # "commitAssignees"
    BY <1>0, <2>1, RowIsHeld DEF WorkUnderWay
  <2> QED
    BY <1>0, <2>1, <2>3, <2>4, <2>5, <2>6, WorkEnds DEF WorkUnderWay
<1> QED
  BY <1>1, <1>2, <1>3, <1>4, <1>5, <1>6, <1>7, <1>8, <1>9, <1>10, <1>11, <1>12, <1>13, <1>14, <1>15 DEF WorkStep

(* Nobody is handed an item that was cancelled or is completed, and        *)
(* everybody who is handed one gets one mail about it, however additions,  *)
(* removals, reports and the cancellation overlap.                         *)
THEOREM HandedOutOpen == Spec => HandedOutWhileOpen
<1>1. Init => WorkInv
  <2> SUFFICES ASSUME Init PROVE WorkInv
    OBVIOUS
  <2>1. PICK name \in DOMAIN Plans : item = Plans[name].tables.item /\ assignee = Plans[name].tables.assignee
    BY DEF Init
  <2>2. mails = [u \in People |-> IF assignee[u] = "none" THEN 0 ELSE 1]
    BY DEF Init
  <2>3. WorkKept
    BY <2>1, <2>2, WorkAssumption DEF WorkKept, Assignees
  <2> QED
    BY <2>3, ShapedInit DEF WorkInv, WorkUnderWay, WorkAlone, WorkPhases
<1>2. WorkInv /\ [Next]_vars => WorkInv' /\ HandedOut
  BY WorkSteps, WorkStepKept, WorkStands DEF WorkInv
<1>3. HandedOut => \A u \in People :
        /\ assignee[u] = "none" /\ assignee'[u] # "none" => Open'
        /\ mails'[u] = mails[u] + (IF assignee[u] = "none" /\ assignee'[u] # "none" THEN 1 ELSE 0)
  BY DEF HandedOut
<1> QED
  BY <1>1, <1>2, <1>3, PTL DEF Spec, HandedOutWhileOpen

-----------------------------------------------------------------------------
(* Device control: what is told of an operation.                           *)

(* A step is one of device control or of the orchestrator, or it leaves    *)
(* both alone.                                                             *)
LEMMA ControlSteps ==
  ASSUME Shaped, [Next]_vars
  PROVE  \/ \E t \in Requests : ControlStep(t) /\ Passes(t, ControlPhases)
         \/ Orchestrator /\ Elsewhere(ControlPhases)
         \/ UNCHANGED <<wire, calls, told>> /\ Elsewhere(ControlPhases)
<1>1. ASSUME NEW t \in Requests, Files(t) \/ Register(t) \/ Applications(t) \/ Organisation(t) \/
             Policies(t) \/ Work(t) \/ ChangeControl(t) \/ Incident(t)
      PROVE  UNCHANGED <<wire, calls, told>> /\ Elsewhere(ControlPhases)
  BY <1>1, PassesElsewhere, FilesPasses, RegisterPasses, ApplicationsPasses, OrganisationPasses,
    ChartPasses, PoliciesPasses, WorkPasses, ChangeControlPasses, IncidentPasses DEF ControlPhases, Files,
    Register, Applications, Organisation, Policies, Work, ChangeControl, Incident, FilesPhases,
    RegisterPhases, ApplicationsPhases, OrganisationPhases, ChartPhases, PoliciesPhases, WorkPhases,
    ChangeControlPhases, IncidentPhases, controlVars
<1>2. ASSUME NEW t \in Requests, Decision(t) \/ Audit(t) \/ Journal(t) \/ Standing(t) \/ Competence(t) \/
             Devices(t) \/ Steps(t) \/ Passwords(t)
      PROVE  UNCHANGED <<wire, calls, told>> /\ Elsewhere(ControlPhases)
  BY <1>2, PassesElsewhere, DecisionPasses, AuditPasses, JournalPasses, StandingPasses,
    CompetencePasses, DevicesPasses, StepsPasses, PasswordsPasses DEF ControlPhases, Decision, Audit,
    Journal, Standing, Competence, Devices, Steps, Passwords, DecisionPhases, AuditPhases, JournalPhases,
    StandingPhases, CompetencePhases, DevicesPhases, StepsPhases, PasswordsPhases, controlVars
<1>3. ASSUME NEW t \in Requests, Shared(t)
      PROVE  UNCHANGED <<wire, calls, told>> /\ Elsewhere(ControlPhases)
  BY <1>3, SharedElsewhere DEF Shared, ControlPhases, controlVars
<1>4. ASSUME NEW t \in Requests, Control(t)
      PROVE  ControlStep(t) /\ Passes(t, ControlPhases)
  BY <1>4, ControlPasses DEF Control
<1>5. ASSUME TimePasses \/ Outside \/ Machinery \/ Terminated \/ UNCHANGED vars
      PROVE  (Orchestrator \/ UNCHANGED <<wire, calls, told>>) /\ Elsewhere(ControlPhases)
  BY <1>5, RestElsewhere DEF TimePasses, ExpireException, ReviewDayComes, EntryFallsDue, DayPasses,
    DeviationLapses, Outside, PortalChanges, SeedLoads, Machinery, Orchestrator, Terminated, vars,
    controlVars
<1> QED
  BY <1>1, <1>2, <1>3, <1>4, <1>5 DEF Next

(* The ledger does not know of the request.                                *)
Untouched(t) == t \notin DOMAIN calls /\ \A c \in DOMAIN calls : calls[c].recovery # t

(* Nor is anything of it under way.                                        *)
NoTraceOf(t) == Untouched(t) /\ \A m \in wire : m.from # t

(* What is told of an operation that was not carried out.                  *)
Refusals ==
  {"unauthorized", "bad_request", "not_configured", "http_error", "too_early", "still_running", "not_pending"}

(* Only what somebody closed has a recovery, and its result is settled.    *)
LedgerKept ==
  \A c \in DOMAIN calls :
    /\ DOMAIN calls[c] = {"machine", "result", "recovery"}
    /\ calls[c].recovery # None => calls[c].result = "closed_manually"

(* Whoever posted a message waits for the answer or was told nothing of    *)
(* its outcome, and the answer says what is in the ledger.                 *)
MessageKept(m) ==
  /\ DOMAIN m = {"from", "of", "machine", "answer"} /\ m.from \in Requests
  /\ pc[m.from] \in {"awaitAnswer", "done"}
  /\ told[m.from].text \in {"nothing", "timeout", "network_error"}
  /\ pc[m.from] = "awaitAnswer" => m.of = Of(m.from)
  /\ m.of # m.from => m.of \in DOMAIN calls
  /\ m.answer \in {None, "dispatched", "recovered"} \cup Refusals
  /\ m.answer \in {None} \cup Refusals => Untouched(m.from)
  /\ m.answer = "dispatched" => m.from \in DOMAIN calls
  /\ m.answer = "recovered" => m.of \in DOMAIN calls /\ calls[m.of].recovery = m.from

WireKept ==
  /\ \A m \in wire : MessageKept(m)
  /\ \A m, n \in wire : m.from = n.from => m = n

(* What a request was told, or nothing until it is done.                   *)
ToldKept(t) ==
  /\ pc[t] # "done" => told[t].text = "nothing"
  /\ pc[t] \notin {"awaitAnswer", "done"} => NoTraceOf(t)
  /\ pc[t] \in ControlPhases /\ req[t].op = "recover" => req[t].arg.of \in DOMAIN calls
  /\ told[t].text \in Refusals => NoTraceOf(t)
  /\ told[t].text = "dispatched" => t \in DOMAIN calls
  /\ told[t].text = "recovered" => told[t].of \in DOMAIN calls /\ calls[told[t].of].recovery = t

ControlInv ==
  Shaped /\ LedgerKept /\ WireKept /\ DOMAIN told = Requests /\ \A t \in Requests : ToldKept(t)

(* A step of others leaves all this.                                       *)
LEMMA ControlStands ==
  ASSUME ControlInv, Elsewhere(ControlPhases), UNCHANGED <<wire, calls, told>>
  PROVE  ControlInv'
<1>1. Shaped' /\ LedgerKept' /\ DOMAIN told' = Requests
  BY DEF Elsewhere, ControlInv, LedgerKept
<1>2. \A t : Untouched(t)' = Untouched(t) /\ NoTraceOf(t)' = NoTraceOf(t)
  BY DEF Untouched, NoTraceOf
<1>3. ASSUME NEW m \in wire PROVE MessageKept(m)'
  <2>1. MessageKept(m) /\ m.from \in Requests
    BY DEF ControlInv, WireKept, MessageKept
  <2>2. pc'[m.from] = "awaitAnswer" => pc[m.from] = "awaitAnswer" /\ Of(m.from)' = Of(m.from)
    BY <2>1 DEF Elsewhere, ControlPhases, Of
  <2>3. pc'[m.from] \in {"awaitAnswer", "done"}
    BY <2>1 DEF Elsewhere, ControlPhases, MessageKept
  <2> QED
    BY <1>2, <2>1, <2>2, <2>3 DEF MessageKept
<1>4. ASSUME NEW t \in Requests PROVE ToldKept(t)'
  <2>1. ToldKept(t)
    BY DEF ControlInv
  <2>2. /\ pc'[t] # "done" => pc[t] # "done"
        /\ pc'[t] \notin {"awaitAnswer", "done"} => pc[t] \notin {"awaitAnswer", "done"}
        /\ pc'[t] \in ControlPhases => pc[t] \in ControlPhases /\ req'[t] = req[t]
    BY DEF Elsewhere, ControlPhases
  <2> QED
    BY <1>2, <2>1, <2>2 DEF ToldKept
<1> QED
  BY <1>1, <1>3, <1>4 DEF ControlInv, WireKept

(* A request that moves: nobody else is told anything, and only its own    *)
(* message comes or goes.                                                  *)
LEMMA ControlMoves ==
  ASSUME ControlInv, NEW t \in Requests, OnlyMoves(t), calls' = calls,
         DOMAIN told' = Requests, \A s \in Requests \ {t} : told'[s] = told[s],
         \A m : m.from # t => (m \in wire' <=> m \in wire),
         \A m \in wire' : m.from = t => MessageKept(m)',
         \A m, n \in wire' : m.from = t /\ n.from = t => m = n,
         ToldKept(t)'
  PROVE  ControlInv'
<1>1. Shaped' /\ LedgerKept' /\ \A s : Untouched(s)' = Untouched(s)
  BY DEF OnlyMoves, ControlInv, LedgerKept, Untouched
<1>2. \A s \in Requests \ {t} : NoTraceOf(s) => NoTraceOf(s)'
  BY <1>1 DEF NoTraceOf
<1>3. ASSUME NEW m \in wire', m.from # t PROVE MessageKept(m)'
  <2>1. MessageKept(m) /\ m.from \in Requests \ {t}
    BY <1>3 DEF ControlInv, WireKept, MessageKept
  <2>2. Of(m.from)' = Of(m.from)
    BY <2>1 DEF OnlyMoves, Of
  <2> QED
    BY <1>1, <2>1, <2>2 DEF MessageKept, OnlyMoves
<1>4. ASSUME NEW s \in Requests \ {t} PROVE ToldKept(s)'
  BY <1>2 DEF ControlInv, ToldKept, OnlyMoves
<1>5. WireKept'
  BY <1>3 DEF ControlInv, WireKept
<1> QED
  BY <1>1, <1>4, <1>5 DEF ControlInv

(* The orchestrator answers a message, and its ledger says so; what it     *)
(* said of others it goes on saying.                                       *)
LEMMA LedgerGrows ==
  ASSUME ControlInv, UNCHANGED <<pc, req, held, want, told>>, plan' = plan, LedgerKept',
         NEW m \in wire, m.answer = None,
         NEW answer \in {"dispatched", "recovered"} \cup Refusals, Reply(m, answer),
         DOMAIN calls \subseteq DOMAIN calls',
         \A c \in DOMAIN calls : calls[c].recovery # None => calls'[c].recovery = calls[c].recovery,
         \A s \in Requests \ {m.from} : Untouched(s) => Untouched(s)',
         answer \in Refusals => Untouched(m.from)',
         answer = "dispatched" => m.from \in DOMAIN calls',
         answer = "recovered" => m.of \in DOMAIN calls' /\ calls'[m.of].recovery = m.from
  PROVE  ControlInv'
<1>0. None \notin Requests /\ MessageKept(m) /\ m.from \in Requests
  BY NoneAssumption DEF ControlInv, WireKept, MessageKept
<1>1. PICK reply : reply = [m EXCEPT !.answer = answer]
  OBVIOUS
<1>2. /\ DOMAIN reply = {"from", "of", "machine", "answer"} /\ reply.answer = answer
      /\ reply.from = m.from /\ reply.of = m.of /\ wire' = (wire \ {m}) \cup {reply}
  BY <1>0, <1>1 DEF MessageKept, Reply
<1>3. \A s : Of(s)' = Of(s)
  BY DEF Of
<1>4. MessageKept(reply)'
  BY <1>0, <1>2, <1>3, NoneAssumption DEF MessageKept, Refusals
<1>5. ASSUME NEW n \in wire \ {m} PROVE MessageKept(n)'
  <2>1. MessageKept(n) /\ n.from \in Requests \ {m.from}
    BY DEF ControlInv, WireKept, MessageKept
  <2> QED
    BY <1>0, <1>3, <2>1 DEF MessageKept
<1>6. WireKept'
  BY <1>2, <1>4, <1>5 DEF ControlInv, WireKept
<1>7. \A s \in Requests : NoTraceOf(s) => NoTraceOf(s)'
  BY <1>2 DEF NoTraceOf
<1>8. ASSUME NEW s \in Requests PROVE ToldKept(s)'
  <2>1. ToldKept(s)
    BY DEF ControlInv
  <2> QED
    BY <1>0, <1>7, <2>1 DEF ToldKept
<1>9. Shaped' /\ DOMAIN told' = Requests
  BY DEF ControlInv, Shaped
<1> QED
  BY <1>6, <1>8, <1>9 DEF ControlInv

(* What the page says last, of the operation that the request was about.   *)
LEMMA SaysLast ==
  ASSUME ControlInv, NEW t \in Requests, NEW text, Say(t, text), plan' = plan
  PROVE  /\ pc'[t] = "done" /\ DOMAIN told' = Requests /\ told'[t].text = text /\ told'[t].of = Of(t)
         /\ \A s \in Requests \ {t} : told'[s] = told[s]
BY DoneMoves DEF Say, Told, ControlInv

(* The server actions keep it.                                             *)
LEMMA ControlStepKept ==
  ASSUME ControlInv, NEW t \in Requests, ControlStep(t), Passes(t, ControlPhases)
  PROVE  ControlInv'
<1>0. /\ Shaped /\ ToldKept(t) /\ OnlyMoves(t) /\ plan' = plan /\ DOMAIN told = Requests
      /\ \A m \in wire : MessageKept(m)
      /\ \A m, n \in wire : m.from = n.from => m = n
  BY DEF ControlInv, WireKept, Passes, OnlyMoves
<1>1. ASSUME UNCHANGED <<wire, calls>>, pc[t] \in {"idle", "checkSession", "post"}, DOMAIN told' = Requests,
             \A s \in Requests \ {t} : told'[s] = told[s], NoTraceOf(t) => ToldKept(t)'
      PROVE  ControlInv'
  <2>1. NoTraceOf(t)
    BY <1>0, <1>1 DEF ToldKept
  <2> QED
    BY <1>0, <1>1, <2>1, ControlMoves DEF NoTraceOf
<1>2. NoTraceOf(t) /\ UNCHANGED <<wire, calls>> => NoTraceOf(t)'
  BY DEF NoTraceOf, Untouched
<1>3. CASE BeginDispatch(t)
  <2>1. UNCHANGED <<wire, calls>>
    BY <1>3 DEF BeginDispatch
  <2>2. CASE \E text \in {"unauthorized", "bad_request"} : Refuse(t, "dispatch", text)
    <3>1. PICK text \in {"unauthorized", "bad_request"} : Refuse(t, "dispatch", text)
      BY <2>2
    <3>2. pc[t] = "idle" /\ pc'[t] = "done" /\ told' = [told EXCEPT ![t] = [text |-> text, of |-> t]]
      BY <1>0, <3>1, OnceMoves DEF Refuse, Told
    <3>3. DOMAIN told' = Requests /\ told'[t].text = text /\ \A s \in Requests \ {t} : told'[s] = told[s]
      BY <1>0, <3>2
    <3> QED
      BY <1>1, <1>2, <2>1, <3>2, <3>3 DEF ToldKept, ControlPhases
  <2>3. CASE \E form \in DispatchForms : Begin(t, "dispatch", form, "checkSession", <<>>) /\ UNCHANGED told
    <3>1. pc[t] = "idle" /\ pc'[t] = "checkSession" /\ req'[t].op = "dispatch" /\ UNCHANGED told
      BY <1>0, <2>3, BeginMoves
    <3>2. NoTraceOf(t) => ToldKept(t)'
      BY <1>0, <1>2, <2>1, <3>1 DEF ToldKept
    <3> QED
      BY <1>0, <1>1, <2>1, <3>1, <3>2
  <2> QED
    BY <1>3, <2>2, <2>3, Zenon DEF BeginDispatch
<1>4. CASE BeginRecover(t)
  <2>1. UNCHANGED <<wire, calls>>
    BY <1>4 DEF BeginRecover
  <2>2. CASE \E text \in {"unauthorized", "bad_request"} : Refuse(t, "recover", text)
    <3>1. PICK text \in {"unauthorized", "bad_request"} : Refuse(t, "recover", text)
      BY <2>2
    <3>2. pc[t] = "idle" /\ pc'[t] = "done" /\ told' = [told EXCEPT ![t] = [text |-> text, of |-> t]]
      BY <1>0, <3>1, OnceMoves DEF Refuse, Told
    <3>3. DOMAIN told' = Requests /\ told'[t].text = text /\ \A s \in Requests \ {t} : told'[s] = told[s]
      BY <1>0, <3>2
    <3> QED
      BY <1>1, <1>2, <2>1, <3>2, <3>3 DEF ToldKept, ControlPhases
  <2>3. CASE \E form \in RecoverForms : Begin(t, "recover", form, "checkSession", <<>>) /\ UNCHANGED told
    <3>1. PICK form \in RecoverForms : Begin(t, "recover", form, "checkSession", <<>>) /\ UNCHANGED told
      BY <2>3
    <3>2. pc[t] = "idle" /\ pc'[t] = "checkSession" /\ req'[t].arg = form /\ UNCHANGED told
      BY <1>0, <3>1, BeginMoves
    <3>3. form.of \in DOMAIN calls
      BY DEF RecoverForms, Offered
    <3>4. NoTraceOf(t) => ToldKept(t)'
      BY <1>0, <1>2, <2>1, <3>2, <3>3 DEF ToldKept
    <3> QED
      BY <1>0, <1>1, <2>1, <3>2, <3>4
  <2> QED
    BY <1>4, <2>2, <2>3, Zenon DEF BeginRecover
<1>5. CASE CheckSession(t)
  <2>1. pc[t] = "checkSession" /\ UNCHANGED <<wire, calls>>
    BY <1>5 DEF CheckSession, At
  <2>2. CASE Goto(t, "post", <<>>, None) /\ UNCHANGED told
    <3>1. pc'[t] = "post" /\ req'[t].op = req[t].op /\ req'[t].arg = req[t].arg
      BY <1>0, <2>2, GotoMoves
    <3>2. NoTraceOf(t) => ToldKept(t)'
      BY <1>0, <1>2, <2>1, <2>2, <3>1 DEF ToldKept, ControlPhases
    <3> QED
      BY <1>0, <1>1, <2>1, <2>2, <3>2
  <2>3. CASE Say(t, "not_configured")
    BY <1>0, <1>1, <1>2, <2>1, <2>3, SaysLast DEF ToldKept, ControlPhases
  <2> QED
    BY <1>5, <2>2, <2>3 DEF CheckSession
<1>6. CASE Send(t)
  <2>1. PICK machine : wire' = wire \cup {Post(t, Of(t), machine)}
    BY <1>6, Zenon DEF Send
  <2>2. /\ pc[t] = "post" /\ pc'[t] = "awaitAnswer" /\ req'[t].op = req[t].op /\ req'[t].arg = req[t].arg
        /\ UNCHANGED <<calls, told>>
    BY <1>0, <1>6, GotoMoves DEF Send, At
  <2>3. PICK m : m = Post(t, Of(t), machine)
    OBVIOUS
  <2>4. /\ DOMAIN m = {"from", "of", "machine", "answer"} /\ m.from = t /\ m.of = Of(t) /\ m.answer = None
        /\ wire' = wire \cup {m}
    BY <2>1, <2>3 DEF Post
  <2>5. NoTraceOf(t) /\ Untouched(t)' /\ told[t].text = "nothing"
    BY <1>0, <2>2 DEF ToldKept, NoTraceOf, Untouched
  <2>6. Of(t)' = Of(t) /\ (Of(t) # t => Of(t) \in DOMAIN calls)
    BY <1>0, <2>2 DEF Of, ToldKept, ControlPhases
  <2>7. MessageKept(m)'
    BY <2>2, <2>4, <2>5, <2>6, NoneAssumption DEF MessageKept
  <2>8. ToldKept(t)'
    BY <1>0, <2>2, <2>5 DEF ToldKept, ControlPhases, Refusals
  <2> QED
    BY <1>0, <2>2, <2>4, <2>5, <2>7, <2>8, ControlMoves DEF NoTraceOf
<1>7. CASE Answered(t)
  <2>1. PICK m \in wire : m.from = t /\ m.answer # None /\ wire' = wire \ {m} /\ Say(t, m.answer)
    BY <1>7 DEF Answered
  <2>2. pc[t] = "awaitAnswer" /\ calls' = calls
    BY <1>7 DEF Answered, At
  <2>3. MessageKept(m) /\ m.of = Of(t)
    BY <1>0, <2>1, <2>2 DEF MessageKept
  <2>4. \A n \in wire' : n.from # t
    BY <1>0, <2>1
  <2>5. m.answer \in Refusals => NoTraceOf(t)'
    BY <2>1, <2>2, <2>3, <2>4 DEF MessageKept, NoTraceOf, Untouched
  <2>6. ToldKept(t)'
    BY <1>0, <2>1, <2>2, <2>3, <2>5, SaysLast, NoneAssumption DEF ToldKept, MessageKept, ControlPhases
  <2> QED
    BY <1>0, <2>1, <2>2, <2>4, <2>6, SaysLast, ControlMoves
<1>8. ASSUME pc[t] \in {"post", "awaitAnswer"}, NEW text \in {"timeout", "network_error"}, Say(t, text),
             calls' = calls, wire' \in {wire, {m \in wire : m.from # t}}
      PROVE  ControlInv'
  <2>1. /\ pc'[t] = "done" /\ DOMAIN told' = Requests /\ told'[t].text = text
        /\ \A s \in Requests \ {t} : told'[s] = told[s]
    BY <1>0, <1>8, SaysLast
  <2>2. ToldKept(t)'
    BY <2>1 DEF ToldKept, ControlPhases, Refusals
  <2>3. ASSUME NEW m \in wire', m.from = t PROVE MessageKept(m)'
    BY <1>0, <1>8, <2>1, <2>3 DEF MessageKept, Untouched
  <2>4. \A m : m.from # t => (m \in wire' <=> m \in wire)
    BY <1>8
  <2>5. \A m, n \in wire' : m.from = t /\ n.from = t => m = n
    BY <1>0, <1>8
  <2> QED
    BY <1>0, <1>8, <2>1, <2>2, <2>3, <2>4, <2>5, ControlMoves
<1>9. CASE GiveUp(t)
  BY <1>8, <1>9 DEF GiveUp, AfterAbort, At
<1>10. CASE ConnectionFails(t)
  BY <1>8, <1>10 DEF ConnectionFails, At
<1> QED
  BY <1>3, <1>4, <1>5, <1>6, <1>7, <1>9, <1>10 DEF ControlStep

(* So does what the orchestrator does.                                     *)
LEMMA OrchestratorKept ==
  ASSUME ControlInv, Orchestrator, Elsewhere(ControlPhases)
  PROVE  ControlInv'
<1>0. /\ LedgerKept /\ UNCHANGED <<pc, req, held, want, told>> /\ plan' = plan
      /\ None \notin Requests
      /\ \A m \in wire : MessageKept(m)
  BY NoneAssumption DEF Orchestrator, requestVars, ControlInv, WireKept
<1>1. CASE UNCHANGED <<wire, calls>>
  BY <1>0, <1>1, ControlStands
<1>2. ASSUME NEW m \in wire, TakeDispatch(m) PROVE ControlInv'
  <2>1. m.of = m.from /\ m.answer = None /\ m.from \notin DOMAIN calls /\ m.from \in Requests /\ Untouched(m.from)
    BY <1>0, <1>2 DEF TakeDispatch, MessageKept
  <2>2. CASE Reply(m, "http_error") /\ UNCHANGED calls
    BY <1>0, <2>1, <2>2, LedgerGrows DEF Refusals, LedgerKept, Untouched
  <2>3. CASE /\ calls' = WithRow(calls, m.from, [machine |-> m.machine, result |-> "accepted", recovery |-> None])
             /\ Reply(m, "dispatched")
    <3>1. /\ DOMAIN calls' = DOMAIN calls \cup {m.from}
          /\ calls'[m.from] = [machine |-> m.machine, result |-> "accepted", recovery |-> None]
          /\ \A c \in DOMAIN calls : calls'[c] = calls[c]
      BY <2>1, <2>3 DEF WithRow
    <3>2. LedgerKept'
      BY <1>0, <3>1 DEF LedgerKept
    <3>3. \A s \in Requests \ {m.from} : Untouched(s) => Untouched(s)'
      BY <1>0, <3>1 DEF Untouched
    <3> QED
      BY <1>0, <2>1, <2>3, <3>1, <3>2, <3>3, LedgerGrows DEF Refusals
  <2> QED
    BY <1>2, <2>2, <2>3 DEF TakeDispatch
<1>3. ASSUME NEW m \in wire, TakeRecover(m) PROVE ControlInv'
  <2>1. /\ m.of # m.from /\ m.answer = None /\ m.from \in Requests /\ Untouched(m.from) /\ m.of \in DOMAIN calls
    BY <1>0, <1>3 DEF TakeRecover, MessageKept
  <2>2. CASE UNCHANGED calls /\ \E answer \in Refusals : Reply(m, answer)
    <3>1. PICK answer \in Refusals : Reply(m, answer)
      BY <2>2
    <3>2. LedgerKept' /\ \A s : Untouched(s)' = Untouched(s)
      BY <1>0, <2>2 DEF LedgerKept, Untouched
    <3>3. answer \notin {"dispatched", "recovered"}
      BY DEF Refusals
    <3> QED
      BY <1>0, <2>1, <2>2, <3>1, <3>2, <3>3, LedgerGrows
  <2>3. CASE /\ calls[m.of].result = "unconfirmed"
             /\ calls' = [calls EXCEPT ![m.of].result = "closed_manually", ![m.of].recovery = m.from]
             /\ Reply(m, "recovered")
    <3>1. /\ DOMAIN calls' = DOMAIN calls
          /\ calls'[m.of].recovery = m.from /\ calls'[m.of].result = "closed_manually"
          /\ DOMAIN calls'[m.of] = {"machine", "result", "recovery"}
          /\ \A c \in DOMAIN calls \ {m.of} : calls'[c] = calls[c]
      BY <1>0, <2>1, <2>3 DEF LedgerKept
    <3>2. calls[m.of].recovery = None
      BY <1>0, <2>1, <2>3 DEF LedgerKept
    <3>3. LedgerKept'
      BY <1>0, <3>1 DEF LedgerKept
    <3>4. \A s \in Requests \ {m.from} : Untouched(s) => Untouched(s)'
      BY <1>0, <3>1 DEF Untouched
    <3> QED
      BY <1>0, <2>1, <2>3, <3>1, <3>2, <3>3, <3>4, LedgerGrows DEF Refusals
  <2> QED
    BY <1>3, <2>2, <2>3, Zenon DEF TakeRecover, Refusals
<1>4. CASE MachineReports
  <2>1. PICK c \in DOMAIN calls, r \in Results :
          /\ calls[c].result \in {"accepted", "running", "unconfirmed"}
          /\ calls' = [calls EXCEPT ![c].result = r]
    BY <1>4 DEF MachineReports
  <2>2. /\ DOMAIN calls' = DOMAIN calls
        /\ \A d \in DOMAIN calls : /\ DOMAIN calls'[d] = {"machine", "result", "recovery"}
                                   /\ calls'[d].recovery = calls[d].recovery
                                   /\ d # c => calls'[d].result = calls[d].result
    BY <1>0, <2>1 DEF LedgerKept
  <2>3. LedgerKept'
    BY <1>0, <2>1, <2>2 DEF LedgerKept
  <2>4. /\ \A s : Untouched(s)' = Untouched(s) /\ NoTraceOf(s)' = NoTraceOf(s) /\ Of(s)' = Of(s)
        /\ wire' = wire
    BY <1>0, <1>4, <2>2 DEF Untouched, NoTraceOf, Of, MachineReports
  <2>5. ASSUME NEW m \in wire PROVE MessageKept(m)'
    BY <1>0, <2>2, <2>4 DEF MessageKept
  <2>6. ASSUME NEW s \in Requests PROVE ToldKept(s)'
    BY <1>0, <2>2, <2>4 DEF ToldKept, ControlInv
  <2> QED
    BY <1>0, <2>3, <2>4, <2>5, <2>6 DEF ControlInv, WireKept, Shaped
<1> QED
  BY <1>1, <1>2, <1>3, <1>4 DEF Orchestrator, SessionEnds

(* Nobody is given one of the texts of a refusal, or told that an          *)
(* operation was accepted or closed, when the ledger says otherwise, or    *)
(* still may come to say so (dispatchDeviceControl and                     *)
(* recoverDeviceControlDispatch).  The text of a broken connection is not  *)
(* among them: of it the same is false, as a run shows.                    *)
THEOREM ToldWhatIsKnown == Spec => []ToldOnlyWhatIsKnown
<1>1. Init => ControlInv
  <2> SUFFICES ASSUME Init PROVE ControlInv
    OBVIOUS
  <2>1. wire = {} /\ calls = <<>> /\ told = [t \in Requests |-> [text |-> "nothing", of |-> t]]
    BY DEF Init
  <2>2. Shaped /\ \A t \in Requests : pc[t] = "idle"
    BY ShapedInit
  <2>3. DOMAIN calls = {}
    BY <2>1
  <2>4. LedgerKept /\ WireKept /\ DOMAIN told = Requests
    BY <2>1, <2>3 DEF LedgerKept, WireKept
  <2>5. ASSUME NEW t \in Requests PROVE ToldKept(t)
    BY <2>1, <2>2, <2>3 DEF ToldKept, ControlPhases, NoTraceOf, Untouched, Refusals
  <2> QED
    BY <2>2, <2>4, <2>5 DEF ControlInv
<1>2. ControlInv /\ [Next]_vars => ControlInv'
  BY ControlSteps, ControlStepKept, OrchestratorKept, ControlStands DEF ControlInv
<1>3. ControlInv => ToldOnlyWhatIsKnown
  BY DEF ControlInv, ToldKept, NoTraceOf, Untouched, Refusals, ToldOnlyWhatIsKnown
<1> QED
  BY <1>1, <1>2, <1>3, PTL DEF Spec

-----------------------------------------------------------------------------
(* The password server: when its page says that it can be used.            *)

(* A step is one of the page of the password server, or another.           *)
LEMMA PasswordsSteps ==
  ASSUME Shaped, [Next]_vars
  PROVE  \/ \E t \in Requests : PasswordsStep(t) /\ Passes(t, PasswordsPhases)
         \/ Elsewhere(PasswordsPhases)
<1>1. ASSUME NEW t \in Requests, Files(t) \/ Register(t) \/ Applications(t) \/ Organisation(t) \/
             Policies(t) \/ Work(t) \/ ChangeControl(t) \/ Incident(t)
      PROVE  Elsewhere(PasswordsPhases)
  BY <1>1, PassesElsewhere, FilesPasses, RegisterPasses, ApplicationsPasses, OrganisationPasses,
    ChartPasses, PoliciesPasses, WorkPasses, ChangeControlPasses, IncidentPasses DEF PasswordsPhases,
    Files, Register, Applications, Organisation, Policies, Work, ChangeControl, Incident, FilesPhases,
    RegisterPhases, ApplicationsPhases, OrganisationPhases, ChartPhases, PoliciesPhases, WorkPhases,
    ChangeControlPhases, IncidentPhases
<1>2. ASSUME NEW t \in Requests, Decision(t) \/ Audit(t) \/ Journal(t) \/ Standing(t) \/ Competence(t) \/
             Devices(t) \/ Steps(t) \/ Control(t)
      PROVE  Elsewhere(PasswordsPhases)
  BY <1>2, PassesElsewhere, DecisionPasses, AuditPasses, JournalPasses, StandingPasses,
    CompetencePasses, DevicesPasses, StepsPasses, ControlPasses DEF PasswordsPhases, Decision, Audit,
    Journal, Standing, Competence, Devices, Steps, Control, DecisionPhases, AuditPhases, JournalPhases,
    StandingPhases, CompetencePhases, DevicesPhases, StepsPhases, ControlPhases
<1>3. ASSUME NEW t \in Requests, Shared(t)
      PROVE  Elsewhere(PasswordsPhases)
  BY <1>3, SharedElsewhere DEF Shared, PasswordsPhases
<1>4. ASSUME NEW t \in Requests, Passwords(t)
      PROVE  PasswordsStep(t) /\ Passes(t, PasswordsPhases)
  BY <1>4, PasswordsPasses DEF Passwords
<1>5. ASSUME TimePasses \/ Outside \/ Machinery \/ Terminated \/ UNCHANGED vars
      PROVE  Elsewhere(PasswordsPhases)
  BY <1>5, RestElsewhere DEF TimePasses, ExpireException, ReviewDayComes, EntryFallsDue, DayPasses,
    DeviationLapses, Outside, PortalChanges, SeedLoads, Machinery, Orchestrator, Terminated, vars
<1> QED
  BY <1>1, <1>2, <1>3, <1>4, <1>5 DEF Next

(* The release of the derived server is not fixed, and no evidence is of   *)
(* a release that is not.                                                  *)
LEMMA NotCutOver ==
  ASSUME NEW ev
  PROVE  ~cutoverEvidenceMatches(Derived, ev)
BY DEF cutoverEvidenceMatches, PASSWORD_MANAGER_PRODUCTS, IB_PASSWORD_RELEASE_LOCK, Derived, Vanilla

(* A page is asked for in an environment of the deployment; a name is      *)
(* looked up only for a server that may be used, and what is asked and     *)
(* shown as available is as public as the deployment wants it.             *)
PageKept(t) ==
  LET env == req[t].arg
      saw == req[t].saw
  IN  /\ pc[t] \in PasswordsPhases \ {"showPasswords"} => env \in Plan.environments
      /\ pc[t] \in {"resolveHost", "askServer"} => allowedProduct(env.product) # Derived
      /\ pc[t] = "askServer" => env.allowPrivate \/ isPublicIpAddress(saw.address)
      /\ pc[t] = "showPasswords" =>
           /\ saw.state = "available" => saw.allowPrivate \/ isPublicIpAddress(saw.address)
           /\ saw.product = Derived => saw.state # "available" /\ ~saw.cutoverReady

PasswordsInv == Shaped /\ \A t \in Requests : PageKept(t)

(* Other screens leave the pages as they are.                              *)
LEMMA PagesStand ==
  ASSUME PasswordsInv, Elsewhere(PasswordsPhases)
  PROVE  PasswordsInv'
<1>1. ASSUME NEW t \in Requests PROVE PageKept(t)'
  <2>1. PageKept(t)
    BY DEF PasswordsInv
  <2>2. /\ pc'[t] \in PasswordsPhases => pc'[t] = pc[t] /\ req'[t] = req[t]
        /\ Plan' = Plan
    BY DEF Elsewhere, Plan
  <2> QED
    BY <2>1, <2>2 DEF PageKept, PasswordsPhases
<1> QED
  BY <1>1 DEF PasswordsInv, Elsewhere

(* A page is shown with what it has seen.                                  *)
LEMMA PageShown ==
  ASSUME Shaped, NEW t \in Requests, plan' = plan, NEW ev, NEW ready, NEW state, NEW address,
         Goto(t, "showPasswords", <<>>, Seen(req[t].arg, ev, ready, state, address)),
         ready => allowedProduct(req[t].arg.product) # Derived,
         state = "available" => /\ req[t].arg.allowPrivate \/ isPublicIpAddress(address)
                                /\ allowedProduct(req[t].arg.product) # Derived
  PROVE  PageKept(t)'
<1>1. PICK saw : saw = Seen(req[t].arg, ev, ready, state, address)
  OBVIOUS
<1>2. pc'[t] = "showPasswords" /\ req'[t].saw = saw
  BY <1>1, GotoMoves
<1>3. /\ saw.product = allowedProduct(req[t].arg.product) /\ saw.state = state /\ saw.cutoverReady = ready
      /\ saw.allowPrivate = req[t].arg.allowPrivate /\ saw.address = address
  BY <1>1 DEF Seen
<1> QED
  BY <1>2, <1>3 DEF PageKept, PasswordsPhases

(* Show says so only of evidence that matches.                             *)
LEMMA PageTold ==
  ASSUME Shaped, NEW t \in Requests, plan' = plan, NEW ev, NEW state, NEW address, Show(t, ev, state, address),
         state = "available" => /\ req[t].arg.allowPrivate \/ isPublicIpAddress(address)
                                /\ allowedProduct(req[t].arg.product) # Derived
  PROVE  PageKept(t)'
<1>1. PICK ready : ready = cutoverEvidenceMatches(allowedProduct(req[t].arg.product), ev)
  OBVIOUS
<1>2. Goto(t, "showPasswords", <<>>, Seen(req[t].arg, ev, ready, state, address))
  BY <1>1 DEF Show
<1>3. ready => allowedProduct(req[t].arg.product) # Derived
  BY <1>1, NotCutOver
<1> QED
  BY <1>2, <1>3, PageShown, Zenon

(* What follows from the configuration shows no server as available.       *)
LEMMA PageExamined ==
  ASSUME PasswordsInv, NEW t \in Requests, plan' = plan, NEW ev, Examine(t, ev), req[t].arg \in Plan.environments
  PROVE  PageKept(t)'
<1>1. CASE \E state \in {"invalid_config", "unconfigured", "configured"} : Show(t, ev, state, None)
  BY <1>1, PageTold DEF PasswordsInv
<1>2. CASE Goto(t, "resolveHost", <<>>, ev) /\ cutoverEvidenceMatches(allowedProduct(req[t].arg.product), ev)
  <2>1. pc'[t] = "resolveHost" /\ req'[t].arg = req[t].arg /\ Plan' = Plan
    BY <1>2, GotoMoves DEF PasswordsInv, Plan
  <2>2. allowedProduct(req[t].arg.product) # Derived
    BY <1>2, NotCutOver
  <2> QED
    BY <2>1, <2>2 DEF PageKept, PasswordsPhases
<1> QED
  BY <1>1, <1>2, Zenon DEF Examine

(* The page of the password server keeps it.                               *)
LEMMA PasswordsStepKept ==
  ASSUME PasswordsInv, NEW t \in Requests, PasswordsStep(t), Passes(t, PasswordsPhases)
  PROVE  PasswordsInv'
<1>0. Shaped /\ PageKept(t) /\ OnlyMoves(t) /\ plan' = plan /\ Plan' = Plan /\ plan.name \in DOMAIN Plans
  BY DEF PasswordsInv, Passes, OnlyMoves, Plan, Shaped
<1>1. SUFFICES PageKept(t)'
  BY <1>0 DEF PasswordsInv, PageKept, OnlyMoves
<1>2. CASE BeginPasswords(t)
  <2>1. PICK env \in Plan.environments :
          \E phase \in {"readStatusFile", "examineConfig"} : Begin(t, "passwords", env, phase, <<>>)
    BY <1>2 DEF BeginPasswords
  <2>2. pc'[t] \in {"readStatusFile", "examineConfig"} /\ req'[t].arg = env
    BY <1>0, <2>1, BeginMoves
  <2> QED
    BY <1>0, <2>2 DEF PageKept
<1>3. CASE ExamineConfig(t)
  BY <1>0, <1>3, PageExamined DEF ExamineConfig, At, PageKept, PasswordsPhases
<1>4. CASE ReadStatusFile(t)
  <2>1. req[t].arg \in Plan.environments
    BY <1>0, <1>4 DEF ReadStatusFile, At, PageKept, PasswordsPhases
  <2>2. \/ \E ev : Examine(t, ev)
        \/ \E ev : Goto(t, "showPasswords", <<>>, Seen(req[t].arg, ev, FALSE, "invalid_config", None))
    BY <1>4, Zenon DEF ReadStatusFile
  <2> QED
    BY <1>0, <2>1, <2>2, PageExamined, PageShown
<1>5. CASE ResolveHost(t)
  <2>1. /\ pc[t] = "resolveHost" /\ req[t].arg \in Plan.environments /\ req[t].arg.allowPrivate \in BOOLEAN
        /\ allowedProduct(req[t].arg.product) # Derived
    BY <1>0, <1>5, PasswordsAssumption DEF ResolveHost, At, PageKept, PasswordsPhases, Plan
  <2>2. CASE Show(t, req[t].saw, "unavailable", None)
    BY <1>0, <2>2, PageTold
  <2>3. CASE ~Show(t, req[t].saw, "unavailable", None)
    <3>1. PICK addresses \in Plan.lookups :
            /\ addresses # <<>>
            /\ req[t].arg.allowPrivate \/ \A i \in DOMAIN addresses : isPublicIpAddress(addresses[i])
            /\ Goto(t, "askServer", <<>>, [evidence |-> req[t].saw, address |-> addresses[1]])
      BY <1>5, <2>3, Zenon DEF ResolveHost
    <3>2. req[t].arg.allowPrivate \/ isPublicIpAddress(addresses[1])
      BY <1>0, <3>1, PasswordsAssumption DEF Plan
    <3>3. /\ pc'[t] = "askServer" /\ req'[t].arg = req[t].arg
          /\ req'[t].saw = [evidence |-> req[t].saw, address |-> addresses[1]]
      BY <1>0, <3>1, GotoMoves
    <3> QED
      BY <1>0, <2>1, <3>2, <3>3 DEF PageKept
  <2> QED
    BY <2>2, <2>3
<1>6. CASE AskServer(t)
  <2>1. /\ allowedProduct(req[t].arg.product) # Derived
        /\ req[t].arg.allowPrivate \/ isPublicIpAddress(req[t].saw.address)
    BY <1>0, <1>6 DEF AskServer, At, PageKept
  <2>2. PICK state : Show(t, req[t].saw.evidence, state, req[t].saw.address)
    BY <1>6 DEF AskServer
  <2> QED
    BY <1>0, <2>1, <2>2, PageTold
<1>7. CASE LeavePasswords(t)
  BY <1>0, <1>7, DoneMoves DEF LeavePasswords, PageKept, PasswordsPhases
<1> QED
  BY <1>2, <1>3, <1>4, <1>5, <1>6, <1>7 DEF PasswordsStep

(* The page says that the server can be used only of an address that the   *)
(* deployment allows, and of the derived server only with the evidence of  *)
(* a fixed release, which no status file can stand in for                  *)
(* (getPasswordManagerStatus).                                             *)
THEOREM AvailableOnEvidence == Spec => []AvailableAsEvidenced
<1>1. Init => PasswordsInv
  BY ShapedInit DEF PasswordsInv, PageKept, PasswordsPhases
<1>2. PasswordsInv /\ [Next]_vars => PasswordsInv'
  BY PasswordsSteps, PasswordsStepKept, PagesStand DEF PasswordsInv
<1>3. PasswordsInv => AvailableAsEvidenced
  BY DEF PasswordsInv, PageKept, AvailableAsEvidenced
<1> QED
  BY <1>1, <1>2, <1>3, PTL DEF Spec

-----------------------------------------------------------------------------
(* The page of the steps: what is missing never flatters it.               *)

(* A step is one of the page of the steps, the seed loader, or it leaves   *)
(* the catalogue alone.                                                    *)
LEMMA CatalogueSteps ==
  ASSUME Shaped, [Next]_vars
  PROVE  \/ \E t \in Requests : StepPageStep(t) /\ Passes(t, StepsPhases)
         \/ SeedLoads /\ Elsewhere(StepsPhases)
         \/ UNCHANGED catalogue /\ Elsewhere(StepsPhases)
<1>1. ASSUME NEW t \in Requests, Files(t) \/ Register(t) \/ Applications(t) \/ Organisation(t) \/
             Policies(t) \/ Work(t) \/ ChangeControl(t) \/ Incident(t)
      PROVE  UNCHANGED catalogue /\ Elsewhere(StepsPhases)
  BY <1>1, PassesElsewhere, FilesPasses, RegisterPasses, ApplicationsPasses, OrganisationPasses,
    ChartPasses, PoliciesPasses, WorkPasses, ChangeControlPasses, IncidentPasses DEF StepsPhases, Files,
    Register, Applications, Organisation, Policies, Work, ChangeControl, Incident, FilesPhases,
    RegisterPhases, ApplicationsPhases, OrganisationPhases, ChartPhases, PoliciesPhases, WorkPhases,
    ChangeControlPhases, IncidentPhases
<1>2. ASSUME NEW t \in Requests, Decision(t) \/ Audit(t) \/ Journal(t) \/ Standing(t) \/ Competence(t) \/
             Devices(t) \/ Control(t) \/ Passwords(t)
      PROVE  UNCHANGED catalogue /\ Elsewhere(StepsPhases)
  BY <1>2, PassesElsewhere, DecisionPasses, AuditPasses, JournalPasses, StandingPasses,
    CompetencePasses, DevicesPasses, ControlPasses, PasswordsPasses DEF StepsPhases, Decision, Audit,
    Journal, Standing, Competence, Devices, Control, Passwords, DecisionPhases, AuditPhases,
    JournalPhases, StandingPhases, CompetencePhases, DevicesPhases, ControlPhases, PasswordsPhases
<1>3. ASSUME NEW t \in Requests, Shared(t)
      PROVE  UNCHANGED catalogue /\ Elsewhere(StepsPhases)
  BY <1>3, SharedElsewhere DEF Shared, StepsPhases
<1>4. ASSUME NEW t \in Requests, Steps(t)
      PROVE  StepPageStep(t) /\ Passes(t, StepsPhases)
  BY <1>4, StepsPasses DEF Steps
<1>5. ASSUME TimePasses \/ Outside \/ Machinery \/ Terminated \/ UNCHANGED vars
      PROVE  (SeedLoads \/ UNCHANGED catalogue) /\ Elsewhere(StepsPhases)
  BY <1>5, RestElsewhere DEF TimePasses, ExpireException, ReviewDayComes, EntryFallsDue, DayPasses,
    DeviationLapses, Outside, PortalChanges, SeedLoads, Machinery, Orchestrator, Terminated, vars
<1> QED
  BY <1>1, <1>2, <1>3, <1>4, <1>5 DEF Next

RegisterKeys ==
  {"assets", "risks", "trainings", "approvedPolicyVersions", "roleAssignments", "tenantPolicies", "audits",
   "auditFindings", "correctiveActions", "managementReviews", "securityObjectives", "controlEffectiveness",
   "contextIssues", "interestedParties", "legalRequirements", "continuityPlans", "continuityTests",
   "vulnerabilities", "changeRequests"} \cup OtherKeys

(* A tool is looked for under keys that are counted.                       *)
Sourced(source) ==
  /\ source.kind \in {"count", "policies", "calendar", "roles", "annexA", "verifiedCheckRuns", "register"}
  /\ source.kind = "count" => TheKey(source) \in CountKeys
  /\ source.kind = "register" => TheKey(source) \in RegisterKeys

(* A tool that counts has a key that is counted,                           *)
LEMMA CountSourced ==
  ASSUME NEW key \in CountKeys
  PROVE  Sourced(Count(key))
<1>1. TheKey(Count(key)) = key
  BY DEF TheKey, Count, From
<1> QED
  BY <1>1 DEF Sourced, Count, From

(* one of a register has a key of the registers,                           *)
LEMMA RegisterSourced ==
  ASSUME NEW key \in RegisterKeys
  PROVE  Sourced(InRegister(key))
<1>1. TheKey(InRegister(key)) = key
  BY DEF TheKey, InRegister, From
<1> QED
  BY <1>1 DEF Sourced, InRegister, From

(* and the others need none.                                               *)
LEMMA OtherSourced ==
  ASSUME NEW kind \in {"policies", "calendar", "roles", "annexA", "verifiedCheckRuns"}, NEW keys
  PROVE  Sourced(From(kind, keys))
BY DEF Sourced, From

(* So is every tool of the twelve steps.                                   *)
LEMMA StepsAreSourced ==
  ASSUME NEW i \in DOMAIN ISO_STEPS, NEW tool \in ISO_STEPS[i].tools
  PROVE  Sourced(tool.source)
<1> USE CountSourced, RegisterSourced, OtherSourced DEF Step, Needs, Helps, CountKeys, RegisterKeys, OtherKeys
<1>1. CASE i = 1  BY <1>1 DEF ISO_STEPS, StepScope
<1>2. CASE i = 2  BY <1>2 DEF ISO_STEPS, StepPolicy
<1>3. CASE i = 3  BY <1>3 DEF ISO_STEPS, StepAssets
<1>4. CASE i = 4  BY <1>4 DEF ISO_STEPS, StepRiskAssessment
<1>5. CASE i = 5  BY <1>5 DEF ISO_STEPS, StepSoa
<1>6. CASE i = 6  BY <1>6 DEF ISO_STEPS, StepDocuments
<1>7. CASE i = 7  BY <1>7 DEF ISO_STEPS, StepTraining
<1>8. CASE i = 8  BY <1>8 DEF ISO_STEPS, StepOperate
<1>9. CASE i = 9  BY <1>9 DEF ISO_STEPS, StepMonitor
<1>10. CASE i = 10  BY <1>10 DEF ISO_STEPS, StepAudit
<1>11. CASE i = 11  BY <1>11 DEF ISO_STEPS, StepManagementReview
<1>12. CASE i = 12  BY <1>12 DEF ISO_STEPS, StepImprove
<1> QED
  <2>1. DOMAIN ISO_STEPS = 1..12
    BY DEF ISO_STEPS
  <2> QED
    BY <1>1, <1>2, <1>3, <1>4, <1>5, <1>6, <1>7, <1>8, <1>9, <1>10, <1>11, <1>12, <2>1

-----------------------------------------------------------------------------
(* What a page has read by then.                                           *)
ReadRight(facts) ==
  /\ DOMAIN facts \subseteq Facts
  /\ WellCounted(facts)
  /\ "registers" \in DOMAIN facts => facts.registers = Unread \/ RegisterKeys \subseteq DOMAIN facts.registers

(* A number that is less, or could not be read.                            *)
LessOf(m, n) == m \in {n, 0, Unread}

(* Facts in which nothing is better than in others.                        *)
NotBetter(less, facts) ==
  /\ \A k \in CountKeys : LessOf(less.counts[k], facts.counts[k])
  /\ DOMAIN less.policyBodies \subseteq DOMAIN facts.policyBodies
  /\ \A k \in DOMAIN less.policyBodies : less.policyBodies[k] => facts.policyBodies[k]
  /\ less.calendarKeys \subseteq facts.calendarKeys
  /\ less.roleKeys \subseteq facts.roleKeys
  /\ AnnexAShape(less.annexA.total, less.annexA.wellFormed) = "present" =>
       AnnexAShape(facts.annexA.total, facts.annexA.wellFormed) = "present"
  /\ LessOf(less.verifiedCheckRuns, facts.verifiedCheckRuns)
  /\ less.registers # Unread =>
       /\ facts.registers # Unread
       /\ \A k \in RegisterKeys : LessOf(less.registers[k], facts.registers[k])

(* What is less is not better.                                             *)
LEMMA LessIsNotBetter ==
  ASSUME NEW facts, DOMAIN facts = Facts, ReadRight(facts), NEW less \in Less(facts)
  PROVE  NotBetter(less, facts)
<1> USE DEF Facts
<1>1. CASE \E k \in DOMAIN facts.counts, n \in {0, Unread} : less = [facts EXCEPT !.counts[k] = n]
  <2>1. PICK k \in DOMAIN facts.counts, n \in {0, Unread} : less = [facts EXCEPT !.counts[k] = n]
    BY <1>1
  <2>2. \A c \in CountKeys : less.counts[c] = IF c = k THEN n ELSE facts.counts[c]
    BY <2>1 DEF ReadRight, WellCounted
  <2>3. /\ less.policyBodies = facts.policyBodies /\ less.calendarKeys = facts.calendarKeys
        /\ less.roleKeys = facts.roleKeys /\ less.annexA = facts.annexA
        /\ less.verifiedCheckRuns = facts.verifiedCheckRuns /\ less.registers = facts.registers
    BY <2>1
  <2> QED
    BY <2>1, <2>2, <2>3 DEF NotBetter, LessOf
<1>2. CASE \/ \E k \in DOMAIN facts.policyBodies :
                less = [facts EXCEPT !.policyBodies = Restrict(facts.policyBodies, DOMAIN facts.policyBodies \ {k})]
           \/ \E k \in DOMAIN facts.policyBodies : less = [facts EXCEPT !.policyBodies[k] = FALSE]
  <2>1. /\ less.counts = facts.counts /\ less.calendarKeys = facts.calendarKeys
        /\ less.roleKeys = facts.roleKeys /\ less.annexA = facts.annexA
        /\ less.verifiedCheckRuns = facts.verifiedCheckRuns /\ less.registers = facts.registers
    BY <1>2
  <2>2. /\ DOMAIN less.policyBodies \subseteq DOMAIN facts.policyBodies
        /\ \A k \in DOMAIN less.policyBodies : less.policyBodies[k] \in {facts.policyBodies[k], FALSE}
    BY <1>2 DEF Restrict
  <2> QED
    BY <2>1, <2>2 DEF NotBetter, LessOf
<1>3. CASE \/ \E k \in facts.calendarKeys : less = [facts EXCEPT !.calendarKeys = facts.calendarKeys \ {k}]
           \/ \E k \in facts.roleKeys : less = [facts EXCEPT !.roleKeys = facts.roleKeys \ {k}]
           \/ \E n \in {0, Unread} : less = [facts EXCEPT !.verifiedCheckRuns = n]
           \/ less = [facts EXCEPT !.registers = Unread]
  BY <1>3 DEF NotBetter, LessOf
<1>4. CASE \E shape \in {[total |-> 0, wellFormed |-> 0], [facts.annexA EXCEPT !.total = Unread],
                         [facts.annexA EXCEPT !.total = @ + 1]} : less = [facts EXCEPT !.annexA = shape]
  <2>1. PICK shape \in {[total |-> 0, wellFormed |-> 0], [facts.annexA EXCEPT !.total = Unread],
                        [facts.annexA EXCEPT !.total = @ + 1]} : less = [facts EXCEPT !.annexA = shape]
    BY <1>4
  <2>2. AnnexAShape(shape.total, shape.wellFormed) # "present"
    BY <2>1 DEF AnnexAShape, ReadRight, WellCounted
  <2> QED
    BY <2>1, <2>2 DEF NotBetter, LessOf
<1>5. CASE /\ facts.registers # Unread
           /\ \E k \in DOMAIN facts.registers, n \in {0, Unread} : less = [facts EXCEPT !.registers[k] = n]
  <2>1. PICK k \in DOMAIN facts.registers, n \in {0, Unread} : less = [facts EXCEPT !.registers[k] = n]
    BY <1>5
  <2>2. \A c \in RegisterKeys : less.registers[c] = IF c = k THEN n ELSE facts.registers[c]
    BY <1>5, <2>1 DEF ReadRight
  <2>3. /\ less.policyBodies = facts.policyBodies /\ less.calendarKeys = facts.calendarKeys
        /\ less.roleKeys = facts.roleKeys /\ less.annexA = facts.annexA
        /\ less.verifiedCheckRuns = facts.verifiedCheckRuns /\ less.counts = facts.counts
    BY <2>1
  <2> QED
    BY <1>5, <2>1, <2>2, <2>3 DEF NotBetter, LessOf
<1> QED
  BY <1>1, <1>2, <1>3, <1>4, <1>5 DEF Less

(* A tool that is there by such facts is there by the better ones.         *)
LEMMA ToolIsThere ==
  ASSUME NEW facts, NEW less, NotBetter(less, facts), NEW source, Sourced(source),
         resolveTool(source, less) = "present"
  PROVE  resolveTool(source, facts) = "present"
<1> USE DEF resolveTool, NotBetter
<1>1. CASE source.kind = "count"
  BY <1>1 DEF Sourced, LessOf, Counted
<1>2. CASE source.kind = "policies"
  BY <1>2 DEF PoliciesReady, Substantive
<1>3. CASE source.kind \in {"calendar", "roles"}
  BY <1>3 DEF Listed
<1>4. CASE source.kind = "annexA"
  BY <1>4
<1>5. CASE source.kind = "verifiedCheckRuns"
  BY <1>5 DEF LessOf, Counted
<1>6. CASE source.kind = "register"
  BY <1>6 DEF Sourced, LessOf, Counted
<1> QED
  BY <1>1, <1>2, <1>3, <1>4, <1>5, <1>6 DEF Sourced

(* So the step does not look better.                                       *)
LEMMA StepIsNotBetter ==
  ASSUME NEW facts, NEW less, NotBetter(less, facts), NEW step, \A tool \in step.tools : Sourced(tool.source)
  PROVE  Rank(assessStep(step, less)) <= Rank(assessStep(step, facts))
<1>1. \A tool \in step.tools :
        resolveTool(tool.source, less) = "present" => resolveTool(tool.source, facts) = "present"
  BY ToolIsThere
<1>2. missingRequired(step, facts) \subseteq missingRequired(step, less)
  BY <1>1 DEF missingRequired
<1>3. missingRequired(step, less) \subseteq {tool \in step.tools : tool.required}
  BY DEF missingRequired
<1>4. \A role : Ready(step, role, less) => Ready(step, role, facts)
  BY <1>1 DEF Ready
<1>5. CASE assessStep(step, less) = "none"
  BY <1>5 DEF assessStep, Rank
<1>6. CASE assessStep(step, less) # "none"
  <2>1. missingRequired(step, less) # {tool \in step.tools : tool.required}
    BY <1>6 DEF assessStep
  <2>2. missingRequired(step, facts) # {tool \in step.tools : tool.required}
    BY <1>2, <1>3, <2>1
  <2> QED
    BY <1>4, <2>1, <2>2 DEF assessStep, Rank
<1> QED
  BY <1>5, <1>6

-----------------------------------------------------------------------------
(* What a page has read so far; it is shown with every fact.               *)
StepsKept(t) ==
  /\ pc[t] \in StepsPhases => "stepPage" \in plan.ops
  /\ pc[t] = "readFacts" => ReadRight(Known(t))
  /\ pc[t] = "showSteps" => DOMAIN req[t].saw = Facts /\ ReadRight(req[t].saw)

(* The catalogue has every fact but those of the registers.                *)
CatalogueKept ==
  "stepPage" \in plan.ops => Facts \ {"registers"} \subseteq DOMAIN catalogue /\ WellCounted(catalogue)

PlanKept == Shaped /\ plan.ops = Plan.ops

StepsInv == PlanKept /\ CatalogueKept /\ \A t \in Requests : StepsKept(t)

(* Other screens leave the page as it is.                                  *)
LEMMA StepsStand ==
  ASSUME StepsInv, Elsewhere(StepsPhases), CatalogueKept'
  PROVE  StepsInv'
<1>1. ASSUME NEW t \in Requests PROVE StepsKept(t)'
  <2>1. StepsKept(t)
    BY DEF StepsInv
  <2>2. /\ pc'[t] \in StepsPhases => pc'[t] = pc[t] /\ req'[t] = req[t]
        /\ plan' = plan
    BY DEF Elsewhere
  <2> QED
    BY <2>1, <2>2 DEF StepsKept, StepsPhases, Known
<1>2. PlanKept'
  BY DEF StepsInv, PlanKept, Elsewhere, Plan
<1> QED
  BY <1>1, <1>2 DEF StepsInv

(* The loader adds to the catalogue what is counted right.                 *)
LEMMA SeedsKept ==
  ASSUME StepsInv, SeedLoads
  PROVE  CatalogueKept'
<1>1. PICK seed \in Plan.seeds : catalogue' = Over(seed, catalogue)
  BY DEF SeedLoads
<1>2. plan' = plan /\ "stepPage" \in Plan.ops /\ plan.name \in DOMAIN Plans
  BY DEF SeedLoads, StepsInv, PlanKept, Shaped
<1>3. WellCounted(seed) /\ Facts \ {"registers"} \subseteq DOMAIN catalogue /\ WellCounted(catalogue)
  BY <1>1, <1>2, CatalogueAssumption DEF Plan, StepsInv, CatalogueKept, PlanKept
<1>4. /\ DOMAIN catalogue' = DOMAIN seed \cup DOMAIN catalogue
      /\ \A k \in DOMAIN catalogue' : catalogue'[k] = IF k \in DOMAIN seed THEN seed[k] ELSE catalogue[k]
  BY <1>1 DEF Over
<1> QED
  BY <1>2, <1>3, <1>4 DEF CatalogueKept, WellCounted

(* What is read of one fact is as it was counted.                          *)
LEMMA FactIsRight ==
  ASSUME StepsInv, "stepPage" \in plan.ops, NEW known, ReadRight(known),
         NEW name \in Facts, NEW value \in ReadFact(name)
  PROVE  ReadRight(WithRow(known, name, value))
<1>1. /\ DOMAIN WithRow(known, name, value) = DOMAIN known \cup {name}
      /\ \A k \in DOMAIN known \cup {name} :
           WithRow(known, name, value)[k] = IF k = name THEN value ELSE known[k]
  BY DEF WithRow
<1>2. name = "registers" => value = Unread \/ RegisterKeys \subseteq DOMAIN value
  <2>1. OtherKeys \subseteq DOMAIN OtherRegisters
    BY CatalogueAssumption DEF StepsInv, PlanKept, Shaped, Plan, OtherRegisters
  <2>2. RegisterKeys \subseteq DOMAIN RegisterFacts
    BY <2>1 DEF RegisterFacts, RegisterKeys, Over, OtherRegisters
  <2> QED
    BY <2>2 DEF ReadFact
<1>3. name \notin {"registers", "verifiedCheckRuns"} => value = catalogue[name]
  BY DEF ReadFact
<1>4. Facts \ {"registers"} \subseteq DOMAIN catalogue /\ WellCounted(catalogue)
  BY DEF StepsInv, CatalogueKept
<1>5. WellCounted(WithRow(known, name, value))
  BY <1>1, <1>3, <1>4 DEF WellCounted, ReadRight, Facts
<1> QED
  BY <1>1, <1>2, <1>5 DEF ReadRight

(* The page keeps it.                                                      *)
LEMMA StepsStepKept ==
  ASSUME StepsInv, NEW t \in Requests, StepPageStep(t), Passes(t, StepsPhases), catalogue' = catalogue
  PROVE  StepsInv'
<1>0. Shaped /\ StepsKept(t) /\ OnlyMoves(t) /\ plan' = plan /\ PlanKept'
  BY DEF StepsInv, Passes, OnlyMoves, PlanKept, Plan
<1>1. SUFFICES StepsKept(t)'
  BY <1>0 DEF StepsInv, StepsKept, OnlyMoves, CatalogueKept, Known
<1>2. CASE BeginStepPage(t)
  <2>1. /\ pc'[t] = "readFacts" /\ "stepPage" \in plan.ops /\ req'[t].saw = None
    BY <1>0, <1>2 DEF BeginStepPage, Begin, Free, Shaped
  <2>2. Known(t)' = <<>>
    BY <2>1 DEF Known
  <2>3. ReadRight(<<>>)
    BY DEF ReadRight, WellCounted
  <2> QED
    BY <1>0, <2>1, <2>2, <2>3 DEF StepsKept
<1>3. CASE ReadOneFact(t)
  <2>1. pc[t] = "readFacts" /\ "stepPage" \in plan.ops /\ ReadRight(Known(t))
    BY <1>0, <1>3 DEF ReadOneFact, At, StepsKept, StepsPhases
  <2>2. PICK name \in Facts : \E value \in ReadFact(name) :
          LET known == WithRow(Known(t), name, value)
          IN  Goto(t, IF DOMAIN known = Facts THEN "showSteps" ELSE "readFacts", <<>>, known)
    BY <1>3, Zenon DEF ReadOneFact
  <2>3. PICK value \in ReadFact(name) :
          LET known == WithRow(Known(t), name, value)
          IN  Goto(t, IF DOMAIN known = Facts THEN "showSteps" ELSE "readFacts", <<>>, known)
    BY <2>2, Zenon
  <2>4. PICK known : known = WithRow(Known(t), name, value)
    OBVIOUS
  <2>5. ReadRight(known)
    BY <2>1, <2>4, FactIsRight
  <2>6. PICK phase : phase = IF DOMAIN known = Facts THEN "showSteps" ELSE "readFacts"
    OBVIOUS
  <2>7. Goto(t, phase, <<>>, known)
    BY <2>3, <2>4, <2>6
  <2>8. pc'[t] = phase /\ req'[t].saw = known
    BY <1>0, <2>7, GotoMoves
  <2>9. phase = "readFacts" => ReadRight(Known(t)')
    <3>1. ReadRight(<<>>)
      BY DEF ReadRight, WellCounted
    <3> QED
      BY <2>5, <2>8, <3>1 DEF Known
  <2> QED
    BY <1>0, <2>1, <2>5, <2>6, <2>8, <2>9 DEF StepsKept
<1>4. CASE ShowSteps(t)
  BY <1>0, <1>4, DoneMoves DEF ShowSteps, StepsKept, StepsPhases
<1> QED
  BY <1>2, <1>3, <1>4 DEF StepPageStep

(* However the page was read while the registers and the catalogue         *)
(* changed, no step of it would look better if there were less of          *)
(* something, or if something could not be read (assessStep, resolveTool). *)
THEOREM MissingNeverFlatters == Spec => []LessNeverLooksBetter
<1>1. Init => StepsInv
  <2> SUFFICES ASSUME Init PROVE StepsInv
    OBVIOUS
  <2>1. PICK name \in DOMAIN Plans :
          plan = [name |-> name, ops |-> Plans[name].ops] /\ catalogue = Plans[name].tables.catalogue
    BY DEF Init
  <2>2. PlanKept
    BY <2>1, ShapedInit DEF PlanKept, Plan
  <2>3. CatalogueKept
    BY <2>1, CatalogueAssumption DEF CatalogueKept
  <2>4. ASSUME NEW t \in Requests PROVE StepsKept(t)
    BY ShapedInit DEF StepsKept, StepsPhases
  <2> QED
    BY <2>2, <2>3, <2>4 DEF StepsInv
<1>2. StepsInv /\ [Next]_vars => StepsInv'
  <2> SUFFICES ASSUME StepsInv, [Next]_vars PROVE StepsInv'
    OBVIOUS
  <2>1. ASSUME NEW t \in Requests, StepPageStep(t), Passes(t, StepsPhases) PROVE StepsInv'
    BY <2>1, StepsStepKept DEF StepPageStep, BeginStepPage, ReadOneFact, ShowSteps
  <2>2. ASSUME SeedLoads, Elsewhere(StepsPhases) PROVE StepsInv'
    BY <2>2, SeedsKept, StepsStand
  <2>3. ASSUME UNCHANGED catalogue, Elsewhere(StepsPhases) PROVE StepsInv'
    BY <2>3, StepsStand DEF StepsInv, CatalogueKept, Elsewhere
  <2> QED
    BY <2>1, <2>2, <2>3, CatalogueSteps DEF StepsInv, PlanKept
<1>3. StepsInv => LessNeverLooksBetter
  <2> SUFFICES ASSUME StepsInv, NEW t \in Requests, pc[t] = "showSteps", NEW i \in DOMAIN ISO_STEPS,
                      NEW facts \in Less(req[t].saw)
               PROVE  Rank(assessStep(ISO_STEPS[i], facts)) <= Rank(assessStep(ISO_STEPS[i], req[t].saw))
    BY DEF LessNeverLooksBetter
  <2>1. DOMAIN req[t].saw = Facts /\ ReadRight(req[t].saw)
    BY DEF StepsInv, StepsKept
  <2> QED
    BY <2>1, LessIsNotBetter, StepIsNotBetter, StepsAreSourced
<1> QED
  BY <1>1, <1>2, <1>3, PTL DEF Spec

-----------------------------------------------------------------------------
(* The page of the records: what it lists and which forms it offers.       *)

(* A list is shown as a whole, or said to be cut.                          *)
LEMMA ListIsWhole ==
  ASSUME NEW name, NEW rows, NEW shown \in Shown(name, rows), ~Truncated(name, shown)
  PROVE  shown = rows
BY ListAssumption DEF Shown, Truncated, kSubset

(* So what is done in a list that is not cut is as much as was counted.    *)
LEMMA ListAgrees ==
  ASSUME NEW name, NEW section, NEW counted, section.rows \cap section.done = counted,
         NEW shown \in Shown(name, section.rows)
  PROVE  Truncated(name, shown) \/ Cardinality(shown \cap section.done) = Cardinality(counted)
BY ListIsWhole

(* The lists of the records and the counts of the steps ask for the same   *)
(* rows in different words (getRegisterFacts, the sections of the page).   *)
LEMMA ListsAgreeAlways ==
  ASSUME Shaped
  PROVE  ListsAgreeWithCounts
<1>1. PICK reader : reader = CHOOSE u \in People : TRUE
  OBVIOUS
<1>2. SUFFICES ASSUME NEW name \in (DOMAIN Page(reader) \cap DOMAIN RegisterFacts) \ {"controlEffectiveness"},
                      NEW shown \in Shown(name, Page(reader)[name].rows)
               PROVE  Truncated(name, shown) \/ Cardinality(shown \cap Page(reader)[name].done) = RegisterFacts[name]
  BY <1>1 DEF ListsAgreeWithCounts
<1>3. name \in {"audits", "auditFindings", "correctiveActions", "managementReviews", "securityObjectives",
                "contextIssues", "interestedParties", "legalRequirements", "continuityPlans", "continuityTests",
                "vulnerabilities", "changeRequests"}
  BY CatalogueAssumption DEF Shaped, Plan, OtherRegisters, OtherKeys, RegisterFacts, Over, Page
<1>4. CASE name = "audits"
  <2>1. RegisterFacts[name] = Cardinality({a \in Entries("audit") : journal[a].day = "past"})
    BY <1>4 DEF RegisterFacts, Over
  <2>2. Page(reader)[name].rows \cap Page(reader)[name].done = {a \in Entries("audit") : journal[a].day = "past"}
    BY <1>4, NoneAssumption DEF Page, AuditSection, performedBadge
  <2> QED
    BY <2>1, <2>2, ListAgrees
<1>5. CASE name = "auditFindings"
  <2>1. RegisterFacts[name] = Cardinality(DOMAIN finding)
    BY <1>5 DEF RegisterFacts, Over
  <2>2. Page(reader)[name].rows \cap Page(reader)[name].done = DOMAIN finding
    BY <1>5 DEF Page, FindingSection
  <2> QED
    BY <2>1, <2>2, ListAgrees
<1>6. CASE name = "correctiveActions"
  <2>1. RegisterFacts[name] = Cardinality(DOMAIN corrective)
    BY <1>6 DEF RegisterFacts, Over
  <2>2. Page(reader)[name].rows \cap Page(reader)[name].done = DOMAIN corrective
    BY <1>6 DEF Page, CorrectiveSection
  <2> QED
    BY <2>1, <2>2, ListAgrees
<1>7. CASE name = "managementReviews"
  <2>1. RegisterFacts[name] = IF review # None /\ review.held = "past" THEN 1 ELSE 0
    BY <1>7 DEF RegisterFacts, Over
  <2>2. Page(reader)[name].rows \cap Page(reader)[name].done
          = IF review # None /\ review.held = "past" THEN {ReviewRow} ELSE {}
    BY <1>7, NoneAssumption DEF Page, ReviewSection, performedBadge
  <2>3. Cardinality({ReviewRow}) = 1 /\ Cardinality({}) = 0
    BY FS_Singleton, FS_EmptySet
  <2> QED
    BY <2>1, <2>2, <2>3, ListAgrees
<1>8. CASE name = "securityObjectives"
  <2>1. RegisterFacts[name] = Cardinality(ActiveRows("objective"))
    BY <1>8 DEF RegisterFacts, Over
  <2>2. Page(reader)[name].rows \cap Page(reader)[name].done = ActiveRows("objective")
    BY <1>8 DEF Page, ObjectiveSection, ActiveRows
  <2> QED
    BY <2>1, <2>2, ListAgrees
<1>9. CASE name = "contextIssues"
  <2>1. RegisterFacts[name] = Cardinality(ActiveRows("issue"))
    BY <1>9 DEF RegisterFacts, Over
  <2>2. Page(reader)[name].rows \cap Page(reader)[name].done = ActiveRows("issue")
    BY <1>9 DEF Page, ContextSection, ActiveRows
  <2> QED
    BY <2>1, <2>2, ListAgrees
<1>10. CASE name = "interestedParties"
  <2>1. RegisterFacts[name] = Cardinality(ActiveRows("party"))
    BY <1>10 DEF RegisterFacts, Over
  <2>2. Page(reader)[name].rows \cap Page(reader)[name].done = ActiveRows("party")
    BY <1>10 DEF Page, PartySection, ActiveRows
  <2> QED
    BY <2>1, <2>2, ListAgrees
<1>11. CASE name = "legalRequirements"
  <2>1. RegisterFacts[name] = Cardinality(ActiveRows("legal"))
    BY <1>11 DEF RegisterFacts, Over
  <2>2. Page(reader)[name].rows \cap Page(reader)[name].done = ActiveRows("legal")
    BY <1>11 DEF Page, LegalSection, ActiveRows
  <2> QED
    BY <2>1, <2>2, ListAgrees
<1>12. CASE name = "continuityPlans"
  <2>1. RegisterFacts[name] = Cardinality(ActiveRows("plan"))
    BY <1>12 DEF RegisterFacts, Over
  <2>2. Page(reader)[name].rows \cap Page(reader)[name].done = ActiveRows("plan")
    BY <1>12 DEF Page, ContinuitySection, ActiveRows
  <2> QED
    BY <2>1, <2>2, ListAgrees
<1>13. CASE name = "continuityTests"
  <2>1. RegisterFacts[name] = Cardinality(DOMAIN tests)
    BY <1>13 DEF RegisterFacts, Over
  <2>2. Page(reader)[name].rows \cap Page(reader)[name].done = DOMAIN tests
    BY <1>13 DEF Page, TestSection
  <2> QED
    BY <2>1, <2>2, ListAgrees
<1>14. CASE name = "vulnerabilities"
  <2>1. RegisterFacts[name] = Cardinality({v \in DOMAIN vulnerability : vulnerability[v] # "false_positive"})
    BY <1>14 DEF RegisterFacts, Over
  <2>2. Page(reader)[name].rows \cap Page(reader)[name].done
          = {v \in DOMAIN vulnerability : vulnerability[v] # "false_positive"}
    BY <1>14 DEF Page, VulnerabilitySection
  <2> QED
    BY <2>1, <2>2, ListAgrees
<1>15. CASE name = "changeRequests"
  <2>1. RegisterFacts[name] = Cardinality({c \in DOMAIN change : change[c].status # "cancelled"})
    BY <1>15 DEF RegisterFacts, Over
  <2>2. Page(reader)[name].rows \cap Page(reader)[name].done = {c \in DOMAIN change : change[c].status # "cancelled"}
    BY <1>15 DEF Page, ChangeSection
  <2> QED
    BY <2>1, <2>2, ListAgrees
<1> QED
  BY <1>3, <1>4, <1>5, <1>6, <1>7, <1>8, <1>9, <1>10, <1>11, <1>12, <1>13, <1>14, <1>15

(* Whatever the requests have done, a list that is not said to be cut      *)
(* shows as much as the page of the steps counts.                          *)
THEOREM ListsAlwaysAgree == Spec => []ListsAgreeWithCounts
<1>1. TrainingInv => ListsAgreeWithCounts
  BY ListsAgreeAlways DEF TrainingInv
<1> QED
  BY <1>1, TrainingInitial, TrainingKept, PTL DEF Spec

-----------------------------------------------------------------------------
(* A form is an action, a row and a choice.                                *)
LEMMA FormIs ==
  ASSUME NEW op, NEW rows, NEW choices, NEW form \in Forms(op, rows, choices)
  PROVE  form[1] = op /\ form[2] \in rows /\ form[3] \in choices
BY DEF Forms

(* What a form of this section asks for is what its server action accepts. *)
OfferKept(u, section) == \A form \in section.forms : MayBeRefused(u, form) \/ Accepted(u, form)

(* The internal audits and what was found in them.                         *)
LEMMA AuditFormsKept ==
  ASSUME FindingGoesOneWay, NEW u \in PeopleOffered
  PROVE  OfferKept(u, AuditSection) /\ OfferKept(u, FindingSection) /\ OfferKept(u, CorrectiveSection)
<1>1. OfferKept(u, AuditSection)
  <2> SUFFICES ASSUME NEW form \in Forms("saveAudit", {None}, AuditorsOffered) PROVE Accepted(u, form)
    BY DEF OfferKept, AuditSection
  <2>1. form[1] = "saveAudit" /\ IsAuditor(form[3])
    BY FormIs DEF AuditorsOffered, PeopleOffered, IsAuditor, IsActiveMember
  <2> QED
    BY <2>1 DEF Accepted
<1>2. OfferKept(u, FindingSection)
  <2> SUFFICES ASSUME NEW f \in DOMAIN finding,
                      NEW form \in Forms("advanceFinding", {f}, NextFindingSteps(finding[f].status))
               PROVE  Accepted(u, form)
    BY DEF OfferKept, FindingSection
  <2>1. form[1] = "advanceFinding" /\ form[2] = f /\ form[3] \in NextFindingSteps(finding[f].status)
    BY FormIs
  <2>2. finding[f].status \in FINDING_FROM[form[3]]
    BY <2>1 DEF NextFindingSteps
  <2>3. ASSUME form[3] = "closed" PROVE finding[f].verifier # None
    BY <2>2, <2>3 DEF FINDING_FROM, FindingGoesOneWay
  <2>4. MayAdvance(f, form[3])
    BY <2>2, <2>3 DEF MayAdvance
  <2> QED
    BY <2>1, <2>4 DEF Accepted
<1>3. OfferKept(u, CorrectiveSection)
  <2> SUFFICES ASSUME NEW form \in CorrectiveSection.forms PROVE MayBeRefused(u, form) \/ Accepted(u, form)
    BY DEF OfferKept
  <2> DEFINE completed == {c \in DOMAIN corrective : corrective[c].done}
  <2>1. CASE form \in Forms("saveCorrective", DOMAIN finding, PeopleOffered)
    <3>1. form[1] = "saveCorrective" /\ IsActiveMember(form[3])
      BY <2>1, FormIs DEF PeopleOffered, IsActiveMember
    <3> QED
      BY <3>1 DEF Accepted
  <2>2. CASE form \in Forms("completeCorrective", DOMAIN corrective \ completed, {None})
    <3>1. form[1] = "completeCorrective" /\ ~corrective[form[2]].done
      BY <2>2, FormIs
    <3> QED
      BY <3>1 DEF Accepted
  <2>3. CASE form \in Forms("reviewCorrective", {c \in completed : corrective[c].reviewer = None}, {None})
    <3>1. form[1] = "reviewCorrective" /\ corrective[form[2]].done
      BY <2>3, FormIs
    <3> QED
      BY <3>1 DEF Accepted, MayReview, MayBeRefused
  <2> QED
    BY <2>1, <2>2, <2>3 DEF CorrectiveSection
<1> QED
  BY <1>1, <1>2, <1>3

(* The management review, the objectives, and the exceptions.              *)
LEMMA ReviewFormsKept ==
  ASSUME NEW u \in PeopleOffered
  PROVE  OfferKept(u, ReviewSection(u)) /\ OfferKept(u, ObjectiveSection) /\ OfferKept(u, ExceptionSection(u))
<1>1. OfferKept(u, ReviewSection(u))
  <2> DEFINE rows == IF review = None THEN {} ELSE {ReviewRow}
  <2> SUFFICES ASSUME NEW form \in ReviewSection(u).forms PROVE MayBeRefused(u, form) \/ Accepted(u, form)
    BY DEF OfferKept
  <2>1. CASE form \in Forms("addReviewOutput", rows, PeopleOffered)
    <3>1. form[1] = "addReviewOutput" /\ IsActiveMember(form[3])
      BY <2>1, FormIs DEF PeopleOffered, IsActiveMember
    <3> QED
      BY <3>1 DEF Accepted
  <2>2. CASE form \in Forms("approveReview", IF u \in Chiefs THEN rows ELSE {}, {None})
    BY <2>2, FormIs DEF MayBeRefused
  <2> QED
    BY <2>1, <2>2 DEF ReviewSection
<1>2. OfferKept(u, ObjectiveSection)
  <2> SUFFICES ASSUME NEW form \in Forms("evaluateObjective", {s \in ActiveRows("objective") : standing[s].judged = None},
                                         {None})
               PROVE  Accepted(u, form)
    BY DEF OfferKept, ObjectiveSection
  <2>1. form[1] = "evaluateObjective" /\ standing[form[2]].active
    BY FormIs DEF ActiveRows
  <2> QED
    BY <2>1 DEF Accepted
<1>3. OfferKept(u, ExceptionSection(u))
  <2> SUFFICES ASSUME u \in Chiefs,
                      NEW form \in Forms("approveException",
                                         {f \in DOMAIN finding : canTakeException(finding[f].status)}, {None})
               PROVE  Accepted(u, form)
    BY DEF OfferKept, ExceptionSection
  <2>1. form[1] = "approveException" /\ canTakeException(finding[form[2]].status)
    BY FormIs
  <2> QED
    BY <2>1 DEF Accepted, MayBeExcepted, canTakeException
<1> QED
  BY <1>1, <1>2, <1>3

(* The forms of a standing record are for one that is in force, but for    *)
(* the form that puts it in force again.                                   *)
LEMMA StandingFormsKept ==
  ASSUME NEW u \in PeopleOffered
  PROVE  /\ OfferKept(u, ContextSection) /\ OfferKept(u, PartySection)
         /\ OfferKept(u, LegalSection) /\ OfferKept(u, ContinuitySection)
<1> DEFINE Stand(kind) == {s \in Rows(kind) : standing[s].active}
           OnceMore    == {"reviewContext", "retireContext", "assessLegalRequirement", "retireLegalRequirement",
                           "retireContinuityPlan", "recordContinuityTest"}
           Updates     == {"updateContextIssue", "updateInterestedParty", "updateLegalRequirement",
                           "updateContinuityPlan"}
           Returns     == {"reactivateContext", "reactivateLegalRequirement", "reactivateContinuityPlan"}
<1>1. ASSUME NEW kind, NEW op \in OnceMore, NEW form \in Forms(op, Stand(kind), {None})
      PROVE  Accepted(u, form)
  <2>1. form[1] \in OnceMore /\ standing[form[2]].active
    BY <1>1, FormIs
  <2> QED
    BY <2>1 DEF Accepted
<1>2. ASSUME NEW kind, NEW op \in Updates, NEW form \in Forms(op, Stand(kind), PeopleOffered)
      PROVE  Accepted(u, form)
  <2>1. form[1] \in Updates /\ standing[form[2]].active /\ IsActiveMember(form[3])
    BY <1>2, FormIs DEF PeopleOffered, IsActiveMember
  <2> QED
    BY <2>1 DEF Accepted
<1>3. ASSUME NEW kind, NEW op \in Returns, NEW form \in Forms(op, Rows(kind) \ Stand(kind), {None})
      PROVE  Accepted(u, form)
  <2>1. form[1] \in Returns /\ ~standing[form[2]].active
    BY <1>3, FormIs
  <2> QED
    BY <2>1 DEF Accepted
<1>4. OfferKept(u, ContextSection)
  BY <1>1, <1>2, <1>3 DEF OfferKept, ContextSection
<1>5. OfferKept(u, PartySection)
  BY <1>1, <1>2, <1>3 DEF OfferKept, PartySection
<1>6. OfferKept(u, LegalSection)
  BY <1>1, <1>2, <1>3 DEF OfferKept, LegalSection
<1>7. OfferKept(u, ContinuitySection)
  BY <1>1, <1>2, <1>3 DEF OfferKept, ContinuitySection
<1> QED
  BY <1>4, <1>5, <1>6, <1>7

(* The vulnerabilities and the changes.                                    *)
LEMMA ChangeFormsKept ==
  ASSUME NEW u \in PeopleOffered
  PROVE  OfferKept(u, VulnerabilitySection) /\ OfferKept(u, ChangeSection(u))
<1>0. \A a \in AssetsOffered : AssetUsable(a)
  BY DEF AssetsOffered, AssetUsable
<1>1. OfferKept(u, VulnerabilitySection)
  <2> DEFINE In(status) == {v \in DOMAIN vulnerability : vulnerability[v] = status}
  <2> SUFFICES ASSUME NEW form \in VulnerabilitySection.forms PROVE Accepted(u, form)
    BY DEF OfferKept
  <2>1. CASE form \in Forms("progressVulnerability", In("open"), {"in_progress"})
    <3>1. form[1] = "progressVulnerability" /\ MayProgress(form[2], form[3])
      BY <2>1, FormIs DEF MayProgress
    <3> QED
      BY <3>1 DEF Accepted
  <2>2. CASE form \in Forms("progressVulnerability", In("open") \cup In("in_progress"), {"mitigated", "false_positive"})
    <3>1. form[1] = "progressVulnerability" /\ MayProgress(form[2], form[3])
      BY <2>2, FormIs DEF MayProgress
    <3> QED
      BY <3>1 DEF Accepted
  <2>3. CASE form \in Forms("saveVulnerability", {None}, AssetsOffered)
    <3>1. form[1] = "saveVulnerability" /\ AssetUsable(form[3])
      BY <1>0, <2>3, FormIs
    <3> QED
      BY <3>1 DEF Accepted
  <2> QED
    BY <2>1, <2>2, <2>3 DEF VulnerabilitySection
<1>2. OfferKept(u, ChangeSection(u))
  <2> SUFFICES ASSUME NEW form \in ChangeSection(u).forms PROVE Accepted(u, form)
    BY DEF OfferKept
  <2>1. CASE form \in Forms("decideChangeRequest", {c \in DOMAIN change : DecisionOffered(c, u)}, {None})
    <3>1. form[1] = "decideChangeRequest" /\ MayDecide(form[2], u)
      BY <2>1, FormIs DEF DecisionOffered, MayDecide
    <3> QED
      BY <3>1 DEF Accepted
  <2>2. CASE form \in Forms("implementChange", Approved, {None})
    <3>1. form[1] = "implementChange" /\ form[2] \in Approved
      BY <2>2, FormIs
    <3> QED
      BY <3>1 DEF Accepted
  <2>3. CASE form \in Forms("cancelChange", Pending \cup Approved, {None})
    <3>1. form[1] = "cancelChange" /\ form[2] \in Pending \cup Approved
      BY <2>3, FormIs
    <3> QED
      BY <3>1 DEF Accepted
  <2>4. CASE form \in UpdateForms
    <3>0. PICK c \in Pending : form \in Forms("updateChangeRequest", {c}, AssetsOffered \cup {AssetOf(ChangeRow(c))})
      BY <2>4 DEF UpdateForms
    <3>1. form[1] = "updateChangeRequest" /\ form[2] = c /\ (form[3] # AssetOf(ChangeRow(c)) => AssetUsable(form[3]))
      BY <1>0, <3>0, FormIs
    <3> QED
      BY <3>1 DEF Accepted
  <2>5. CASE form \in Forms("requestChange", {None}, AssetsOffered)
    <3>1. form[1] = "requestChange" /\ AssetUsable(form[3])
      BY <1>0, <2>5, FormIs
    <3> QED
      BY <3>1 DEF Accepted
  <2> QED
    BY <2>1, <2>2, <2>3, <2>4, <2>5 DEF ChangeSection
<1> QED
  BY <1>1, <1>2

(* The page offers no form that its server action turns away, as long as   *)
(* nothing has changed since; of the finding it has to be known that one   *)
(* that is verified has a verifier.                                        *)
LEMMA OffersKept ==
  ASSUME FindingGoesOneWay
  PROVE  OfferedIsAccepted
<1> SUFFICES ASSUME NEW u \in PeopleOffered, NEW name \in DOMAIN Page(u)
             PROVE  OfferKept(u, Page(u)[name])
  BY DEF OfferedIsAccepted, OfferKept
<1>1. /\ OfferKept(u, EffectivenessSection) /\ OfferKept(u, VendorSection)
      /\ OfferKept(u, EvidenceSection) /\ OfferKept(u, TestSection)
  BY DEF OfferKept, EffectivenessSection, VendorSection, EvidenceSection, TestSection
<1>2. Page(u)[name] \in
        {AuditSection, FindingSection, CorrectiveSection, ReviewSection(u), EffectivenessSection, ObjectiveSection,
         VendorSection, EvidenceSection, ExceptionSection(u), ContextSection, PartySection, LegalSection,
         ContinuitySection, TestSection, VulnerabilitySection, ChangeSection(u)}
  BY DEF Page
<1> QED
  BY <1>1, <1>2, AuditFormsKept, ReviewFormsKept, StandingFormsKept, ChangeFormsKept

(* Whatever the requests have done, the page that is opened next offers    *)
(* what its server actions will do.                                        *)
THEOREM OffersAlwaysAccepted == Spec => []OfferedIsAccepted
BY FindingsGoOneWay, OffersKept, PTL DEF Spec

-----------------------------------------------------------------------------
(* Departments: how imports name them and the chart draws them.            *)

(* Departments that stand as imports made them differ in their names,      *)
(* although the database would let them be the same (importDepartments     *)
(* looks for the names under the lock of applyImport; saveDepartment and   *)
(* updateDepartment do not look).                                          *)
THEOREM ImportsNameApart == Spec => []ImportedNamesUnique
<1>1. OrganisationInv => ImportedNamesUnique
  BY DEF OrganisationInv
<1> QED
  BY <1>1, OrganisationInit, OrganisationKept, PTL DEF Spec

(* The organisation chart draws the departments that are in a tree as deep *)
(* as it can draw, and each membership of a department that it has read,   *)
(* or of none, is on it once, whatever circles concurrent edits have made  *)
(* (updateDepartment races updateDepartment).                              *)
THEOREM ChartIsComplete == Spec => []EachMembershipIsOnTheChart
<1>1. OrganisationInv => EachMembershipIsOnTheChart
  <2> SUFFICES ASSUME OrganisationInv, NEW t \in Requests, pc[t] = "showOrgChart"
               PROVE  LET read == req[t].saw
                      IN  /\ \A d \in Nodes(read) : d \in Reached(read) <=> DepthOf(read, d) # {}
                          /\ \A m \in DOMAIN read.of :
                               read.of[m] \in Nodes(read) \cup {None} => TimesShown(read, m) = 1
    BY Zenon DEF EachMembershipIsOnTheChart
  <2>1. None \notin Nodes(req[t].saw)
    BY DEF OrganisationInv, Proceeds, Charted
  <2> QED
    BY <2>1, ShownOnce, DrawnToDepth
<1> QED
  BY <1>1, OrganisationInit, OrganisationKept, PTL DEF Spec

-----------------------------------------------------------------------------
(* What the rows of other registers name.                                  *)

(* The phases of those that write what is named.                           *)
NamingPhases == ChangeControlPhases \cup IncidentPhases \cup DecisionPhases

(* A step is one of the changes, incidents or decisions, or leaves what    *)
(* their rows name.                                                        *)
LEMMA UsesSteps ==
  ASSUME Shaped, BatchesKept, [Next]_vars
  PROVE  \/ \E t \in Requests :
              \/ ChangeStep(t) /\ Passes(t, ChangeControlPhases)
              \/ IncidentStep(t) /\ Passes(t, IncidentPhases)
              \/ DecisionStep(t) /\ Passes(t, DecisionPhases)
         \/ uses' = uses /\ Elsewhere(NamingPhases)
<1> DEFINE Apart == Elsewhere(NamingPhases)
<1>1. ASSUME NEW t \in Requests, Shared(t) \/ Files(t) \/ Register(t) \/ Applications(t) \/ Organisation(t)
                                 \/ Policies(t) \/ Work(t) \/ Audit(t) \/ Journal(t) \/ Standing(t) \/ Competence(t)
                                 \/ Devices(t) \/ Steps(t) \/ Control(t) \/ Passwords(t)
      PROVE  uses' = uses
  BY <1>1, RegisterImports, ApplicationsImports, WorkImports
     DEF Shared, Files, Register, Applications, Organisation, Policies, Work, Audit, Journal, Standing, Competence,
         Devices, Steps, Control, Passwords, registerVars
<1>2. ASSUME NEW t \in Requests, Files(t) \/ Register(t) \/ Applications(t) \/ Organisation(t) \/ Policies(t) \/ Work(t)
      PROVE  Apart
  BY <1>2, PassesElsewhere, FilesPasses, RegisterPasses, ApplicationsPasses, OrganisationPasses, ChartPasses,
     PoliciesPasses, WorkPasses
     DEF NamingPhases, ChangeControlPhases, IncidentPhases, DecisionPhases, Files, FilesPhases,
         Register, RegisterPhases, Applications, ApplicationsPhases, Organisation, OrganisationPhases, ChartPhases, Policies, PoliciesPhases,
         Work, WorkPhases
<1>3. ASSUME NEW t \in Requests, Audit(t) \/ Journal(t) \/ Standing(t) \/ Competence(t) \/ Devices(t) \/ Steps(t)
                                 \/ Control(t) \/ Passwords(t)
      PROVE  Apart
  BY <1>3, PassesElsewhere, AuditPasses, JournalPasses, StandingPasses, CompetencePasses, DevicesPasses,
     StepsPasses, ControlPasses, PasswordsPasses
     DEF NamingPhases, ChangeControlPhases, IncidentPhases, DecisionPhases, Audit, AuditPhases, Journal, JournalPhases,
         Standing, StandingPhases, Competence, CompetencePhases, Devices, DevicesPhases, Steps, StepsPhases, Control,
         ControlPhases, Passwords, PasswordsPhases
<1>4. ASSUME NEW t \in Requests, Shared(t)
      PROVE  Apart
  BY <1>4, SharedElsewhere DEF NamingPhases, ChangeControlPhases, IncidentPhases, DecisionPhases
<1>5. ASSUME NEW t \in Requests, ChangeControl(t) \/ Incident(t) \/ Decision(t)
      PROVE  \/ ChangeStep(t) /\ Passes(t, ChangeControlPhases)
             \/ IncidentStep(t) /\ Passes(t, IncidentPhases)
             \/ DecisionStep(t) /\ Passes(t, DecisionPhases)
  BY <1>5, ChangeControlPasses, IncidentPasses, DecisionPasses DEF ChangeControl, Incident, Decision
<1>6. ASSUME TimePasses \/ Outside \/ Machinery \/ Terminated \/ UNCHANGED vars
      PROVE  uses' = uses /\ Apart
  BY <1>6, RestElsewhere
     DEF TimePasses, ExpireException, ReviewDayComes, EntryFallsDue, DayPasses, DeviationLapses, Outside,
         PortalChanges, SeedLoads, Machinery, Orchestrator, Terminated, vars, registerVars
<1> QED
  BY <1>1, <1>2, <1>3, <1>4, <1>5, <1>6 DEF Next

(* Of an asset that a request has found active it keeps everybody from     *)
(* taking it away.                                                         *)
Secured(t, a) == a \in Assets => asset[a].status = "active" /\ Lock(Share, AssetRow(a)) \in held[t]

(* The phases of a deviation that is requested.                            *)
Asking == {"requestDeviation", "insertDeviation", "linkDeviation", "commitDeviation"}

(* What a request is about to name: an asset it waits for, or has secured, *)
(* or that is named already; or a risk.                                    *)
NamesRight(t) ==
  /\ pc[t] = "saveVulnerability" => want[t] = AssetLock(req[t].arg)
  /\ pc[t] = "requestChange" => want[t] = AssetLock(req[t].arg.asset)
  /\ pc[t] = "linkChange" =>
       (want[t] = AssetLock(req[t].arg.asset) \/ req[t].arg.asset = AssetOf(ChangeRow(req[t].arg.id)))
  /\ pc[t] = "linkChange" /\ ~req[t].saw => req[t].arg.asset = AssetOf(ChangeRow(req[t].arg.id))
  /\ pc[t] = "insertVulnerability" => Secured(t, req[t].arg)
  /\ pc[t] = "commitChange" => Secured(t, req[t].arg.asset)
  /\ pc[t] = "writeChange" =>
       Secured(t, req[t].arg.asset) \/ req[t].arg.asset = AssetOf(ChangeRow(req[t].arg.id))
  /\ pc[t] \in IncidentPhases => req[t].arg.risk \notin Assets
  /\ pc[t] \in Asking => req[t].arg.asked.risk \notin Assets

(* The assets that rows name are active, and an incident names none.       *)
UsesKept ==
  /\ \A row \in DOMAIN uses : uses[row] \in Assets => asset[uses[row]].status = "active"
  /\ \A row \in DOMAIN uses : row[1] = "incident" => uses[row] \notin Assets

UsesInv == RegisterInv /\ ChangeInv /\ UsesKept /\ \A t \in Requests : NamesRight(t)

(* What a request has secured stays so.                                    *)
LEMMA SecuredStays ==
  ASSUME RegisterInv, [Next]_vars, NEW s \in Requests, NEW a, Secured(s, a), held[s] \subseteq held'[s]
  PROVE  Secured(s, a)'
<1> SUFFICES ASSUME a \in Assets PROVE asset'[a].status = "active" /\ Lock(Share, AssetRow(a)) \in held'[s]
  BY DEF Secured
<1>1. asset[a].status = "active" /\ Lock(Share, AssetRow(a)) \in held[s]
  BY DEF Secured
<1>2. Referring(AssetRow(a))
  BY <1>1 DEF Referring, Lock
<1> QED
  BY <1>1, <1>2, RetiredUnused

(* The steps of the changes after which a row names something else.        *)
LEMMA ChangeNames ==
  ASSUME NEW t, ChangeStep(t)
  PROVE  uses' = uses \/ InsertVulnerability(t) \/ CommitChange(t) \/ WriteChange(t)
<1> USE DEF registerVars
<1>1. CASE BeginSaveVulnerability(t)  BY <1>1 DEF BeginSaveVulnerability
<1>2. CASE SaveVulnerability(t)  BY <1>2 DEF SaveVulnerability
<1>3. CASE InsertVulnerability(t)  BY <1>3 DEF InsertVulnerability
<1>4. CASE ProgressVulnerability(t)  BY <1>4 DEF ProgressVulnerability
<1>5. CASE BeginRequestChange(t)  BY <1>5 DEF BeginRequestChange
<1>6. CASE RequestChange(t)  BY <1>6 DEF RequestChange
<1>7. CASE CommitChange(t)  BY <1>7 DEF CommitChange
<1>8. CASE BeginUpdateChangeRequest(t)  BY <1>8 DEF BeginUpdateChangeRequest
<1>9. CASE UpdateChangeRequest(t)  BY <1>9 DEF UpdateChangeRequest
<1>10. CASE LinkChange(t)  BY <1>10 DEF LinkChange
<1>11. CASE WriteChange(t)  BY <1>11 DEF WriteChange
<1>12. CASE BeginDecideChangeRequest(t)  BY <1>12 DEF BeginDecideChangeRequest
<1>13. CASE DecideChangeRequest(t)  BY <1>13 DEF DecideChangeRequest
<1>14. CASE RecordDecision(t)  BY <1>14 DEF RecordDecision
<1>15. CASE ImplementChange(t)  BY <1>15 DEF ImplementChange
<1>16. CASE CancelChange(t)  BY <1>16 DEF CancelChange
<1> QED BY <1>1, <1>2, <1>3, <1>4, <1>5, <1>6, <1>7, <1>8, <1>9, <1>10, <1>11, <1>12, <1>13, <1>14,
      <1>15, <1>16 DEF ChangeStep

(* While a request is about to write a change, nobody else has it name     *)
(* another asset.                                                          *)
LEMMA LinkStays ==
  ASSUME ChangeInv, [Next]_vars, NEW s \in Requests, pc[s] \in {"linkChange", "writeChange"}, pc'[s] # "done"
  PROVE  \A id : id = req[s].arg.id => AssetOf(ChangeRow(id))' = AssetOf(ChangeRow(id))
<1> SUFFICES ASSUME NEW id, id = req[s].arg.id PROVE AssetOf(ChangeRow(id))' = AssetOf(ChangeRow(id))
  OBVIOUS
<1>1. pc[s] \in Changing /\ id \in DOMAIN change
  BY DEF ChangeInv, ChangesUnderWay, ChangeUnderWay, Changing
<1>2. CASE LinksStay
  BY <1>2 DEF LinksStay
<1>3. ASSUME NEW t \in Requests, ChangeStep(t), Passes(t, ChangeControlPhases)
      PROVE  AssetOf(ChangeRow(id))' = AssetOf(ChangeRow(id))
  <2>1. CASE uses' = uses
    BY <2>1 DEF AssetOf
  <2>2. CASE InsertVulnerability(t)
    BY <2>2 DEF InsertVulnerability, Naming, WithRow, Restrict, AssetOf, ChangeRow, VulnRow
  <2>3. CASE CommitChange(t)
    <3>1. t # id
      BY <1>1, <1>3 DEF ChangeInv, ChangesFresh, Passes, ChangeControlPhases
    <3> QED
      BY <2>3, <3>1 DEF CommitChange, Naming, WithRow, Restrict, AssetOf, ChangeRow
  <2>4. CASE WriteChange(t)
    <3>1. pc[t] \in Changing /\ pc'[t] = "done"
      BY <2>4, DoneMoves DEF WriteChange, At, Changing, ChangeInv
    <3>2. PICK other : other = req[t].arg.id
      OBVIOUS
    <3>3. other # id
      BY <1>1, <3>1, <3>2 DEF ChangeInv, ChangesUnderWay, ChangesAlone
    <3> QED
      BY <2>4, <3>2, <3>3 DEF WriteChange, Naming, WithRow, Restrict, AssetOf, ChangeRow
  <2> QED
    BY <1>3, <2>1, <2>2, <2>3, <2>4, ChangeNames
<1> QED
  BY <1>2, <1>3, ChangesSteps DEF ChangeInv

(* What is right of the names of a request that stays where it is goes on  *)
(* being right.                                                            *)
LEMMA NamesStay ==
  ASSUME RegisterInv, ChangeInv, [Next]_vars, NEW s \in Requests, NamesRight(s),
         pc'[s] = pc[s], req'[s] = req[s], held[s] \subseteq held'[s], Len(want[s]) <= 1 => want'[s] = want[s]
  PROVE  NamesRight(s)'
<1>1. PICK arg : arg = req[s].arg
  OBVIOUS
<1>2. req'[s].arg = arg
  BY <1>1
<1>3. \A a : want[s] = AssetLock(a) => want'[s] = AssetLock(a)
  <2>1. \A l : Len(<<l>>) <= 1
    OBVIOUS
  <2>2. Len(<<>>) <= 1
    OBVIOUS
  <2> QED
    BY <2>1, <2>2 DEF AssetLock
<1>4. \A a : Secured(s, a) => Secured(s, a)'
  BY SecuredStays
<1>5. pc[s] \in {"linkChange", "writeChange"} => AssetOf(ChangeRow(arg.id))' = AssetOf(ChangeRow(arg.id))
  BY <1>1, LinkStays
<1>6. \A a : AssetLock(a)' = AssetLock(a)
  BY DEF AssetLock
<1>7. NamesRight(s)
  OBVIOUS
<1> QED
  BY <1>1, <1>2, <1>3, <1>4, <1>5, <1>6 DEF NamesRight

(* What named rows go on naming is active.                                 *)
LEMMA NamedStaysActive ==
  ASSUME RegisterInv, UsesKept, [Next]_vars, NEW a \in Assets,
         a \in Range(uses) \/ \E s \in Requests : Secured(s, a)
  PROVE  asset'[a].status = "active"
<1>1. CASE a \in Range(uses)
  <2>1. asset[a].status = "active" /\ AssetReferred(a)
    BY <1>1 DEF UsesKept, AssetReferred, Range
  <2> QED
    BY <2>1, RetiredUnused
<1>2. ASSUME NEW s \in Requests, Secured(s, a) PROVE asset'[a].status = "active"
  <2>1. asset[a].status = "active" /\ Referring(AssetRow(a))
    BY <1>2 DEF Secured, Referring, Lock
  <2> QED
    BY <2>1, RetiredUnused
<1> QED
  BY <1>1, <1>2

(* When one row comes to name another asset, or none.                      *)
LEMMA NamingIs ==
  ASSUME NEW row, NEW a, NEW r \in DOMAIN Naming(row, a)
  PROVE  \/ r = row /\ a # None /\ Naming(row, a)[r] = a
         \/ r # row /\ r \in DOMAIN uses /\ Naming(row, a)[r] = uses[r]
BY DEF Naming, WithRow, Restrict

(* A row of the changes or vulnerabilities that comes to name what is      *)
(* secured, or is named already.                                           *)
LEMMA NamingKept ==
  ASSUME RegisterInv, UsesKept, [Next]_vars, NEW t \in Requests, NEW row, row[1] # "incident", NEW a,
         uses' = Naming(row, a), Secured(t, a) \/ a \in Range(uses) \cup {None}
  PROVE  UsesKept'
<1>1. ASSUME NEW r \in DOMAIN uses', uses'[r] \in Assets PROVE asset'[uses'[r]].status = "active"
  <2>1. CASE r = row /\ a # None /\ uses'[r] = a
    BY <1>1, <2>1, NamedStaysActive
  <2>2. CASE r # row /\ r \in DOMAIN uses /\ uses'[r] = uses[r]
    <3>1. uses[r] \in Range(uses)
      BY <2>2 DEF Range
    <3> QED
      BY <1>1, <2>2, <3>1, NamedStaysActive
  <2> QED
    BY <1>1, <2>1, <2>2, NamingIs
<1>2. ASSUME NEW r \in DOMAIN uses', r[1] = "incident" PROVE uses'[r] \notin Assets
  BY <1>2, NamingIs DEF UsesKept
<1> QED
  BY <1>1, <1>2 DEF UsesKept

(* The phases of the changes that are about to name an asset.              *)
NamingAssets ==
  {"saveVulnerability", "insertVulnerability", "requestChange", "commitChange", "linkChange", "writeChange"}

(* Nothing is to be known of a request that names nothing.                 *)
LEMMA NamesNothing ==
  ASSUME NEW t, pc'[t] \notin NamingAssets \cup IncidentPhases \cup Asking PROVE NamesRight(t)'
BY DEF NamesRight, NamingAssets

(* A step of the changes names what it has secured.                        *)
LEMMA ChangeNamesRight ==
  ASSUME UsesInv, [Next]_vars, NEW t \in Requests, ChangeStep(t), Passes(t, ChangeControlPhases)
  PROVE  NamesRight(t)' /\ UsesKept'
<1>0. /\ Shaped /\ RegisterInv /\ ChangeInv /\ BatchesKept /\ UsesKept /\ NamesRight(t) /\ plan' = plan
      /\ None \notin Assets
  BY RegisterAssumption DEF UsesInv, RegisterInv, Passes, OnlyMoves
<1>1. asset' = asset
  BY <1>0, ChangeControlImports
<1>2. \A a, s : AssetLock(a)' = AssetLock(a) /\ AssetUsable(a)' = AssetUsable(a)
  BY <1>1 DEF AssetLock, AssetUsable
<1>a. ASSUME NEW a, AssetUsable(a), want[t] = AssetLock(a) PROVE held'[t] = Taken(t) => Secured(t, a)'
  <2> SUFFICES ASSUME a \in Assets, held'[t] = Taken(t) PROVE Secured(t, a)'
    BY DEF Secured
  <2>1. want[t] = <<Lock(Share, AssetRow(a))>> /\ asset[a].status = "active"
    BY <1>0, <1>a DEF AssetLock, AssetUsable
  <2> QED
    BY <1>1, <2>1, RowIsTaken DEF Secured
<1>b. ASSUME uses' = uses PROVE UsesKept'
  BY <1>0, <1>1, <1>b DEF UsesKept
<1>c. ASSUME NEW row, NEW a, a = AssetOf(row) PROVE a \in Range(uses) \cup {None}
  BY <1>c DEF AssetOf, Range
<1>d. ASSUME pc'[t] \notin NamingAssets PROVE NamesRight(t)'
  <2>1. pc'[t] \notin IncidentPhases \cup Asking
    BY DEF Passes, ChangeControlPhases, IncidentPhases, Asking
  <2> QED
    BY <1>d, <2>1, NamesNothing
<1> USE DEF NamingAssets
<1>3. CASE BeginSaveVulnerability(t)
  <2>1. PICK a : Begin(t, "saveVulnerability", a, "saveVulnerability", AssetLock(a))
    BY <1>3 DEF BeginSaveVulnerability
  <2>2. pc'[t] = "saveVulnerability" /\ req'[t].arg = a /\ want'[t] = AssetLock(a)
    BY <1>0, <2>1, BeginMoves
  <2>3. UsesKept'
    BY <1>3, <1>b DEF BeginSaveVulnerability, registerVars
  <2> QED
    BY <1>2, <2>2, <2>3 DEF NamesRight, IncidentPhases, Asking
<1>4. CASE SaveVulnerability(t)
  <2>1. pc[t] = "saveVulnerability" /\ uses' = uses
    BY <1>4 DEF SaveVulnerability, At, registerVars
  <2>2. CASE Done(t)
    BY <1>0, <1>b, <1>d, <2>1, <2>2, DoneMoves
  <2>3. CASE ~Done(t)
    <3>1. PICK locks : AssetUsable(req[t].arg) /\ Goto(t, "insertVulnerability", locks, None)
      BY <1>4, <2>3 DEF SaveVulnerability
    <3>2. pc'[t] = "insertVulnerability" /\ req'[t].arg = req[t].arg /\ held'[t] = Taken(t)
      BY <1>0, <3>1, GotoMoves
    <3>3. Secured(t, req[t].arg)'
      <4>1. PICK a : a = req[t].arg
        OBVIOUS
      <4>2. want[t] = AssetLock(a) /\ AssetUsable(a)
        BY <1>0, <2>1, <3>1, <4>1 DEF NamesRight
      <4>3. Secured(t, a)'
        BY <1>a, <3>2, <4>2
      <4> QED
        BY <3>2, <4>1, <4>3 DEF Secured
    <3> QED
      BY <1>b, <2>1, <3>2, <3>3 DEF NamesRight, IncidentPhases, Asking
  <2> QED
    BY <2>2, <2>3
<1>5. CASE InsertVulnerability(t)
  <2>1. pc[t] = "insertVulnerability" /\ pc'[t] = "done"
    BY <1>0, <1>5, DoneMoves DEF InsertVulnerability, At
  <2>2. CASE uses' = uses
    BY <1>b, <1>d, <2>1, <2>2
  <2>3. CASE uses' = Naming(VulnRow(t), req[t].arg)
    <3>1. Secured(t, req[t].arg) /\ VulnRow(t)[1] # "incident"
      BY <1>0, <2>1 DEF NamesRight, VulnRow
    <3> QED
      BY <1>0, <1>d, <2>1, <2>3, <3>1, NamingKept
  <2> QED
    BY <1>5, <2>2, <2>3 DEF InsertVulnerability
<1>6. CASE ProgressVulnerability(t)
  BY <1>0, <1>6, <1>b, <1>d, OnceMoves DEF ProgressVulnerability, registerVars
<1>7. CASE BeginRequestChange(t)
  <2>1. PICK text, a, u :
          Begin(t, "requestChange", [text |-> text, asset |-> a, by |-> u], "requestChange", AssetLock(a))
    BY <1>7 DEF BeginRequestChange
  <2>2. pc'[t] = "requestChange" /\ req'[t].arg.asset = a /\ want'[t] = AssetLock(a)
    BY <1>0, <2>1, BeginMoves
  <2>3. UsesKept'
    BY <1>7, <1>b DEF BeginRequestChange, registerVars
  <2> QED
    BY <1>2, <2>2, <2>3 DEF NamesRight, IncidentPhases, Asking
<1>8. CASE RequestChange(t)
  <2>1. pc[t] = "requestChange" /\ uses' = uses
    BY <1>8 DEF RequestChange, At, registerVars
  <2>2. CASE Done(t)
    BY <1>0, <1>b, <1>d, <2>1, <2>2, DoneMoves
  <2>3. CASE ~Done(t)
    <3>1. AssetUsable(req[t].arg.asset) /\ Goto(t, "commitChange", <<>>, None)
      BY <1>8, <2>3 DEF RequestChange
    <3>2. pc'[t] = "commitChange" /\ req'[t].arg = req[t].arg /\ held'[t] = Taken(t)
      BY <1>0, <3>1, GotoMoves
    <3>3. Secured(t, req[t].arg.asset)'
      <4>1. PICK a : a = req[t].arg.asset
        OBVIOUS
      <4>2. want[t] = AssetLock(a) /\ AssetUsable(a)
        BY <1>0, <2>1, <3>1, <4>1 DEF NamesRight
      <4>3. Secured(t, a)'
        BY <1>a, <3>2, <4>2
      <4> QED
        BY <3>2, <4>1, <4>3 DEF Secured
    <3> QED
      BY <1>b, <2>1, <3>2, <3>3 DEF NamesRight, IncidentPhases, Asking
  <2> QED
    BY <2>2, <2>3
<1>9. CASE CommitChange(t)
  <2>1. pc[t] = "commitChange" /\ pc'[t] = "done" /\ uses' = Naming(ChangeRow(t), req[t].arg.asset)
    BY <1>0, <1>9, DoneMoves DEF CommitChange, At
  <2>2. Secured(t, req[t].arg.asset) /\ ChangeRow(t)[1] # "incident"
    BY <1>0, <2>1 DEF NamesRight, ChangeRow
  <2> QED
    BY <1>0, <1>d, <2>1, <2>2, NamingKept
<1>10. CASE BeginUpdateChangeRequest(t)
  BY <1>0, <1>10, <1>b, <1>d, BeginMoves DEF BeginUpdateChangeRequest, registerVars
<1>11. CASE UpdateChangeRequest(t)
  <2>1. pc[t] = "updateChangeRequest" /\ uses' = uses
    BY <1>11 DEF UpdateChangeRequest, At, registerVars
  <2>2. CASE Done(t)
    BY <1>0, <1>b, <1>d, <2>1, <2>2, DoneMoves
  <2>3. CASE ~Done(t)
    <3>1. PICK c, a : c = req[t].arg.id /\ a = req[t].arg.asset
      OBVIOUS
    <3>2. PICK there \in BOOLEAN : there <=> a = AssetOf(ChangeRow(c))
      OBVIOUS
    <3>3. Goto(t, "linkChange", IF there THEN <<>> ELSE AssetLock(a), ~there)
      BY <1>11, <2>3, <3>1, <3>2, Zenon DEF UpdateChangeRequest
    <3>4. /\ pc'[t] = "linkChange" /\ req'[t].arg = req[t].arg /\ req'[t].saw = ~there
          /\ want'[t] = IF there THEN <<>> ELSE AssetLock(a)
      BY <1>0, <2>1, <3>3, GotoMoves
    <3>5. AssetOf(ChangeRow(c))' = AssetOf(ChangeRow(c))
      BY <2>1 DEF AssetOf
    <3> QED
      BY <1>2, <1>b, <2>1, <3>1, <3>2, <3>4, <3>5 DEF NamesRight, IncidentPhases, Asking
  <2> QED
    BY <2>2, <2>3
<1>12. CASE LinkChange(t)
  <2>1. pc[t] = "linkChange" /\ uses' = uses
    BY <1>12 DEF LinkChange, At, registerVars
  <2>2. CASE Done(t)
    BY <1>0, <1>b, <1>d, <2>1, <2>2, DoneMoves
  <2>3. CASE ~Done(t)
    <3>1. PICK c, a : c = req[t].arg.id /\ a = req[t].arg.asset
      OBVIOUS
    <3>2. (req[t].saw => AssetUsable(a)) /\ Goto(t, "writeChange", <<>>, None)
      BY <1>12, <2>3, <3>1 DEF LinkChange
    <3>3. pc'[t] = "writeChange" /\ req'[t].arg = req[t].arg /\ held'[t] = Taken(t)
      BY <1>0, <3>2, GotoMoves
    <3>4. AssetOf(ChangeRow(c))' = AssetOf(ChangeRow(c))
      BY <2>1 DEF AssetOf
    <3>5. (want[t] = AssetLock(a) /\ AssetUsable(a)) \/ a = AssetOf(ChangeRow(c))
      BY <1>0, <2>1, <3>1, <3>2 DEF NamesRight
    <3>6. Secured(t, a)' \/ a = AssetOf(ChangeRow(c))'
      BY <1>a, <3>3, <3>4, <3>5
    <3>7. Secured(t, req[t].arg.asset)' \/ (req[t].arg.asset = AssetOf(ChangeRow(req[t].arg.id)))'
      BY <3>1, <3>3, <3>6 DEF Secured
    <3> QED
      BY <1>b, <2>1, <3>3, <3>7 DEF NamesRight, IncidentPhases, Asking
  <2> QED
    BY <2>2, <2>3
<1>13. CASE WriteChange(t)
  <2>0. PICK c, a : c = req[t].arg.id /\ a = req[t].arg.asset
    OBVIOUS
  <2>1. pc[t] = "writeChange" /\ pc'[t] = "done" /\ uses' = Naming(ChangeRow(c), a)
    BY <1>0, <1>13, <2>0, DoneMoves DEF WriteChange, At
  <2>2. Secured(t, a) \/ a = AssetOf(ChangeRow(c))
    BY <1>0, <2>0, <2>1 DEF NamesRight
  <2>3. Secured(t, a) \/ a \in Range(uses) \cup {None}
    BY <1>c, <2>2
  <2>4. ChangeRow(c)[1] # "incident"
    BY DEF ChangeRow
  <2> QED
    BY <1>0, <1>d, <2>1, <2>3, <2>4, NamingKept
<1>14. CASE BeginDecideChangeRequest(t)
  BY <1>0, <1>14, <1>b, <1>d, BeginMoves DEF BeginDecideChangeRequest, registerVars
<1>15. CASE DecideChangeRequest(t)
  BY <1>0, <1>15, <1>b, <1>d, GotoMoves, DoneMoves DEF DecideChangeRequest, registerVars
<1>16. CASE RecordDecision(t)
  BY <1>0, <1>16, <1>b, <1>d, DoneMoves DEF RecordDecision, registerVars
<1>17. CASE ImplementChange(t)
  BY <1>0, <1>17, <1>b, <1>d, OnceMoves DEF ImplementChange, registerVars
<1>18. CASE CancelChange(t)
  BY <1>0, <1>18, <1>b, <1>d, OnceMoves DEF CancelChange, registerVars
<1> QED
  BY <1>3, <1>4, <1>5, <1>6, <1>7, <1>8, <1>9, <1>10, <1>11, <1>12, <1>13, <1>14, <1>15, <1>16, <1>17, <1>18
     DEF ChangeStep

(* Nor does a risk or nobody name an asset.                                *)
LEMMA RisksApart == None \notin Assets /\ \A r \in Risks : r \notin Assets
BY RegisterAssumption

(* A step of the incidents names a risk or nothing.                        *)
LEMMA IncidentNamesRight ==
  ASSUME UsesInv, NEW t \in Requests, IncidentStep(t), Passes(t, IncidentPhases)
  PROVE  NamesRight(t)' /\ UsesKept'
<1>0. Shaped /\ BatchesKept /\ UsesKept /\ NamesRight(t) /\ plan' = plan
  BY DEF UsesInv, RegisterInv, Passes, OnlyMoves
<1>1. asset' = asset
  BY <1>0, IncidentImports
<1>2. \A i : RiskOf(i) \notin Assets
  BY <1>0, RisksApart DEF RiskOf, UsesKept, IncidentRow
<1>b. ASSUME uses' = uses PROVE UsesKept'
  BY <1>0, <1>1, <1>b DEF UsesKept
<1>c. ASSUME pc'[t] \in IncidentPhases, req'[t].arg.risk \notin Assets PROVE NamesRight(t)'
  BY <1>c DEF NamesRight, IncidentPhases, Asking
<1>d. ASSUME pc'[t] = "done" PROVE NamesRight(t)'
  BY <1>d, NamesNothing DEF NamingAssets, IncidentPhases, Asking
<1>e. ASSUME NEW form, NEW phase, NEW locks, Begin(t, "saveIncident", form, phase, locks), form.risk \notin Assets,
             phase \in IncidentPhases
      PROVE  NamesRight(t)'
  BY <1>0, <1>c, <1>e, BeginMoves
<1>f. ASSUME pc[t] \in IncidentPhases, NEW phase \in IncidentPhases, NEW locks, Goto(t, phase, locks, None)
      PROVE  NamesRight(t)'
  BY <1>0, <1>c, <1>f, GotoMoves DEF NamesRight
<1>g. Done(t) => NamesRight(t)'
  BY <1>0, <1>d, DoneMoves
<1> USE DEF registerVars
<1>3. CASE BeginRegisterIncident(t)
  <2>1. PICK form \in IncidentForms(None, RisksOffered) :
          Begin(t, "saveIncident", form, "writeIncident", <<>>)
            \/ Begin(t, "saveIncident", form, "checkOwner", OwnerLocks(form.assignee))
    BY <1>3 DEF BeginRegisterIncident
  <2>2. form.risk \notin Assets
    BY RisksApart DEF IncidentForms, RisksOffered
  <2> QED
    BY <1>3, <1>b, <1>e, <2>1, <2>2 DEF BeginRegisterIncident, IncidentPhases
<1>4. CASE BeginEditIncident(t)
  <2>1. PICK i, form :
          /\ form \in IncidentForms(i, RisksOffered \cup {RiskOf(i)})
          /\ \/ Begin(t, "saveIncident", form, "writeIncident", WriteLock(i))
             \/ Begin(t, "saveIncident", form, "readIncident", <<Lock(Update, IncidentRow(i))>>)
    BY <1>4 DEF BeginEditIncident
  <2>2. form.risk \notin Assets
    BY <1>2, <2>1, RisksApart DEF IncidentForms, RisksOffered
  <2> QED
    BY <1>4, <1>b, <1>e, <2>1, <2>2 DEF BeginEditIncident, IncidentPhases
<1>5. CASE ReadIncident(t)
  BY <1>5, <1>b, <1>f, <1>g DEF ReadIncident, At, IncidentPhases
<1>6. CASE CheckOwner(t)
  BY <1>6, <1>b, <1>f, <1>g DEF CheckOwner, At, IncidentPhases
<1>7. CASE WriteIncident(t)
  BY <1>7, <1>b, <1>f, <1>g DEF WriteIncident, At, IncidentPhases
<1>8. CASE ReferIncident(t)
  BY <1>8, <1>b, <1>f, <1>g DEF ReferIncident, At, IncidentPhases
<1>9. CASE CommitIncident(t)
  <2>1. PICK i, r :
          /\ r \notin Assets
          /\ uses' = Restrict(uses, DOMAIN uses \ {IncidentRow(i)}) \/ uses' = WithRow(uses, IncidentRow(i), r)
    BY <1>0, <1>9 DEF CommitIncident, At, NamesRight, IncidentPhases
  <2>2. UsesKept'
    BY <1>0, <1>1, <2>1 DEF UsesKept, Restrict, WithRow
  <2> QED
    BY <1>9, <1>g, <2>2 DEF CommitIncident
<1> QED
  BY <1>3, <1>4, <1>5, <1>6, <1>7, <1>8, <1>9 DEF IncidentStep

(* So does a step of the decisions.                                        *)
LEMMA DecisionNamesRight ==
  ASSUME UsesInv, NEW t \in Requests, DecisionStep(t), Passes(t, DecisionPhases)
  PROVE  NamesRight(t)' /\ UsesKept'
<1>0. Shaped /\ BatchesKept /\ UsesKept /\ NamesRight(t) /\ plan' = plan
  BY DEF UsesInv, RegisterInv, Passes, OnlyMoves
<1>1. asset' = asset
  BY <1>0, DecisionImports
<1>b. ASSUME uses' = uses PROVE UsesKept'
  BY <1>0, <1>1, <1>b DEF UsesKept
<1>c. ASSUME pc'[t] \in Asking, req'[t].arg.asked.risk \notin Assets PROVE NamesRight(t)'
  BY <1>c DEF NamesRight, IncidentPhases, Asking
<1>d. ASSUME pc'[t] \notin Asking PROVE NamesRight(t)'
  BY <1>d, NamesNothing DEF NamingAssets, IncidentPhases, Asking, Passes, DecisionPhases
<1>f. ASSUME pc[t] \in Asking, NEW phase \in Asking, NEW locks, Goto(t, phase, locks, None)
      PROVE  NamesRight(t)'
  BY <1>0, <1>c, <1>f, GotoMoves DEF NamesRight
<1>g. Done(t) => NamesRight(t)'
  BY <1>0, <1>d, DoneMoves DEF Asking
<1> USE DEF registerVars
<1>2. CASE BeginAcceptRisk(t)
  BY <1>0, <1>2, <1>b, <1>d, BeginMoves DEF BeginAcceptRisk, Asking
<1>3. CASE AcceptRisk(t)
  BY <1>0, <1>3, <1>b, <1>d, <1>g, GotoMoves DEF AcceptRisk, Asking
<1>4. CASE AcceptOperation(t)
  BY <1>0, <1>4, <1>b, <1>d, <1>g, GotoMoves DEF AcceptOperation, Asking
<1>5. CASE ApproveAcceptance(t)
  BY <1>0, <1>5, <1>b, <1>d, <1>g, GotoMoves DEF ApproveAcceptance, Asking
<1>6. CASE AcceptSnapshot(t)
  BY <1>0, <1>6, <1>b, <1>d, <1>g, GotoMoves DEF AcceptSnapshot, Asking
<1>7. CASE RecordAcceptance(t)
  BY <1>7, <1>b, <1>g DEF RecordAcceptance
<1>8. CASE BeginRequestDeviation(t)
  <2>1. PICK r, u, by :
          /\ r \in Risks
          /\ Begin(t, "requestDeviation", [asked |-> [risk |-> r, owner |-> u], by |-> by], "requestDeviation", <<>>)
    BY <1>8 DEF BeginRequestDeviation, ActiveRisks
  <2>2. pc'[t] = "requestDeviation" /\ req'[t].arg.asked.risk = r
    BY <1>0, <2>1, BeginMoves
  <2> QED
    BY <1>8, <1>b, <1>c, <2>1, <2>2, RisksApart DEF BeginRequestDeviation, Asking
<1>9. CASE RequestDeviation(t)
  BY <1>9, <1>b, <1>f, <1>g DEF RequestDeviation, At, Asking
<1>10. CASE InsertDeviation(t)
  BY <1>10, <1>b, <1>f, <1>g DEF InsertDeviation, At, Asking
<1>11. CASE LinkDeviation(t)
  BY <1>11, <1>b, <1>f, <1>g DEF LinkDeviation, At, Asking
<1>12. CASE CommitDeviation(t)
  <2>1. PICK r : r \notin Assets /\ uses' = WithRow(uses, DeviationRow(t), r)
    BY <1>0, <1>12 DEF CommitDeviation, At, NamesRight, Asking
  <2>2. UsesKept'
    BY <1>0, <1>1, <2>1 DEF UsesKept, WithRow
  <2> QED
    BY <1>12, <1>g, <2>2 DEF CommitDeviation
<1>13. CASE BeginDecideDeviation(t)
  BY <1>0, <1>13, <1>b, <1>d, BeginMoves DEF BeginDecideDeviation, Asking
<1>14. CASE DecideDeviation(t)
  BY <1>14, <1>b, <1>g DEF DecideDeviation
<1> QED
  BY <1>2, <1>3, <1>4, <1>5, <1>6, <1>7, <1>8, <1>9, <1>10, <1>11, <1>12, <1>13, <1>14 DEF DecisionStep

(* Requests that the step is not of go on naming what is right.            *)
LEMMA OthersNameRight ==
  ASSUME UsesInv, [Next]_vars, NEW t \in Requests, NEW phases, Passes(t, phases), NEW s \in Requests \ {t}
  PROVE  NamesRight(s)'
<1>1. pc'[s] = pc[s] /\ req'[s] = req[s] /\ held'[s] = held[s] /\ want'[s] = want[s]
  BY DEF Passes, OnlyMoves
<1> QED
  BY <1>1, NamesStay DEF UsesInv

(* Elsewhere as well.                                                      *)
LEMMA NamesStand ==
  ASSUME UsesInv, [Next]_vars, Elsewhere(NamingPhases), uses' = uses
  PROVE  UsesKept' /\ \A s \in Requests : NamesRight(s)'
<1>1. UsesKept'
  <2>1. ASSUME NEW row \in DOMAIN uses, uses[row] \in Assets PROVE asset'[uses[row]].status = "active"
    <3>1. uses[row] \in Range(uses)
      BY DEF Range
    <3> QED
      BY <2>1, <3>1, NamedStaysActive DEF UsesInv
  <2> QED
    BY <2>1 DEF UsesKept, UsesInv
<1>2. ASSUME NEW s \in Requests PROVE NamesRight(s)'
  <2>1. CASE pc'[s] \in NamingPhases
    <3>1. /\ pc'[s] = pc[s] /\ req'[s] = req[s] /\ held[s] \subseteq held'[s]
          /\ Len(want[s]) <= 1 => want'[s] = want[s]
      BY <2>1 DEF Elsewhere
    <3> QED
      BY <3>1, NamesStay DEF UsesInv
  <2>2. CASE pc'[s] \notin NamingPhases
    BY <2>2, NamesNothing DEF NamingAssets, NamingPhases, ChangeControlPhases, DecisionPhases, Asking
  <2> QED
    BY <2>1, <2>2
<1> QED
  BY <1>1, <1>2

(* Every step keeps what rows name.                                        *)
LEMMA UsesStepKept == UsesInv /\ [Next]_vars => UsesInv'
<1> SUFFICES ASSUME UsesInv, [Next]_vars PROVE UsesInv'
  OBVIOUS
<1>1. Shaped /\ BatchesKept /\ RegisterInv /\ ChangeInv
  BY DEF UsesInv, RegisterInv
<1>2. RegisterInv'
  BY <1>1, RegisterKept
<1>3. ChangeInv'
  BY <1>1, ChangesSteps, ChangeStepKept, ChangesStand
<1>4. ASSUME NEW t \in Requests, NEW phases, Passes(t, phases), NamesRight(t)' /\ UsesKept' PROVE UsesInv'
  BY <1>2, <1>3, <1>4, OthersNameRight DEF UsesInv
<1>5. ASSUME NEW t \in Requests, ChangeStep(t), Passes(t, ChangeControlPhases) PROVE UsesInv'
  BY <1>4, <1>5, ChangeNamesRight
<1>6. ASSUME NEW t \in Requests, IncidentStep(t), Passes(t, IncidentPhases) PROVE UsesInv'
  BY <1>4, <1>6, IncidentNamesRight
<1>7. ASSUME NEW t \in Requests, DecisionStep(t), Passes(t, DecisionPhases) PROVE UsesInv'
  BY <1>4, <1>7, DecisionNamesRight
<1>8. CASE uses' = uses /\ Elsewhere(NamingPhases)
  BY <1>2, <1>3, <1>8, NamesStand DEF UsesInv
<1> QED
  BY <1>1, <1>5, <1>6, <1>7, <1>8, UsesSteps

(* At first rows name active assets, and nobody is about to name anything. *)
LEMMA UsesInitial == Init => UsesInv
<1> SUFFICES ASSUME Init PROVE UsesInv
  OBVIOUS
<1>1. PICK name \in DOMAIN Plans : asset = Plans[name].tables.asset /\ uses = Plans[name].tables.uses
  BY DEF Init
<1>2. UsesKept
  <2>1. ASSUME NEW row \in DOMAIN uses
        PROVE  IF row[1] \in {"vulnerability", "change"} THEN asset[uses[row]].status = "active"
                                                       ELSE uses[row] \notin Assets
    BY <1>1, RegisterAssumption
  <2> QED
    BY <2>1 DEF UsesKept
<1>3. \A t \in Requests : NamesRight(t)
  BY ShapedInit DEF NamesRight, IncidentPhases, Asking
<1> QED
  BY <1>2, <1>3, RegisterInitial, ChangesInitial DEF UsesInv

-----------------------------------------------------------------------------
(* What departments use.                                                   *)

Used(d) == \E row \in usage : row[1] = d

(* The undo of an import of departments deletes some that the import made, *)
(* and none that uses a system.                                            *)
LEMMA DeletedIsUnused ==
  ASSUME NEW b, Cardinality(batches[b].items) \in Nat, NEW d \in DeletedBy(b)
  PROVE  ~Used(d) /\ d \in batches[b].items \cap DOMAIN dept
<1> DEFINE S == SUBSET {x \in batches[b].items \cap DOMAIN dept : ~Used(x)}
           step(v) == v \cup Deletable(b, v)
<1>n. PICK n \in Nat : n = Cardinality(batches[b].items)
  OBVIOUS
<1> DEFINE next == [v \in S \X (1..n) |-> step(v[1])]
           Rule(f) == f = [i \in 0..n |-> IF i = 0 THEN {} ELSE f[i - 1] \cup Deletable(b, f[i - 1])]
<1>1. \A v \in S : step(v) \in S
  BY DEF Deletable, Used
<1>2. {} \in S
  OBVIOUS
<1> HIDE DEF S, step
<1>3. \A v \in S : \A i \in 1..n : next[<<v, i>>] = step(v)
  OBVIOUS
<1> HIDE DEF next
<1>4. Stepping(S, {}, next, n)
  BY <1>1, <1>2, <1>3 DEF Stepping
<1>5. PICK f : Stepwise(f, S, {}, next, n)
  BY <1>4, StepByStep
<1>6. ASSUME NEW i \in 0..n PROVE f[i] = IF i = 0 THEN {} ELSE step(f[i - 1])
  <2>1. i # 0 => i \in 1..n /\ i - 1 \in 0..n
    OBVIOUS
  <2>2. i # 0 => f[i - 1] \in S
    BY <1>5, <2>1 DEF Stepwise
  <2> QED
    BY <1>3, <1>5, <2>1, <2>2 DEF Stepwise
<1>7. Rule(f)
  <2>1. f = [i \in 0..n |-> f[i]]
    BY <1>5 DEF Stepwise
  <2> QED
    BY <1>6, <2>1, Zenon DEF step
<1>8. PICK gone : Rule(gone) /\ DeletedBy(b) = gone[n]
  BY <1>n, <1>7, Zenon DEF DeletedBy
<1>9. ASSUME NEW i \in 0..n PROVE gone[i] = IF i = 0 THEN {} ELSE step(gone[i - 1])
  BY <1>8, Zenon DEF step
<1>10. StepsBy(gone, S, {}, next, n)
  <2>1. 0 \in 0..n /\ \A i \in 1..n : i \in 0..n /\ i # 0
    OBVIOUS
  <2> QED
    BY <1>3, <1>9, <2>1 DEF StepsBy
<1>11. gone[n] \in S
  BY <1>4, <1>10, StepsStay
<1> QED
  BY <1>8, <1>11 DEF S

(* The names in a file are finitely many.                                  *)
LEMMA NamesAreFinite ==
  ASSUME NEW file, file \in Seq(Range(file)), NEW t PROVE IsFiniteSet({<<t, name>> : name \in NamesIn(file)})
<1> DEFINE T == {<<t, name>> : name \in NamesIn(file)}
           f == [i \in 1..Len(file) |-> <<t, file[i].name>>]
<1>1. Len(file) \in Nat /\ DOMAIN file = 1..Len(file)
  OBVIOUS
<1>2. IsFiniteSet(1..Len(file))
  BY <1>1, FS_Interval
<1>3. f \in Surjection(1..Len(file), T)
  BY <1>1 DEF Surjection, NamesIn
<1> QED
  BY <1>2, <1>3, FS_Surjection

(* Phases of the departments and of the systems, and of nobody else.       *)
UsagePhases == OrganisationPhases \cup ApplicationsPhases

(* A step is one of the departments, or one of the systems, or leaves what *)
(* departments use.                                                        *)
LEMMA UsageSteps ==
  ASSUME Shaped, BatchesKept, [Next]_vars
  PROVE  \/ \E t \in Requests : OrganisationStep(t) /\ Passes(t, OrganisationPhases)
         \/ \E t \in Requests : SystemsStep(t) /\ Passes(t, ApplicationsPhases)
         \/ usage' = usage /\ Elsewhere(UsagePhases)
<1> DEFINE Apart == Elsewhere(UsagePhases)
<1>1. ASSUME NEW t \in Requests, Shared(t) \/ Files(t) \/ Register(t) \/ Policies(t) \/ Work(t)
                                 \/ ChangeControl(t) \/ Incident(t) \/ Decision(t)
      PROVE  usage' = usage
  BY <1>1, WorkImports, IncidentImports, DecisionImports
     DEF Shared, Files, Register, Policies, Work, ChangeControl, Incident, Decision, organisationVars
<1>2. ASSUME NEW t \in Requests, Audit(t) \/ Journal(t) \/ Standing(t) \/ Competence(t) \/ Devices(t) \/ Steps(t)
                                 \/ Control(t) \/ Passwords(t)
      PROVE  usage' = usage
  BY <1>2, JournalKeepsOrganisation
     DEF Audit, Journal, Standing, Competence, Devices, Steps, Control, Passwords, organisationVars
<1>3. ASSUME NEW t \in Requests, Files(t) \/ Register(t) \/ Policies(t) \/ Work(t)
                                 \/ ChangeControl(t) \/ Incident(t) \/ Decision(t)
      PROVE  Apart
  BY <1>3, PassesElsewhere, FilesPasses, RegisterPasses, PoliciesPasses, WorkPasses,
     ChangeControlPasses, IncidentPasses, DecisionPasses
     DEF UsagePhases, OrganisationPhases, ApplicationsPhases, Files, FilesPhases, Register, RegisterPhases,
         Policies, PoliciesPhases, Work, WorkPhases, ChangeControl, ChangeControlPhases,
         Incident, IncidentPhases, Decision, DecisionPhases
<1>4. ASSUME NEW t \in Requests, Audit(t) \/ Journal(t) \/ Standing(t) \/ Competence(t) \/ Devices(t) \/ Steps(t)
                                 \/ Control(t) \/ Passwords(t)
      PROVE  Apart
  BY <1>4, PassesElsewhere, AuditPasses, JournalPasses, StandingPasses, CompetencePasses, DevicesPasses,
     StepsPasses, ControlPasses, PasswordsPasses
     DEF UsagePhases, OrganisationPhases, ApplicationsPhases, Audit, AuditPhases, Journal, JournalPhases,
         Standing, StandingPhases, Competence, CompetencePhases, Devices, DevicesPhases, Steps, StepsPhases,
         Control, ControlPhases, Passwords, PasswordsPhases
<1>5. ASSUME NEW t \in Requests, Shared(t)
      PROVE  Apart
  BY <1>5, SharedElsewhere DEF UsagePhases, OrganisationPhases, ApplicationsPhases
<1>6. ASSUME NEW t \in Requests, Organisation(t)
      PROVE  \/ OrganisationStep(t) /\ Passes(t, OrganisationPhases)
             \/ usage' = usage /\ Apart
  <2>1. ASSUME ChartStep(t) PROVE usage' = usage
    BY <2>1 DEF ChartStep, BeginOrgChart, ReadNodes, ReadMemberships, ShowOrgChart, organisationVars
  <2>2. ASSUME ChartStep(t) PROVE Apart
    BY <2>2, ChartPasses, PassesElsewhere DEF ChartPhases, UsagePhases, OrganisationPhases, ApplicationsPhases
  <2> QED
    BY <1>6, <2>1, <2>2, OrganisationPasses DEF Organisation
<1>7. ASSUME NEW t \in Requests, Applications(t)
      PROVE  SystemsStep(t) /\ Passes(t, ApplicationsPhases)
  BY <1>7, ApplicationsPasses DEF Applications
<1>8. ASSUME TimePasses \/ Outside \/ Machinery \/ Terminated \/ UNCHANGED vars
      PROVE  usage' = usage /\ Apart
  BY <1>8, RestElsewhere
     DEF TimePasses, ExpireException, ReviewDayComes, EntryFallsDue, DayPasses, DeviationLapses, Outside,
         PortalChanges, SeedLoads, Machinery, Orchestrator, Terminated, vars, organisationVars
<1> QED
  BY <1>1, <1>2, <1>3, <1>4, <1>5, <1>6, <1>7, <1>8 DEF Next

(* The undo of departments is the only step of theirs after which they use *)
(* less, and it is begun for a batch of departments.                       *)
LEMMA OrganisationUses ==
  ASSUME Shaped, NEW t \in Requests, OrganisationStep(t)
  PROVE  /\ usage' = usage \/ UndoDepartments(t)
         /\ pc'[t] = "undoDepartments" => BeginUndoDepartments(t)
<1> USE BeginMoves, GotoMoves, DoneMoves DEF organisationVars, At
<1>1. CASE BeginImportDepartments(t)  BY <1>1 DEF BeginImportDepartments, BeginImport
<1>2. CASE ReadDepartments(t)  BY <1>2 DEF ReadDepartments
<1>3. CASE ExamineDepartments(t)
  <2>1. pc[t] = "examineDepartments" /\ plan' = plan /\ usage' = usage
    BY <1>3 DEF ExamineDepartments, Refused
  <2>2. CASE Done(t)
    BY <2>1, <2>2
  <2>3. CASE ~Done(t)
    <3>1. PICK locks, saw : Goto(t, "insertDepartments", locks, saw)
      BY <1>3, <2>3, Zenon DEF ExamineDepartments, Refused
    <3> QED
      BY <2>1, <3>1
  <2> QED
    BY <2>2, <2>3
<1>4. CASE InsertDepartments(t)  BY <1>4 DEF InsertDepartments, Refused
<1>5. CASE CommitDepartments(t)  BY <1>5 DEF CommitDepartments, Imported
<1>6. CASE BeginUndoDepartments(t)  BY <1>6 DEF BeginUndoDepartments
<1>7. CASE UndoDepartments(t)  BY <1>7 DEF UndoDepartments, Refused, Undone
<1>8. CASE BeginImportAssignments(t)  BY <1>8 DEF BeginImportAssignments, BeginImport
<1>9. CASE ReadAssignments(t)  BY <1>9 DEF ReadAssignments
<1>10. CASE ExamineAssignments(t)
  <2>1. pc[t] = "examineAssignments" /\ plan' = plan /\ usage' = usage
    BY <1>10 DEF ExamineAssignments, Refused
  <2>2. CASE Done(t)
    BY <2>1, <2>2
  <2>3. CASE ~Done(t)
    <3>1. PICK targets : AssignFrom(t, 1, targets, <<>>, <<>>)
      BY <1>10, <2>3, Zenon DEF ExamineAssignments, Refused
    <3> QED
      BY <2>1, <3>1 DEF AssignFrom
  <2> QED
    BY <2>2, <2>3
<1>11. CASE AssignMember(t)  BY <1>11 DEF AssignMember, Refused, AssignFrom
<1>12. CASE CommitAssignments(t)  BY <1>12 DEF CommitAssignments, Refused, Imported
<1>13. CASE BeginUndoAssignments(t)  BY <1>13 DEF BeginUndoAssignments, BeginUndo
<1>14. CASE UndoAssignments(t)  BY <1>14 DEF UndoAssignments
<1>15. CASE RestoreAssignments(t)  BY <1>15 DEF RestoreAssignments, Refused, Undone
<1>16. CASE BeginSaveDepartment(t)  BY <1>16 DEF BeginSaveDepartment
<1>17. CASE SaveDepartment(t)  BY <1>17 DEF SaveDepartment
<1>18. CASE CommitDepartment(t)  BY <1>18 DEF CommitDepartment
<1>19. CASE BeginUpdateDepartment(t)  BY <1>19 DEF BeginUpdateDepartment
<1>20. CASE UpdateDepartment(t)  BY <1>20 DEF UpdateDepartment
<1>21. CASE WriteDepartment(t)  BY <1>21 DEF WriteDepartment
<1>22. CASE BeginSaveMembership(t)  BY <1>22 DEF BeginSaveMembership
<1>23. CASE SaveMembership(t)  BY <1>23 DEF SaveMembership
<1>24. CASE CommitMembership(t)  BY <1>24 DEF CommitMembership
<1>25. CASE BeginSaveMemberRole(t)  BY <1>25 DEF BeginSaveMemberRole
<1>26. CASE SaveMemberRole(t)  BY <1>26 DEF SaveMemberRole
<1> QED
  BY <1>1, <1>2, <1>3, <1>4, <1>5, <1>6, <1>7, <1>8, <1>9, <1>10, <1>11, <1>12, <1>13, <1>14, <1>15, <1>16,
     <1>17, <1>18, <1>19, <1>20, <1>21, <1>22, <1>23, <1>24, <1>25, <1>26 DEF OrganisationStep

(* Of the steps of the systems it is removeDepartmentSystem.               *)
LEMMA SystemsUse ==
  ASSUME Shaped, NEW t \in Requests, SystemsStep(t)
  PROVE  /\ usage \subseteq usage' \/ RemoveDepartmentSystem(t)
         /\ pc'[t] = "removeDepartmentSystem" => req'[t].op = "removeDepartmentSystem"
<1> USE BeginMoves, GotoMoves, DoneMoves DEF organisationVars, At
<1>1. CASE BeginSaveSystem(t)  BY <1>1 DEF BeginSaveSystem
<1>2. CASE ReadSystemKeys(t)  BY <1>2 DEF ReadSystemKeys
<1>3. CASE CreateSystem(t)  BY <1>3 DEF CreateSystem
<1>4. CASE BeginUpdateSystem(t)  BY <1>4 DEF BeginUpdateSystem
<1>5. CASE CountLocated(t)  BY <1>5 DEF CountLocated, LooksForAssets
<1>6. CASE LookAgain(t)  BY <1>6 DEF LookAgain, LooksForAssets
<1>7. CASE WriteSystem(t)  BY <1>7 DEF WriteSystem
<1>8. CASE BeginSaveDepartmentSystem(t)  BY <1>8 DEF BeginSaveDepartmentSystem
<1>9. CASE SaveDepartmentSystem(t)  BY <1>9 DEF SaveDepartmentSystem
<1>10. CASE ReferDepartment(t)  BY <1>10 DEF ReferDepartment
<1>11. CASE CommitUsage(t)  BY <1>11 DEF CommitUsage
<1>12. CASE BeginRemoveDepartmentSystem(t)  BY <1>12 DEF BeginRemoveDepartmentSystem
<1>13. CASE RemoveDepartmentSystem(t)  BY <1>13 DEF RemoveDepartmentSystem
<1> QED
  BY <1>1, <1>2, <1>3, <1>4, <1>5, <1>6, <1>7, <1>8, <1>9, <1>10, <1>11, <1>12, <1>13 DEF SystemsStep

(* A batch of departments made finitely many, an undo of them is of such a *)
(* batch, and who removes what a department uses was asked to.             *)
UsageInv ==
  /\ RegisterInv /\ OrganisationInv
  /\ \A b \in Stamps : batches[b].kind = "departments" => IsFiniteSet(batches[b].items)
  /\ \A t \in Requests :
       /\ pc[t] = "undoDepartments" => req[t].arg \in Stamps /\ batches[req[t].arg].kind = "departments"
       /\ pc[t] = "removeDepartmentSystem" => req[t].op = "removeDepartmentSystem"

(* A batch of departments stays what it is.                                *)
LEMMA DepartmentsStay ==
  ASSUME RegisterInv, OrganisationInv, [Next]_vars, NEW b \in Stamps, batches[b].kind = "departments"
  PROVE  batches'[b].kind = "departments"
<1>1. Shaped /\ BatchesKept /\ (b \in Requests => pc[b] = "done")
  BY DEF OrganisationInv, Proceeds, NotYet
<1>2. CASE RegistersStay
  BY <1>1, <1>2 DEF RegistersStay
<1>3. ASSUME NEW t \in Requests, RegisterStep(t), Passes(t, RegisterPhases)
      PROVE  batches'[b].kind = "departments"
  <2>1. pc[t] # "done" /\ ImportsOnly(t, {"assets", "risks"})
    BY <1>1, <1>3, RegisterImports DEF Passes, RegisterPhases
  <2> QED
    BY <1>1, <2>1 DEF ImportsOnly
<1> QED
  BY <1>1, <1>2, <1>3, RegisterSteps

(* Finitely many are made.                                                 *)
LEMMA MadeAreFinite ==
  ASSUME UsageInv, [Next]_vars
  PROVE  \A b \in Stamps : batches'[b].kind = "departments" => IsFiniteSet(batches'[b].items)
<1>1. Shaped /\ BatchesKept
  BY DEF UsageInv, OrganisationInv
<1>2. CASE KindsStay
  BY <1>2 DEF KindsStay, UsageInv
<1>3. ASSUME NEW t \in Requests, CommitDepartments(t)
      PROVE  \A b \in Stamps : batches'[b].kind = "departments" => IsFiniteSet(batches'[b].items)
  <2>1. File(t) \in Plan.files /\ plan.name \in DOMAIN Plans
    BY <1>3 DEF CommitDepartments, At, UsageInv, OrganisationInv, Proceeds, OfPlan, Importing, Shaped
  <2>2. File(t) \in Seq(Range(File(t)))
    BY <2>1, DepartmentsAssumption DEF Plan
  <2>3. IsFiniteSet({<<t, name>> : name \in NamesIn(File(t))})
    BY <2>2, NamesAreFinite
  <2>4. batches' = [batches EXCEPT ![t] = Batch("departments", {<<t, name>> : name \in NamesIn(File(t))})]
    BY <1>3 DEF CommitDepartments, Imported
  <2> QED
    BY <1>1, <2>3, <2>4 DEF Batch, BatchesKept, UsageInv
<1>4. ASSUME NEW t \in Requests, OrganisationStep(t) PROVE KindsStay \/ CommitDepartments(t)
  BY <1>1, <1>4, OrganisationImports, OtherKinds
<1>5. ASSUME NEW t \in Requests, ChartStep(t) PROVE KindsStay
  BY <1>1, <1>5, SameKinds DEF ChartStep, BeginOrgChart, ReadNodes, ReadMemberships, ShowOrgChart
<1> QED
  BY <1>1, <1>2, <1>3, <1>4, <1>5, OrganisationSteps

(* A request goes on removing what it was asked to.                        *)
LEMMA UsageKept ==
  ASSUME UsageInv, [Next]_vars PROVE UsageInv'
<1>1. Shaped /\ BatchesKept /\ RegisterInv /\ OrganisationInv
  BY DEF UsageInv, OrganisationInv
<1>2. RegisterInv' /\ OrganisationInv'
  BY <1>1, RegisterKept, OrganisationKept
<1> DEFINE Right(t) ==
             /\ pc[t] = "undoDepartments" => req[t].arg \in Stamps /\ batches[req[t].arg].kind = "departments"
             /\ pc[t] = "removeDepartmentSystem" => req[t].op = "removeDepartmentSystem"
<1>3. ASSUME NEW s \in Requests, pc'[s] = pc[s], req'[s] = req[s] PROVE Right(s)'
  BY <1>1, <1>3, DepartmentsStay DEF UsageInv
<1>4. ASSUME NEW t \in Requests, NEW phases, Passes(t, phases), Right(t)' PROVE \A s \in Requests : Right(s)'
  BY <1>3, <1>4 DEF Passes, OnlyMoves
<1> SUFFICES \A t \in Requests : Right(t)'
  BY <1>2, MadeAreFinite DEF UsageInv
<1>5. CASE Elsewhere(UsagePhases)
  BY <1>3, <1>5 DEF Elsewhere, UsagePhases, OrganisationPhases, ApplicationsPhases
<1>6. ASSUME NEW t \in Requests, OrganisationStep(t), Passes(t, OrganisationPhases) PROVE Right(t)'
  <2>1. pc'[t] # "removeDepartmentSystem"
    BY <1>6 DEF Passes, OrganisationPhases
  <2>2. CASE BeginUndoDepartments(t)
    <3>1. PICK b, locks :
            b \in Stamps /\ batches[b].kind = "departments" /\ BeginUndo(t, "undoDepartments", b, locks)
      BY <2>2 DEF BeginUndoDepartments
    <3>2. req'[t].arg = b /\ batches' = batches
      BY <1>1, <3>1, BeginMoves DEF BeginUndo
    <3> QED
      BY <2>1, <3>1, <3>2
  <2> QED
    BY <1>1, <1>6, <2>1, <2>2, OrganisationUses
<1>7. ASSUME NEW t \in Requests, SystemsStep(t), Passes(t, ApplicationsPhases) PROVE Right(t)'
  BY <1>1, <1>7, SystemsUse DEF Passes, ApplicationsPhases
<1> HIDE DEF Right
<1> QED
  BY <1>1, <1>4, <1>5, <1>6, <1>7, UsageSteps

(* What no department uses any more was removed by somebody asked to.      *)
LEMMA UsageIsRemoved ==
  ASSUME UsageInv, [Next]_vars, NEW row \in usage \ usage'
  PROVE  \E t \in Requests : req[t].op = "removeDepartmentSystem" /\ req[t].arg = row
<1>1. Shaped /\ BatchesKept
  BY DEF UsageInv, OrganisationInv
<1>2. ASSUME NEW t \in Requests, UndoDepartments(t) PROVE FALSE
  <2>1. PICK b : b = req[t].arg
    OBVIOUS
  <2>2. Cardinality(batches[b].items) \in Nat
    BY <1>2, <2>1, FS_CardinalityType DEF UndoDepartments, At, UsageInv
  <2>3. usage' = usage \/ usage' = {r \in usage : r[1] \notin DeletedBy(b)}
    BY <1>2, <2>1 DEF UndoDepartments
  <2> QED
    BY <2>2, <2>3, DeletedIsUnused DEF Used
<1>3. ASSUME NEW t \in Requests, RemoveDepartmentSystem(t)
      PROVE  req[t].op = "removeDepartmentSystem" /\ req[t].arg = row
  BY <1>3 DEF RemoveDepartmentSystem, At, UsageInv
<1> QED
  BY <1>1, <1>2, <1>3, UsageSteps, OrganisationUses, SystemsUse

(* At first nobody undoes or removes anything.                             *)
LEMMA UsageInitial == Init => UsageInv
<1> SUFFICES ASSUME Init PROVE UsageInv
  OBVIOUS
<1>1. PICK name \in DOMAIN Plans :
        batches = [b \in Stamps |-> IF b = First THEN Plans[name].tables.batch ELSE NoBatch]
  BY DEF Init
<1>2. \A b \in Stamps : batches[b].kind = "departments" => IsFiniteSet(batches[b].items)
  BY <1>1, RegisterAssumption DEF NoBatch
<1> QED
  BY <1>2, ShapedInit, RegisterInitial, OrganisationInit DEF UsageInv

(* The undo of an import takes nothing away that is used or about to be    *)
(* used: an asset or a risk stays active while something refers to it or a *)
(* request has it locked to refer to it, what vulnerabilities and changes  *)
(* name stays active, and a department is not deleted with what it uses    *)
(* (undoImport, against every screen that writes a reference).             *)
THEOREM UndoTakesNothingUsed == Spec => UndoSparesWhatIsUsed
<1>1. Init => UsesInv /\ UsageInv
  BY UsesInitial, UsageInitial
<1>2. UsesInv /\ [Next]_vars => UsesInv'
  BY UsesStepKept
<1>3. UsageInv /\ [Next]_vars => UsageInv'
  BY UsageKept
<1>4. ASSUME UsesInv, UsageInv, [Next]_vars
      PROVE  [ /\ \A a \in Assets : asset[a].status = "active" /\ asset'[a].status = "retired"
                                      => ~AssetReferred(a) /\ ~Referring(AssetRow(a))
               /\ \A r \in Risks : risk[r].status = "active" /\ risk'[r].status = "retired"
                                      => ~RiskReferred(r) /\ ~Referring(RiskRow(r))
               /\ \A row \in DOMAIN uses' : uses'[row] \in Assets => asset'[uses'[row]].status = "active"
               /\ \A row \in usage \ usage' :
                    \E t \in Requests : req[t].op = "removeDepartmentSystem" /\ req[t].arg = row ]_vars
  <2>1. UsesKept' /\ RegisterInv
    BY <1>2, <1>4 DEF UsesInv
  <2>2. \A row \in DOMAIN uses' : uses'[row] \in Assets => asset'[uses'[row]].status = "active"
    BY <2>1 DEF UsesKept
  <2>3. \A row \in usage \ usage' : \E t \in Requests : req[t].op = "removeDepartmentSystem" /\ req[t].arg = row
    BY <1>4, UsageIsRemoved
  <2>4. /\ \A a \in Assets : asset[a].status = "active" /\ asset'[a].status = "retired"
                               => ~AssetReferred(a) /\ ~Referring(AssetRow(a))
        /\ \A r \in Risks : risk[r].status = "active" /\ risk'[r].status = "retired"
                               => ~RiskReferred(r) /\ ~Referring(RiskRow(r))
    BY <1>4, <2>1, RetiredUnused
  <2> QED
    BY <2>2, <2>3, <2>4
<1> QED
  BY <1>1, <1>2, <1>3, <1>4, PTL DEF Spec, UndoSparesWhatIsUsed

-----------------------------------------------------------------------------
(* At first nobody writes anything.                                        *)
LEMMA StandsInitial == Init => StandsInv /\ AcceptsInv /\ GivesInv
<1> SUFFICES ASSUME Init PROVE StandsInv /\ AcceptsInv /\ GivesInv
  OBVIOUS
<1>1. Shaped /\ RegisterInv /\ \A t \in Requests : pc[t] = "idle"
  BY ShapedInit, RegisterInitial
<1>2. PICK name \in DOMAIN Plans :
        active = People /\ member = Plans[name].tables.member /\ incident = Plans[name].tables.incident
  BY DEF Init
<1>3. MembersKept
  BY <1>2, DepartmentsAssumption DEF MembersKept
<1>4. MadeByDone
  BY <1>2, IncidentsAssumption DEF MadeByDone
<1>5. StandsInv
  BY <1>1 DEF StandsInv, Testing, StandingPhases
<1>6. AcceptsInv
  BY <1>1 DEF AcceptsInv, Evaluating, Accepting, AcceptingPhases
<1>7. GivesInv
  BY <1>1, <1>3, <1>4 DEF GivesInv, Stopping, Revoking, Giving, Writing, IncidentPhases
<1> QED
  BY <1>5, <1>6, <1>7

(* What a record is written of stands at that moment: an incident is given *)
(* to somebody active whose membership stands, a test is recorded of a     *)
(* plan that is not retired, and a risk is accepted as its newest          *)
(* evaluations have it, once for what is asked (saveIncident against       *)
(* saveMemberRole and the screen that stops a person, recordContinuityTest *)
(* against retireContinuityPlan, acceptRisk against addRiskSnapshot).      *)
THEOREM WrittenAsItStands == Spec => WrittenOfWhatStands
<1>1. Init => StandsInv /\ AcceptsInv /\ GivesInv
  BY StandsInitial
<1>2. StandsInv /\ AcceptsInv /\ GivesInv /\ [Next]_vars => StandsInv' /\ AcceptsInv' /\ GivesInv'
  BY StandsKept, AcceptsKept, GivesKept
<1>3. ASSUME StandsInv, AcceptsInv, GivesInv, [Next]_vars
      PROVE  [ /\ \A i \in DOMAIN incident' :
                    LET u == incident'[i].assignee
                    IN  u # None /\ (i \in DOMAIN incident => incident[i].assignee # u)
                          => u \in active' /\ ~member'[Ownership(u)].revoked
               /\ \A x \in DOMAIN tests' \ DOMAIN tests : standing[tests'[x]].active
               /\ \A x \in DOMAIN acceptances' \ DOMAIN acceptances :
                    LET asked == acceptances'[x].asked
                    IN  /\ <<asked.residual, asked.inherent>> \in ToAccept(asked.risk, acceptances'[x].day)
                        /\ evaluations[asked.residual].level <= evaluations[asked.inherent].level
                        /\ \A y \in DOMAIN acceptances : acceptances[y].asked # asked ]_vars
  <2>1. GivenNew /\ TestsStand /\ AcceptedNew
    BY <1>3, StandsKept, AcceptsKept, GivesKept
  <2> QED
    BY <2>1 DEF GivenNew, TestsStand, AcceptedNew, ToBeAccepted
<1> QED
  BY <1>1, <1>2, <1>3, PTL DEF Spec, WrittenOfWhatStands

-----------------------------------------------------------------------------
(* Policies: imports of drafts and their undo.                             *)

(* Imports of policies and their undo never wait for one another in a      *)
(* circle, whatever files they have and in whatever order they found what  *)
(* they lock: the importer and undoImportPolicies lock the policies in the *)
(* order of their ids, then the versions.                                  *)
THEOREM PoliciesInOneOrder == Spec => []PoliciesNeverDeadlock
<1>1. Init => PoliciesInv
  BY PoliciesInitial
<1>2. PoliciesInv /\ [Next]_vars => PoliciesInv'
  BY PoliciesKept
<1>3. PoliciesInv => PoliciesNeverDeadlock
  BY NoCircleOfPolicies
<1> QED
  BY <1>1, <1>2, <1>3, PTL DEF Spec

-----------------------------------------------------------------------------
(* Imports of departments and of assignments: what they leave.             *)

FiledKinds == {"departments", "assignments"}

(* A step that leaves the imports of departments and of assignments as     *)
(* they are: another import is of a request that is not done.              *)
FiledStay ==
  /\ BatchesKept'
  /\ \A b \in Stamps :
       \/ batches'[b].kind = batches[b].kind /\ batches'[b].items = batches[b].items
       \/ b \in Requests /\ pc[b] # "done" /\ batches'[b].kind \notin FiledKinds

(* Such is one that leaves the batches alone, or imports something else.   *)
LEMMA OthersStayFiled ==
  ASSUME BatchesKept, NEW t \in Requests
  PROVE  /\ UNCHANGED batches => FiledStay
         /\ \A kinds : ImportsOnly(t, kinds) /\ kinds \cap FiledKinds = {} /\ pc[t] # "done" => FiledStay
BY DEF BatchesKept, ImportsOnly, FiledStay

(* A step is one of the departments, or it leaves them, the memberships    *)
(* and the imports of them alone.                                          *)
LEMMA FiledSteps ==
  ASSUME Shaped, BatchesKept, [Next]_vars
  PROVE  \/ \E t \in Requests : OrganisationStep(t) /\ Passes(t, OrganisationPhases)
         \/ FiledStay /\ UNCHANGED <<dept, member>> /\ Elsewhere(OrganisationPhases)
<1>1. ASSUME NEW t \in Requests, Files(t) \/ Register(t) \/ Applications(t) \/ Policies(t) \/ Work(t)
                                 \/ ChangeControl(t) \/ Incident(t) \/ Decision(t)
      PROVE  FiledStay
  <2>1. ImportsOnly(t, {}) \/ ImportsOnly(t, {"assets", "risks"}) \/ ImportsOnly(t, {"policies"})
    BY <1>1, FilesImports, RegisterImports, ApplicationsImports, PoliciesImports, WorkImports, ChangeControlImports,
       IncidentImports, DecisionImports
       DEF Files, Register, Applications, Policies, Work, ChangeControl, Incident, Decision
  <2>2. pc[t] # "done"
    BY <1>1, FilesPasses, RegisterPasses, ApplicationsPasses, PoliciesPasses, WorkPasses, ChangeControlPasses,
       IncidentPasses, DecisionPasses
       DEF Passes, Files, FilesPhases, Register, RegisterPhases, Applications, ApplicationsPhases, Policies,
           PoliciesPhases, Work, WorkPhases, ChangeControl, ChangeControlPhases, Incident, IncidentPhases,
           Decision, DecisionPhases
  <2>3. {} \cap FiledKinds = {} /\ {"assets", "risks"} \cap FiledKinds = {} /\ {"policies"} \cap FiledKinds = {}
    BY DEF FiledKinds
  <2> QED
    BY <2>1, <2>2, <2>3, OthersStayFiled
<1>2. ASSUME NEW t \in Requests, Shared(t) \/ Audit(t) \/ Journal(t) \/ Standing(t) \/ Competence(t) \/ Devices(t)
                                 \/ Steps(t) \/ Control(t) \/ Passwords(t)
      PROVE  FiledStay
  BY <1>2, OthersStayFiled DEF Shared, Audit, Journal, Standing, Competence, Devices, Steps, Control, Passwords
<1>3. ASSUME NEW t \in Requests, ChartStep(t)
      PROVE  FiledStay
  BY <1>3, OthersStayFiled DEF ChartStep, BeginOrgChart, ReadNodes, ReadMemberships, ShowOrgChart
<1>4. ASSUME NEW t \in Requests, Organisation(t)
      PROVE  FiledStay \/ (OrganisationStep(t) /\ Passes(t, OrganisationPhases))
  BY <1>3, <1>4, OrganisationPasses DEF Organisation
<1>5. ASSUME TimePasses \/ Outside \/ Machinery \/ Terminated \/ UNCHANGED vars
      PROVE  batches' = batches
  BY <1>5
     DEF TimePasses, ExpireException, ReviewDayComes, EntryFallsDue, DayPasses, DeviationLapses, Outside,
         PortalChanges, SeedLoads, Machinery, Orchestrator, Terminated, vars
<1>6. batches' = batches => FiledStay
  BY DEF BatchesKept, FiledStay
<1>7. FiledStay \/ \E t \in Requests : OrganisationStep(t) /\ Passes(t, OrganisationPhases)
  BY <1>1, <1>2, <1>4, <1>5, <1>6 DEF Next
<1>8. \/ \E t \in Requests : OrganisationStep(t) /\ Passes(t, OrganisationPhases)
      \/ member' = member
  BY GivingSteps
<1>9. \/ \E t \in Requests : OrganisationStep(t) /\ Passes(t, OrganisationPhases)
      \/ dept' = dept /\ Elsewhere(OrganisationPhases)
  <2>1. ASSUME NEW t \in Requests, ChartStep(t), Passes(t, ChartPhases)
        PROVE  dept' = dept /\ Elsewhere(OrganisationPhases)
    <3>1. dept' = dept
      BY <2>1 DEF ChartStep, BeginOrgChart, ReadNodes, ReadMemberships, ShowOrgChart, organisationVars
    <3>2. Elsewhere(OrganisationPhases)
      BY <2>1, PassesElsewhere DEF ChartPhases, OrganisationPhases
    <3> QED
      BY <3>1, <3>2
  <2>2. Elsewhere(OrganisationPhases \cup ChartPhases) => Elsewhere(OrganisationPhases)
    BY DEF Elsewhere
  <2> QED
    BY <2>1, <2>2, OrganisationSteps
<1> QED
  BY <1>7, <1>8, <1>9

-----------------------------------------------------------------------------
(* What a request that imports or undoes is about to leave.                *)
FilingPhases == {"insertDepartments", "commitDepartments", "undoDepartments", "importAssignments",
  "examineAssignments", "assignMember", "commitAssignments", "undoAssignments", "restoreAssignments",
  "saveMembership", "commitMembership"}

(* The parents of a file that are not in it.                               *)
ParentsOutside(file) == {file[i].parent : i \in DOMAIN file} \ (NamesIn(file) \cup {None})

(* The departments of a valid file are filed under others of the file, or  *)
(* under ones that are there and cannot be deleted.                        *)
FilesDepartments(t) ==
  /\ pc[t] \in {"insertDepartments", "commitDepartments"} =>
       /\ ValidDepartments(File(t)) /\ DOMAIN req[t].saw = ParentsOutside(File(t))
       /\ Queued(t) /\ \A d \in Range(req[t].saw) : Lock(Key, DeptRow(d)) \in Claims(t)
  /\ pc[t] = "commitDepartments" => want[t] = <<>> /\ \A d \in Range(req[t].saw) : Present(d)

(* An undo locks all that there is of what was made.                       *)
UndoesDepartments(t) ==
  pc[t] = "undoDepartments" =>
    /\ Queued(t)
    /\ \A d \in batches[req[t].arg].items \cap DOMAIN dept : Lock(Update, DeptRow(d)) \in Claims(t)

(* What is to be assigned: memberships, none of them twice.                *)
Distinct(targets) ==
  /\ targets \in Seq(ToSet(targets))
  /\ \A i \in DOMAIN targets : targets[i].member \in Memberships
  /\ \A i, j \in DOMAIN targets : targets[i].member = targets[j].member => i = j

(* Of the first k of them, which are locked, it is known which departments *)
(* they have; the next is about to be locked.                              *)
Belonging(targets, k) == [j \in 1..k |-> member[targets[j].member].dept]

FilesAssignments(t) ==
  /\ pc[t] \in {"importAssignments", "examineAssignments"} => File(t) \in Plan.assignments
  /\ pc[t] = "examineAssignments" =>
       \A i \in DOMAIN File(t) : LET members == req[t].saw[i].members
                                IN  /\ IsFiniteSet(members) /\ members \subseteq Memberships
                                    /\ \A m \in members : m[1] = File(t)[i].user
  /\ pc[t] \in {"assignMember", "commitAssignments"} =>
       LET targets == req[t].saw.targets
       IN  /\ Distinct(targets) /\ Queued(t)
           /\ \E k \in 0..Len(targets) :
                /\ req[t].saw.prev = Belonging(targets, k)
                /\ \A j \in 1..k : Lock(Update, MemberRow(targets[j].member)) \in held[t]
                /\ pc[t] = "assignMember" =>
                     k < Len(targets) /\ Lock(Update, MemberRow(targets[k + 1].member)) \in Claims(t)
                /\ pc[t] = "commitAssignments" => k = Len(targets)

(* An undo locks all memberships that it may restore.                      *)
UndoesAssignments(t) ==
  /\ pc[t] = "undoAssignments" =>
       /\ Queued(t) /\ req[t].arg \in Stamps /\ batches[req[t].arg].kind = "assignments"
       /\ \A x \in batches[req[t].arg].items : Lock(Update, MemberRow(x.member)) \in Claims(t)
  /\ pc[t] = "restoreAssignments" =>
       Queued(t) /\ \A x \in req[t].saw : Lock(Update, MemberRow(x.member)) \in Claims(t)

SavesMembership(t) ==
  pc[t] \in {"saveMembership", "commitMembership"} =>
    Queued(t) /\ Lock(Write, MemberRow(<<req[t].arg.owner, req[t].arg.role>>)) \in Claims(t)

Filing(t) ==
  FilesDepartments(t) /\ UndoesDepartments(t) /\ FilesAssignments(t) /\ UndoesAssignments(t) /\ SavesMembership(t)

(* Who is not done has imported nothing of this; a department that was     *)
(* imported was made by a transaction that is done.                        *)
NotFiled(t) == pc[t] # "done" => batches[t].kind \notin FiledKinds

FiledBatches ==
  \A b \in Stamps :
    /\ batches[b].kind = "departments" => \A d \in batches[b].items : d[1] \in Requests => pc[d[1]] = "done"
    /\ batches[b].kind = "assignments" => IsFiniteSet(batches[b].items)

FiledInv == UsageInv /\ GivesInv /\ FiledBatches /\ \A t \in Requests : NotFiled(t) /\ Filing(t)

(* What a step of the departments writes, and where it goes.               *)
LEMMA OrganisationFiles ==
  ASSUME Shaped, NEW t \in Requests, OrganisationStep(t)
  PROVE  /\ dept' = dept \/ CommitDepartments(t) \/ UndoDepartments(t) \/ CommitDepartment(t) \/ WriteDepartment(t)
         /\ member' = member \/ CommitAssignments(t) \/ RestoreAssignments(t) \/ CommitMembership(t) \/ SaveMemberRole(t)
         /\ \/ ExamineDepartments(t) \/ InsertDepartments(t) \/ BeginUndoDepartments(t) \/ BeginImportAssignments(t)
            \/ ReadAssignments(t) \/ ExamineAssignments(t) \/ AssignMember(t) \/ BeginUndoAssignments(t)
            \/ UndoAssignments(t) \/ BeginSaveMembership(t) \/ SaveMembership(t)
            \/ pc'[t] \notin FilingPhases
<1> USE BeginMoves, GotoMoves, DoneMoves DEF organisationVars, FilingPhases
<1>1. CASE BeginImportDepartments(t)  BY <1>1 DEF BeginImportDepartments, BeginImport
<1>2. CASE ReadDepartments(t)  BY <1>2 DEF ReadDepartments
<1>3. CASE ExamineDepartments(t)  BY <1>3 DEF ExamineDepartments
<1>4. CASE InsertDepartments(t)  BY <1>4 DEF InsertDepartments
<1>5. CASE CommitDepartments(t)  BY <1>5 DEF CommitDepartments, Imported
<1>6. CASE BeginUndoDepartments(t)  BY <1>6 DEF BeginUndoDepartments
<1>7. CASE UndoDepartments(t)  BY <1>7 DEF UndoDepartments, Refused, Undone
<1>8. CASE BeginImportAssignments(t)  BY <1>8 DEF BeginImportAssignments
<1>9. CASE ReadAssignments(t)  BY <1>9 DEF ReadAssignments
<1>10. CASE ExamineAssignments(t)  BY <1>10 DEF ExamineAssignments
<1>11. CASE AssignMember(t)  BY <1>11 DEF AssignMember
<1>12. CASE CommitAssignments(t)  BY <1>12 DEF CommitAssignments, Refused, Imported
<1>13. CASE BeginUndoAssignments(t)  BY <1>13 DEF BeginUndoAssignments
<1>14. CASE UndoAssignments(t)  BY <1>14 DEF UndoAssignments
<1>15. CASE RestoreAssignments(t)  BY <1>15 DEF RestoreAssignments, Refused, Undone
<1>16. CASE BeginSaveDepartment(t)  BY <1>16 DEF BeginSaveDepartment
<1>17. CASE SaveDepartment(t)  BY <1>17 DEF SaveDepartment
<1>18. CASE CommitDepartment(t)  BY <1>18 DEF CommitDepartment
<1>19. CASE BeginUpdateDepartment(t)  BY <1>19 DEF BeginUpdateDepartment
<1>20. CASE UpdateDepartment(t)  BY <1>20 DEF UpdateDepartment
<1>21. CASE WriteDepartment(t)  BY <1>21 DEF WriteDepartment
<1>22. CASE BeginSaveMembership(t)  BY <1>22 DEF BeginSaveMembership
<1>23. CASE SaveMembership(t)  BY <1>23 DEF SaveMembership
<1>24. CASE CommitMembership(t)  BY <1>24 DEF CommitMembership
<1>25. CASE BeginSaveMemberRole(t)  BY <1>25 DEF BeginSaveMemberRole
<1>26. CASE SaveMemberRole(t)  BY <1>26 DEF SaveMemberRole
<1> QED
  BY <1>1, <1>2, <1>3, <1>4, <1>5, <1>6, <1>7, <1>8, <1>9, <1>10, <1>11, <1>12, <1>13, <1>14, <1>15, <1>16,
     <1>17, <1>18, <1>19, <1>20, <1>21, <1>22, <1>23, <1>24, <1>25, <1>26 DEF OrganisationStep

(* A lock that another has is not taken.                                   *)
LEMMA TakenExcludes ==
  ASSUME LocksApart, NEW s \in Requests, NEW t \in Requests, s # t, Granted(t),
         NEW row, NEW m \in Modes, NEW n \in Modes, Conflict(m, n), Lock(m, row) \in held[s], Lock(n, row) \in Taken(t)
  PROVE  FALSE
<1>1. Lock(m, row)[1] = m /\ Lock(n, row)[1] = n /\ Lock(m, row)[2] = Lock(n, row)[2]
  BY DEF Lock
<1>2. Compatible(held[s], Taken(t))
  BY TakenApart DEF Granted
<1> QED
  BY <1>1, <1>2 DEF Compatible

(* An order of a set is all in it, and nothing twice.                      *)
LEMMA OrderIsOnce ==
  ASSUME NEW S, IsFiniteSet(S), NEW order \in SetToSeqs(S)
  PROVE  order \in Seq(S) /\ Range(order) = S /\ \A i, j \in DOMAIN order : order[i] = order[j] => i = j
<1> DEFINE n == Cardinality(S)
<1>1. n \in Nat
  BY FS_CardinalityType
<1>2. order \in [1..n -> S] /\ \A i, j \in 1..n : i # j => order[i] # order[j]
  BY DEF SetToSeqs
<1>3. IsFiniteSet(1..n) /\ Cardinality(1..n) = n
  BY <1>1, FS_Interval
<1> HIDE DEF n
<1>4. order \in Injection(1..n, S)
  BY <1>2 DEF Injection, IsInjective
<1>5. order \in Surjection(1..n, S)
  BY <1>3, <1>4, FS_Injection DEF n
<1>6. Range(order) = S
  BY <1>2, <1>5 DEF Surjection, Range
<1> QED
  BY <1>1, <1>2, <1>6

(* The file of an import is a sequence.                                    *)
LEMMA FileIsSeq ==
  ASSUME Shaped, NEW t, File(t) \in Plan.files \cup Plan.assignments
  PROVE  File(t) \in Seq(Range(File(t)))
BY DepartmentsAssumption DEF Plan, Shaped

(* What an import of departments makes it makes itself, and as filed.      *)
LEMMA CommitsAsFiled ==
  ASSUME FiledInv, NEW t \in Requests, CommitDepartments(t)
  PROVE  /\ DOMAIN MadeFrom(t) \subseteq {t} \X NamesIn(File(t))
         /\ \A x \in NamesIn(File(t)) :
              <<t, x>> \in DOMAIN MadeFrom(t) /\ MadeFrom(t)[<<t, x>>].parent = FiledUnder(t, x)
<1>1. pc[t] = "commitDepartments" /\ Shaped
  BY DEF CommitDepartments, At, FiledInv, UsageInv, OrganisationInv
<1>2. OfPlan(t) /\ Found(t) /\ FilesDepartments(t)
  BY DEF FiledInv, UsageInv, OrganisationInv, Proceeds, Filing
<1>3. File(t) \in Seq(Range(File(t)))
  BY <1>1, <1>2, FileIsSeq DEF OfPlan, Importing
<1>4. req[t].saw = [x \in DOMAIN req[t].saw |-> req[t].saw[x]]
  BY <1>1, <1>2 DEF Found
<1>5. ValidDepartments(File(t)) /\ DOMAIN req[t].saw \cap NamesIn(File(t)) = {}
  BY <1>1, <1>2 DEF FilesDepartments, ParentsOutside
<1> QED
  BY <1>3, <1>4, <1>5, MadeIsOfFile, MadeAsFiled

(* A department that a step deletes was locked by it, and one that it adds *)
(* is its own.                                                             *)
LEMMA DepartmentsWritten ==
  ASSUME FiledInv, NEW t \in Requests, OrganisationStep(t)
  PROVE  /\ \A d \in DOMAIN dept \ DOMAIN dept' : Granted(t) /\ Lock(Update, DeptRow(d)) \in Taken(t)
         /\ \A d \in DOMAIN dept' \ DOMAIN dept : d[1] = t
<1>0. Shaped /\ Filing(t)
  BY DEF FiledInv, UsageInv, OrganisationInv
<1>1. CASE CommitDepartments(t)
  <2>1. PICK made : made = MadeFrom(t)
    OBVIOUS
  <2>2. DOMAIN dept' = DOMAIN made \cup DOMAIN dept
    BY <1>1, <2>1 DEF CommitDepartments, Over
  <2>3. DOMAIN made \subseteq {t} \X NamesIn(File(t))
    BY <1>1, <2>1, CommitsAsFiled
  <2> QED
    BY <2>2, <2>3
<1>2. CASE UndoDepartments(t)
  <2>1. PICK b : b = req[t].arg
    OBVIOUS
  <2>2. b \in Stamps /\ IsFiniteSet(batches[b].items) /\ pc[t] = "undoDepartments" /\ Granted(t)
    BY <1>2, <2>1 DEF UndoDepartments, At, FiledInv, UsageInv
  <2>3. Cardinality(batches[b].items) \in Nat
    BY <2>2, FS_CardinalityType
  <2>4. PICK gone : gone = DeletedBy(b)
    OBVIOUS
  <2>5. gone \subseteq batches[b].items \cap DOMAIN dept
    BY <2>3, <2>4, DeletedIsUnused
  <2>6. dept' = dept \/ dept' = Restrict(dept, DOMAIN dept \ gone)
    BY <1>2, <2>1, <2>4, Zenon DEF UndoDepartments
  <2>7. DOMAIN dept' \subseteq DOMAIN dept /\ DOMAIN dept \ DOMAIN dept' \subseteq gone
    BY <2>6 DEF Restrict
  <2>8. \A d \in gone : Lock(Update, DeptRow(d)) \in Taken(t)
    BY <1>0, <2>1, <2>2, <2>5, ClaimsTaken DEF Filing, UndoesDepartments
  <2> QED
    BY <2>2, <2>7, <2>8
<1>3. CASE CommitDepartment(t)
  <2>1. PICK name, row : dept' = WithRow(dept, <<t, name>>, row)
    BY <1>3 DEF CommitDepartment
  <2> QED
    BY <2>1 DEF WithRow
<1>4. CASE WriteDepartment(t)
  BY <1>4 DEF WriteDepartment
<1> QED
  BY <1>0, <1>1, <1>2, <1>3, <1>4, OrganisationFiles

(* A membership that a step writes was locked by it.                       *)
LEMMA MembersWritten ==
  ASSUME FiledInv, NEW t \in Requests, OrganisationStep(t), NEW u \in Memberships, member'[u] # member[u]
  PROVE  Granted(t) /\ \E m \in {Write, Update} : Lock(m, MemberRow(u)) \in Taken(t)
<1>0. Shaped /\ Filing(t) /\ DOMAIN member = Memberships /\ Revoking(t)
  BY DEF FiledInv, UsageInv, OrganisationInv, GivesInv, MembersKept
<1>1. CASE CommitAssignments(t)
  <2>1. pc[t] = "commitAssignments" /\ Granted(t)
    BY <1>1 DEF CommitAssignments, At
  <2>2. PICK x \in Assigned(t) : x.member = u
    BY <1>1, Zenon DEF CommitAssignments
  <2>a. PICK targets : targets = req[t].saw.targets
    OBVIOUS
  <2>3. PICK i \in DOMAIN targets : targets[i].member = u
    BY <2>2, <2>a DEF Assigned
  <2>6. /\ Distinct(targets) /\ Queued(t)
        /\ \A j \in 1..Len(targets) : Lock(Update, MemberRow(targets[j].member)) \in held[t]
    BY <1>0, <2>1, <2>a DEF Filing, FilesAssignments
  <2>5. DOMAIN targets = 1..Len(targets)
    BY <2>6 DEF Distinct
  <2> QED
    BY <2>1, <2>3, <2>5, <2>6, ClaimsTaken
<1>2. CASE RestoreAssignments(t)
  <2>1. pc[t] = "restoreAssignments" /\ Granted(t)
    BY <1>2 DEF RestoreAssignments, At
  <2>2. PICK x \in req[t].saw : x.member = u
    BY <1>2, Zenon DEF RestoreAssignments
  <2>3. Queued(t) /\ Lock(Update, MemberRow(x.member)) \in Claims(t)
    BY <1>0, <2>1 DEF Filing, UndoesAssignments
  <2> QED
    BY <2>1, <2>2, <2>3, ClaimsTaken
<1>3. CASE CommitMembership(t)
  <2>1. pc[t] = "commitMembership" /\ Granted(t)
    BY <1>3 DEF CommitMembership, At
  <2>2. u = <<req[t].arg.owner, req[t].arg.role>>
    BY <1>0, <1>3 DEF CommitMembership
  <2>3. Queued(t) /\ Lock(Write, MemberRow(<<req[t].arg.owner, req[t].arg.role>>)) \in Claims(t)
    BY <1>0, <2>1 DEF Filing, SavesMembership
  <2> QED
    BY <2>1, <2>2, <2>3, ClaimsTaken
<1>4. CASE SaveMemberRole(t)
  <2>1. pc[t] = "saveMemberRole" /\ Granted(t)
    BY <1>4 DEF SaveMemberRole, At
  <2>2. u \in req[t].arg.found \cup {<<req[t].arg.user, req[t].arg.role>>}
    BY <1>0, <1>4 DEF SaveMemberRole
  <2>3. Queued(t) /\ Lock(Write, MemberRow(u)) \in Claims(t)
    BY <1>0, <2>1, <2>2 DEF Revoking, Touched
  <2> QED
    BY <2>1, <2>3, ClaimsTaken
<1> QED
  BY <1>0, <1>1, <1>2, <1>3, <1>4, OrganisationFiles

(* What was imported of this is remembered.                                *)
FiledStand ==
  \A b \in Stamps :
    batches[b].kind \in FiledKinds => batches'[b].kind = batches[b].kind /\ batches'[b].items = batches[b].items

(* What a request is about to leave stays so while it waits, when nobody   *)
(* deletes or writes what it has locked, or makes what was imported.       *)
LEMMA FilingStays ==
  ASSUME NEW s \in Requests, Filing(s), plan' = plan, pc'[s] = pc[s], req'[s] = req[s], Waits(s), FiledStand,
         pc[s] = "undoDepartments" => req[s].arg \in Stamps /\ batches[req[s].arg].kind = "departments",
         \A d \in DOMAIN dept : Lock(Key, DeptRow(d)) \in held[s] => d \in DOMAIN dept',
         \A b \in Stamps :
           batches[b].kind = "departments" => batches[b].items \cap DOMAIN dept' \subseteq DOMAIN dept,
         \A m \in Memberships : Lock(Update, MemberRow(m)) \in held[s] => member'[m] = member[m]
  PROVE  Filing(s)'
<1>1. Queued(s) => Queued(s)' /\ Claims(s)' = Claims(s) /\ held[s] \subseteq held'[s]
  BY ClaimsStay
<1>2. File(s)' = File(s) /\ Plan' = Plan
  BY DEF File, Plan
<1>3. FilesDepartments(s)'
  <2>1. CASE pc[s] = "insertDepartments"
    BY <1>1, <1>2, <2>1 DEF Filing, FilesDepartments
  <2>2. CASE pc[s] = "commitDepartments"
    <3>1. Queued(s) /\ want[s] = <<>> /\ \A d \in Range(req[s].saw) : Present(d) /\ Lock(Key, DeptRow(d)) \in Claims(s)
      BY <2>2 DEF Filing, FilesDepartments
    <3>2. ToSet(<<>>) = {} /\ Len(<<>>) = 0
      BY DEF ToSet
    <3>3. Claims(s) = held[s] /\ want'[s] = <<>>
      BY <3>1, <3>2 DEF Claims, Waits
    <3>4. \A d \in Range(req[s].saw) : d \in DOMAIN dept'
      BY <3>1, <3>3 DEF Present
    <3> QED
      BY <1>1, <1>2, <2>2, <3>1, <3>3, <3>4 DEF Filing, FilesDepartments, Present
  <2>3. CASE pc[s] \notin {"insertDepartments", "commitDepartments"}
    BY <2>3 DEF FilesDepartments
  <2> QED
    BY <2>1, <2>2, <2>3
<1>4. UndoesDepartments(s)'
  <2>1. PICK b : b = req[s].arg
    OBVIOUS
  <2> SUFFICES ASSUME pc[s] = "undoDepartments"
               PROVE  /\ Queued(s)'
                      /\ \A d \in batches'[b].items \cap DOMAIN dept' : Lock(Update, DeptRow(d)) \in Claims(s)'
    BY <2>1 DEF UndoesDepartments
  <2>2. batches'[b].items = batches[b].items /\ batches[b].items \cap DOMAIN dept' \subseteq DOMAIN dept
    BY <2>1 DEF FiledStand, FiledKinds
  <2>3. Queued(s) /\ \A d \in batches[b].items \cap DOMAIN dept : Lock(Update, DeptRow(d)) \in Claims(s)
    BY <2>1 DEF Filing, UndoesDepartments
  <2> QED
    BY <1>1, <2>2, <2>3
<1>5. FilesAssignments(s)'
  <2>1. CASE pc[s] \in {"assignMember", "commitAssignments"}
    <3>1. PICK targets : targets = req[s].saw.targets /\ targets = req'[s].saw.targets
      OBVIOUS
    <3>2. PICK k \in 0..Len(targets) :
                /\ req[s].saw.prev = Belonging(targets, k)
                /\ \A j \in 1..k : Lock(Update, MemberRow(targets[j].member)) \in held[s]
                /\ pc[s] = "assignMember" =>
                     k < Len(targets) /\ Lock(Update, MemberRow(targets[k + 1].member)) \in Claims(s)
                /\ pc[s] = "commitAssignments" => k = Len(targets)
      BY <2>1, <3>1 DEF Filing, FilesAssignments
    <3>3. Distinct(targets) /\ Queued(s)
      BY <2>1, <3>1 DEF Filing, FilesAssignments
    <3>5. \A j \in 1..k : member'[targets[j].member] = member[targets[j].member]
      <4>1. targets \in Seq(ToSet(targets)) /\ \A i \in DOMAIN targets : targets[i].member \in Memberships
        BY <3>3 DEF Distinct
      <4>2. \A j \in 1..k : j \in DOMAIN targets
        BY <4>1
      <4> QED
        BY <3>2, <4>1, <4>2
    <3>6. [j \in 1..k |-> member'[targets[j].member].dept] = Belonging(targets, k)
      BY <3>5 DEF Belonging
    <3>7. /\ req'[s].saw.prev = [j \in 1..k |-> member'[targets[j].member].dept]
          /\ \A j \in 1..k : Lock(Update, MemberRow(targets[j].member)) \in held'[s]
          /\ pc'[s] = "assignMember" =>
               k < Len(targets) /\ Lock(Update, MemberRow(targets[k + 1].member)) \in Claims(s)'
          /\ pc'[s] = "commitAssignments" => k = Len(targets)
      BY <1>1, <3>2, <3>3, <3>6
    <3>8. Queued(s)' /\ k \in 0..Len(targets)
      BY <1>1, <3>3
    <3> QED
      BY <2>1, <3>1, <3>3, <3>7, <3>8, Zenon DEF FilesAssignments, Belonging
  <2>2. CASE pc[s] \notin {"assignMember", "commitAssignments"}
    BY <1>2, <2>2 DEF Filing, FilesAssignments
  <2> QED
    BY <2>1, <2>2
<1>6. UndoesAssignments(s)'
  BY <1>1 DEF Filing, UndoesAssignments, FiledStand, FiledKinds
<1>7. SavesMembership(s)'
  BY <1>1 DEF Filing, SavesMembership
<1> QED
  BY <1>3, <1>4, <1>5, <1>6, <1>7 DEF Filing

(* Who is about to leave nothing has nothing to keep.                      *)
LEMMA NothingFiled ==
  ASSUME NEW s, pc'[s] \notin FilingPhases PROVE Filing(s)'
BY DEF Filing, FilesDepartments, UndoesDepartments, FilesAssignments, UndoesAssignments, SavesMembership, FilingPhases

(* A step elsewhere keeps all of this.                                     *)
LEMMA FiledElsewhere ==
  ASSUME FiledInv, UsageInv', GivesInv', FiledStay, UNCHANGED <<dept, member>>, Elsewhere(OrganisationPhases)
  PROVE  FiledInv'
<1>0. Shaped /\ plan' = plan /\ \A s \in Requests : pc[s] = "done" => pc'[s] = "done"
  BY DEF FiledInv, UsageInv, OrganisationInv, Elsewhere
<1>1. FiledStand
  BY DEF FiledInv, NotFiled, FiledStay, FiledStand
<1>2. FiledBatches'
  BY <1>0 DEF FiledInv, FiledBatches, FiledStay, FiledKinds
<1>3. ASSUME NEW s \in Requests PROVE NotFiled(s)' /\ Filing(s)'
  <2>1. s \in Stamps /\ NotFiled(s)
    BY DEF Stamps, FiledInv
  <2>2. NotFiled(s)'
    BY <1>0, <2>1 DEF NotFiled, FiledStay
  <2>3. CASE pc'[s] \notin FilingPhases
    BY <2>2, <2>3, NothingFiled
  <2>4. CASE pc'[s] \in FilingPhases
    <3>1. pc'[s] \in OrganisationPhases
      BY <2>4 DEF FilingPhases, OrganisationPhases
    <3>2. pc'[s] = pc[s] /\ req'[s] = req[s] /\ Waits(s)
      BY <3>1 DEF Elsewhere
    <3>3. Filing(s) /\ (pc[s] = "undoDepartments" => req[s].arg \in Stamps /\ batches[req[s].arg].kind = "departments")
      BY DEF FiledInv, UsageInv
    <3> QED
      BY <1>0, <1>1, <2>2, <3>2, <3>3, FilingStays
  <2> QED
    BY <2>3, <2>4
<1> QED
  BY <1>2, <1>3 DEF FiledInv

(* What a step of the departments imports is remembered, too.              *)
LEMMA FiledBatchesKept ==
  ASSUME FiledInv, NEW t \in Requests, OrganisationStep(t), Passes(t, OrganisationPhases)
  PROVE  FiledStand /\ FiledBatches' /\ \A s \in Requests : NotFiled(s)'
<1>0. /\ Shaped /\ BatchesKept /\ plan' = plan /\ t \in Stamps /\ Requests \subseteq Stamps /\ pc[t] # "done"
      /\ \A s \in Requests \ {t} : pc'[s] = pc[s]
      /\ FiledBatches /\ \A s \in Requests : NotFiled(s)
  BY DEF FiledInv, UsageInv, OrganisationInv, Passes, OnlyMoves, Stamps, OrganisationPhases
<1>1. CASE ImportsOnly(t, {})
  <2>1. \A b \in Stamps : batches'[b].kind = batches[b].kind /\ batches'[b].items = batches[b].items
    BY <1>1 DEF ImportsOnly
  <2> QED
    BY <1>0, <2>1 DEF FiledStand, FiledBatches, NotFiled
<1>2. ASSUME NEW kind \in FiledKinds, NEW items, Imported(t, kind, items),
             kind = "departments" => \A d \in items : d[1] = t,
             kind = "assignments" => IsFiniteSet(items)
      PROVE  FiledStand /\ FiledBatches' /\ \A s \in Requests : NotFiled(s)'
  <2>1. batches' = [batches EXCEPT ![t] = Batch(kind, items)] /\ pc'[t] = "done"
    BY <1>0, <1>2, DoneMoves DEF Imported
  <2>2. /\ \A b \in Stamps \ {t} : batches'[b] = batches[b]
        /\ batches'[t].kind = kind /\ batches'[t].items = items
    BY <1>0, <2>1 DEF BatchesKept, Batch
  <2>3. FiledStand
    BY <1>0, <2>2 DEF FiledStand, NotFiled
  <2>4. FiledBatches'
    <3>1. \A s \in Requests : pc[s] = "done" => pc'[s] = "done"
      BY <1>0
    <3>2. ASSUME NEW b \in Stamps \ {t}
          PROVE  /\ batches'[b].kind = "departments" => \A d \in batches'[b].items : d[1] \in Requests => pc'[d[1]] = "done"
                 /\ batches'[b].kind = "assignments" => IsFiniteSet(batches'[b].items)
      BY <1>0, <2>2, <3>1 DEF FiledBatches
    <3>3. /\ batches'[t].kind = "departments" => \A d \in batches'[t].items : d[1] \in Requests => pc'[d[1]] = "done"
          /\ batches'[t].kind = "assignments" => IsFiniteSet(batches'[t].items)
      BY <1>2, <2>1, <2>2
    <3> QED
      BY <3>2, <3>3 DEF FiledBatches
  <2>5. \A s \in Requests : NotFiled(s)'
    BY <1>0, <2>1, <2>2 DEF NotFiled
  <2> QED
    BY <2>3, <2>4, <2>5
<1>3. CASE CommitDepartments(t)
  <2>1. PICK items : items = {<<t, name>> : name \in NamesIn(File(t))}
    OBVIOUS
  <2>2. Imported(t, "departments", items) /\ \A d \in items : d[1] = t
    BY <1>3, <2>1 DEF CommitDepartments
  <2> QED
    BY <1>2, <2>2 DEF FiledKinds
<1>4. CASE CommitAssignments(t)
  <2>1. CASE UNCHANGED batches
    BY <1>0, <1>1, <2>1, SameKinds
  <2>2. CASE Imported(t, "assignments", Assigned(t))
    <3>1. pc[t] = "commitAssignments"
      BY <1>4 DEF CommitAssignments, At
    <3>a. PICK targets : targets = req[t].saw.targets
      OBVIOUS
    <3>2. targets \in Seq(ToSet(targets))
      BY <1>0, <3>1, <3>a DEF FiledInv, Filing, FilesAssignments, Distinct
    <3>3. PICK n \in Nat : DOMAIN targets = 1..n
      BY <3>2
    <3>4. PICK f : f = [i \in 1..n |-> [member |-> targets[i].member, prev |-> req[t].saw.prev[i],
                                        new |-> targets[i].dept]]
      OBVIOUS
    <3>5. IsFiniteSet(1..n)
      BY FS_Interval
    <3>6. IsFiniteSet({f[i] : i \in 1..n})
      BY <3>4, <3>5, ImageIsFinite
    <3>7. {f[i] : i \in 1..n} = Assigned(t)
      BY <3>a, <3>3, <3>4 DEF Assigned
    <3> QED
      BY <1>2, <2>2, <3>6, <3>7 DEF FiledKinds
  <2> QED
    BY <1>4, <2>1, <2>2 DEF CommitAssignments, Refused
<1> QED
  BY <1>0, <1>1, <1>3, <1>4, OrganisationImports

(* So are the keys of departments.                                         *)
LEMMA KeysQueued ==
  ASSUME NEW S, IsFiniteSet(S), NEW order \in SetToSeqs(S),
         NEW waits, waits = [i \in DOMAIN order |-> Lock(Key, DeptRow(order[i]))]
  PROVE  waits \in Seq(ToSet(waits)) /\ \A d \in S : Lock(Key, DeptRow(d)) \in ToSet(waits)
<1>1. PICK Locked : Locked = {Lock(Key, DeptRow(d)) : d \in S}
  OBVIOUS
<1>2. PICK lock \in [S -> Locked] : \A d \in S : lock[d] = Lock(Key, DeptRow(d))
  <2>1. [d \in S |-> Lock(Key, DeptRow(d))] \in [S -> Locked]
    BY <1>1
  <2> QED
    BY <2>1
<1>3. order \in Seq(S)
  BY OrderIsAll
<1>4. \A i \in DOMAIN order : order[i] \in S
  BY <1>3
<1>5. PICK w \in [DOMAIN order -> Locked] : w = waits
  BY <1>1, <1>4
<1>6. \A i \in DOMAIN order : w[i] = lock[order[i]]
  BY <1>2, <1>4, <1>5
<1>7. IsFiniteSet(S) /\ order \in SetToSeqs(S)
  OBVIOUS
<1>8. w \in Seq(ToSet(w)) /\ \A d \in S : lock[d] \in ToSet(w)
  BY <1>6, <1>7, RowsQueued
<1> QED
  BY <1>2, <1>5, <1>8

(* An import that was examined waits for the departments it will refer to, *)
LEMMA ExamineDepartmentsFiles ==
  ASSUME FiledInv, NEW t \in Requests, ExamineDepartments(t)
  PROVE  Filing(t)'
<1>0. Shaped /\ pc[t] = "examineDepartments" /\ plan' = plan /\ OfPlan(t)
  BY DEF ExamineDepartments, At, Refused, FiledInv, UsageInv, OrganisationInv, Proceeds
<1>1. CASE Done(t)
  BY <1>0, <1>1, DoneMoves, NothingFiled DEF FilingPhases
<1>2. CASE ~Done(t)
  <2>1. PICK ids : ids = ParentIds(t)
    OBVIOUS
  <2>2. ValidDepartments(File(t))
    BY <1>2 DEF ExamineDepartments, Refused
  <2>3. PICK parents \in SetToSeqs(Range(ids)) :
          Goto(t, "insertDepartments", [i \in DOMAIN parents |-> Lock(Key, DeptRow(parents[i]))], ids)
    BY <1>2, <2>1, Zenon DEF ExamineDepartments, Refused
  <2>4. DOMAIN ids = ParentsOutside(File(t))
    BY <2>1 DEF ParentIds, ParentsOutside
  <2>5. IsFiniteSet(Range(ids))
    <3>1. File(t) \in Seq(Range(File(t)))
      BY <1>0, FileIsSeq DEF OfPlan, Importing
    <3>2. PICK n \in Nat : DOMAIN File(t) = 1..n
      BY <3>1
    <3>3. PICK f : f = [i \in 1..n |-> File(t)[i].parent]
      OBVIOUS
    <3>4. IsFiniteSet(1..n)
      BY FS_Interval
    <3>5. IsFiniteSet({f[i] : i \in 1..n})
      BY <3>3, <3>4, ImageIsFinite
    <3>6. {f[i] : i \in 1..n} = {File(t)[i].parent : i \in DOMAIN File(t)}
      BY <3>2, <3>3
    <3>7. IsFiniteSet(DOMAIN ids)
      BY <2>4, <3>5, <3>6, FS_Subset DEF ParentsOutside
    <3>8. IsFiniteSet({ids[x] : x \in DOMAIN ids})
      BY <3>7, ImageIsFinite
    <3> QED
      BY <3>8 DEF Range
  <2>6. PICK waits : waits = [i \in DOMAIN parents |-> Lock(Key, DeptRow(parents[i]))]
    OBVIOUS
  <2>7. waits \in Seq(ToSet(waits)) /\ \A d \in Range(ids) : Lock(Key, DeptRow(d)) \in ToSet(waits)
    <3>1. parents \in SetToSeqs(Range(ids))
      OBVIOUS
    <3> QED
      BY <2>5, <2>6, <3>1, KeysQueued
  <2>8. pc'[t] = "insertDepartments" /\ want'[t] = waits /\ req'[t].arg = req[t].arg /\ req'[t].saw = ids
    BY <1>0, <2>3, <2>6, GotoMoves
  <2>9. FilesDepartments(t)'
    BY <2>2, <2>4, <2>7, <2>8 DEF FilesDepartments, File, Queued, Claims
  <2> QED
    BY <2>8, <2>9 DEF Filing, UndoesDepartments, FilesAssignments, UndoesAssignments, SavesMembership
<1> QED
  BY <1>1, <1>2

(* and goes on when they are there.                                        *)
LEMMA InsertDepartmentsFiles ==
  ASSUME FiledInv, NEW t \in Requests, InsertDepartments(t)
  PROVE  Filing(t)'
<1>0. Shaped /\ pc[t] = "insertDepartments" /\ plan' = plan /\ dept' = dept /\ Granted(t) /\ FilesDepartments(t)
  BY DEF InsertDepartments, At, Refused, FiledInv, UsageInv, OrganisationInv, Filing, organisationVars
<1>1. CASE Done(t)
  BY <1>0, <1>1, DoneMoves, NothingFiled DEF FilingPhases
<1>2. CASE ~Done(t)
  <2>1. Goto(t, "commitDepartments", <<>>, req[t].saw) /\ \A d \in Range(req[t].saw) : Present(d)
    BY <1>2 DEF InsertDepartments, Refused
  <2>2. /\ pc'[t] = "commitDepartments" /\ want'[t] = <<>> /\ held'[t] = Taken(t)
        /\ req'[t].arg = req[t].arg /\ req'[t].saw = req[t].saw
    BY <1>0, <2>1, GotoMoves
  <2>3. Claims(t) \subseteq held'[t]
    BY <1>0, <2>2, ClaimsTaken DEF FilesDepartments
  <2>4. Queued(t)'
    BY <2>2, FewQueued DEF Queued
  <2>5. FilesDepartments(t)'
    BY <1>0, <2>1, <2>2, <2>3, <2>4 DEF FilesDepartments, File, Claims, Present
  <2> QED
    BY <2>2, <2>5 DEF Filing, UndoesDepartments, FilesAssignments, UndoesAssignments, SavesMembership
<1> QED
  BY <1>1, <1>2

(* An undo waits for all there is of what was made.                        *)
LEMMA UndoDepartmentsFiles ==
  ASSUME FiledInv, NEW t \in Requests, BeginUndoDepartments(t)
  PROVE  Filing(t)'
<1>0. Shaped /\ dept' = dept
  BY DEF BeginUndoDepartments, FiledInv, UsageInv, OrganisationInv, organisationVars
<1>1. PICK b \in Stamps :
        /\ batches[b].kind = "departments"
        /\ \E order \in SetToSeqs(batches[b].items \cap DOMAIN dept) :
             BeginUndo(t, "undoDepartments", b, Locks(Update, [i \in DOMAIN order |-> DeptRow(order[i])]))
  BY DEF BeginUndoDepartments
<1>2. PICK S : S = batches[b].items \cap DOMAIN dept
  OBVIOUS
<1>3. PICK order \in SetToSeqs(S) :
        BeginUndo(t, "undoDepartments", b, Locks(Update, [i \in DOMAIN order |-> DeptRow(order[i])]))
  BY <1>1, <1>2
<1>4. PICK waits : waits = Locks(Update, [i \in DOMAIN order |-> DeptRow(order[i])])
  OBVIOUS
<1>5. pc'[t] = "undoDepartments" /\ req'[t].arg = b /\ want'[t] = waits /\ batches' = batches
  BY <1>0, <1>3, <1>4, BeginMoves DEF BeginUndo
<1>6. IsFiniteSet(S)
  BY <1>1, <1>2, FS_Subset DEF FiledInv, UsageInv
<1>7. waits \in Seq(ToSet(waits)) /\ \A d \in S : Lock(Update, DeptRow(d)) \in ToSet(waits)
  <2>0. PICK Under : Under = {DeptRow(d) : d \in S}
    OBVIOUS
  <2>1. PICK row \in [S -> Under] : \A d \in S : row[d] = DeptRow(d)
    <3>1. [d \in S |-> DeptRow(d)] \in [S -> Under]
      BY <2>0
    <3> QED
      BY <3>1
  <2>2. order \in Seq(S)
    BY <1>6, OrderIsAll
  <2>3. \A i \in DOMAIN order : order[i] \in S
    BY <2>2
  <2>4. PICK rows \in [DOMAIN order -> Under] : rows = [i \in DOMAIN order |-> DeptRow(order[i])]
    <3>1. [i \in DOMAIN order |-> DeptRow(order[i])] \in [DOMAIN order -> Under]
      BY <2>0, <2>3
    <3> QED
      BY <3>1
  <2>5. waits = Locks(Update, rows) /\ \A i \in DOMAIN order : rows[i] = row[order[i]]
    BY <1>4, <2>1, <2>3, <2>4
  <2>6. IsFiniteSet(S) /\ order \in SetToSeqs(S)
    BY <1>6
  <2>7. /\ Locks(Update, rows) \in Seq(ToSet(Locks(Update, rows)))
        /\ \A d \in S : Lock(Update, row[d]) \in ToSet(Locks(Update, rows))
    BY <2>5, <2>6, LocksQueued
  <2> QED
    BY <2>1, <2>5, <2>7
<1>8. UndoesDepartments(t)'
  BY <1>0, <1>2, <1>5, <1>7 DEF UndoesDepartments, Queued, Claims
<1> QED
  BY <1>5, <1>8 DEF Filing, FilesDepartments, FilesAssignments, UndoesAssignments, SavesMembership

(* An import of assignments is asked for with a file of the plan,          *)
LEMMA BeginAssignmentsFiles ==
  ASSUME Shaped, NEW t \in Requests, BeginImportAssignments(t) \/ (ReadAssignments(t) /\ Filing(t))
  PROVE  Filing(t)'
<1>1. CASE BeginImportAssignments(t)
  <2>1. PICK file \in Plan.assignments : BeginImport(t, "importAssignments", file)
    BY <1>1 DEF BeginImportAssignments
  <2>2. pc'[t] = "importAssignments" /\ req'[t].arg = file /\ plan' = plan
    BY <2>1, BeginMoves DEF BeginImport, OnlyMoves
  <2> QED
    BY <2>2 DEF Filing, FilesDepartments, UndoesDepartments, FilesAssignments, UndoesAssignments, SavesMembership, File,
                Plan
<1>2. CASE ReadAssignments(t) /\ Filing(t)
  <2>1. pc[t] = "importAssignments" /\ plan' = plan
    BY <1>2 DEF ReadAssignments, At
  <2>a. PICK saw : saw = [i \in DOMAIN File(t) |-> [named |-> Named(File(t)[i].dept),
                                                    members |-> MembershipsOf(File(t)[i].user)]]
    OBVIOUS
  <2>2. PICK locks : Goto(t, "examineAssignments", locks, saw)
    BY <1>2, <2>a, Zenon DEF ReadAssignments
  <2>3. pc'[t] = "examineAssignments" /\ req'[t].arg = req[t].arg /\ req'[t].saw = saw
    BY <2>1, <2>2, GotoMoves
  <2>4. File(t) \in Plan.assignments
    BY <1>2, <2>1 DEF Filing, FilesAssignments
  <2>5. ASSUME NEW i \in DOMAIN File(t)
        PROVE  /\ IsFiniteSet(saw[i].members) /\ saw[i].members \subseteq Memberships
               /\ \A m \in saw[i].members : m[1] = File(t)[i].user
    <3>1. PICK u : u = File(t)[i].user /\ saw[i].members = MembershipsOf(u)
      BY <2>a
    <3>2. \A m \in MembershipsOf(u) : m[1] = u
      BY DEF MembershipsOf
    <3> QED
      BY <3>1, <3>2, FewMemberships
  <2>6. File(t)' = File(t) /\ Plan' = Plan
    BY <2>1, <2>3 DEF File, Plan
  <2>7. FilesAssignments(t)'
    BY <2>3, <2>4, <2>5, <2>6 DEF FilesAssignments
  <2> QED
    BY <2>3, <2>7 DEF Filing, FilesDepartments, UndoesDepartments, UndoesAssignments, SavesMembership
<1> QED
  BY <1>1, <1>2

(* and goes on to the next membership to be assigned, or to its end.       *)
LEMMA NextAssigned ==
  ASSUME Shaped, NEW t \in Requests, plan' = plan, member' = member, NEW targets, Distinct(targets),
         NEW k \in 0..Len(targets), NEW prev, prev = Belonging(targets, k), NEW locks, locks \in Seq(ToSet(locks)),
         \A j \in 1..k : Lock(Update, MemberRow(targets[j].member)) \in Taken(t),
         AssignFrom(t, k + 1, targets, prev, locks)
  PROVE  Filing(t)'
<1>a. targets \in Seq(ToSet(targets))
  BY DEF Distinct
<1>1. PICK n \in Nat : n = Len(targets) /\ k \in 0..n
  BY <1>a
<1>2. k \in Nat /\ (k + 1 > n <=> k = n) /\ (k < n <=> k # n)
  BY <1>1
<1>3. PICK l : l = Lock(Update, MemberRow(targets[k + 1].member))
  OBVIOUS
<1>4. PICK more : more = IF k = n THEN <<>> ELSE <<l>>
  OBVIOUS
<1>5. PICK waits : waits = locks \o more
  OBVIOUS
<1>6. Goto(t, IF k = n THEN "commitAssignments" ELSE "assignMember", waits, [targets |-> targets, prev |-> prev])
  BY <1>1, <1>2, <1>3, <1>4, <1>5 DEF AssignFrom
<1>7. /\ pc'[t] = (IF k = n THEN "commitAssignments" ELSE "assignMember")
      /\ want'[t] = waits /\ held'[t] = Taken(t) /\ req'[t].saw = [targets |-> targets, prev |-> prev]
  BY <1>6, GotoMoves
<1>8. more \in Seq(ToSet(more)) /\ (k # n => l \in ToSet(more))
  BY <1>4, FewQueued
<1>9. waits \in Seq(ToSet(waits)) /\ ToSet(waits) = ToSet(locks) \cup ToSet(more)
  BY <1>5, <1>8, JoinedQueued
<1>10. Queued(t)' /\ (k # n => l \in Claims(t)')
  BY <1>7, <1>8, <1>9 DEF Queued, Claims
<1>11. [j \in 1..k |-> member'[targets[j].member].dept] = prev
  BY DEF Belonging
<1>12. req'[t].saw.prev = prev /\ req'[t].saw.targets = targets
  BY <1>7
<1>b. /\ pc'[t] \in {"assignMember", "commitAssignments"}
      /\ pc'[t] = "assignMember" => k < Len(targets) /\ Lock(Update, MemberRow(targets[k + 1].member)) \in Claims(t)'
      /\ pc'[t] = "commitAssignments" => k = Len(targets)
  BY <1>1, <1>2, <1>3, <1>7, <1>10
<1>13. FilesAssignments(t)'
  BY <1>7, <1>10, <1>11, <1>12, <1>b, Zenon DEF FilesAssignments, Belonging
<1> QED
  BY <1>7, <1>13 DEF Filing, FilesDepartments, UndoesDepartments, UndoesAssignments, SavesMembership

(* What was found of the people of a file is assigned in an order.         *)
LEMMA TargetsAreDistinct ==
  ASSUME NEW t, FilesAssignments(t), pc[t] = "examineAssignments", File(t) \in Seq(Range(File(t))),
         \A i, j \in DOMAIN File(t) : File(t)[i].user = File(t)[j].user => i = j,
         NEW targets \in TargetOrders(t)
  PROVE  Distinct(targets)
<1>1. PICK rows, all : rows = DOMAIN File(t) /\ all = UNION {TargetsOf(t, i) : i \in rows}
  OBVIOUS
<1>2. ASSUME NEW i \in rows PROVE IsFiniteSet(TargetsOf(t, i))
  <2>1. PICK members, to : members = req[t].saw[i].members /\ to = CHOOSE d \in req[t].saw[i].named : TRUE
    OBVIOUS
  <2>2. PICK f : f = [m \in members |-> [row |-> i, member |-> m, dept |-> to]]
    OBVIOUS
  <2>3. IsFiniteSet(members)
    BY <1>1, <2>1 DEF FilesAssignments
  <2>4. IsFiniteSet({f[m] : m \in members})
    BY <2>2, <2>3, ImageIsFinite
  <2>5. {f[m] : m \in members} = TargetsOf(t, i)
    BY <2>1, <2>2 DEF TargetsOf
  <2> QED
    BY <2>4, <2>5
<1>3. IsFiniteSet(all)
  <2>1. PICK n \in Nat : rows = 1..n
    BY <1>1
  <2>2. IsFiniteSet(rows)
    BY <2>1, FS_Interval
  <2>3. PICK f : f = [i \in rows |-> TargetsOf(t, i)]
    OBVIOUS
  <2>4. PICK parts : parts = {f[i] : i \in rows}
    OBVIOUS
  <2>5. IsFiniteSet(parts)
    BY <2>2, <2>3, <2>4, ImageIsFinite
  <2>6. parts = {TargetsOf(t, i) : i \in rows} /\ \A part \in parts : IsFiniteSet(part)
    BY <1>2, <2>3, <2>4
  <2>7. IsFiniteSet(UNION parts)
    BY <2>5, <2>6, FS_UNION
  <2> QED
    BY <1>1, <2>6, <2>7
<1>4. targets \in SetToSeqs(all)
  BY <1>1 DEF TargetOrders
<1>5. targets \in Seq(all) /\ Range(targets) = all /\ \A i, j \in DOMAIN targets : targets[i] = targets[j] => i = j
  BY <1>3, <1>4, OrderIsOnce
<1>6. ASSUME NEW x \in all PROVE x.member \in Memberships
  <2>1. PICK i \in rows : x \in TargetsOf(t, i)
    BY <1>1
  <2>2. x.member \in req[t].saw[i].members
    BY <2>1 DEF TargetsOf
  <2> QED
    BY <1>1, <2>1, <2>2 DEF FilesAssignments
<1>7. ASSUME NEW x \in all, NEW y \in all, x.member = y.member PROVE x = y
  <2>1. PICK i \in rows, j \in rows : x \in TargetsOf(t, i) /\ y \in TargetsOf(t, j)
    BY <1>1
  <2>2. x.member \in req[t].saw[i].members /\ y.member \in req[t].saw[j].members
    BY <2>1 DEF TargetsOf
  <2>3. File(t)[i].user = x.member[1] /\ File(t)[j].user = y.member[1]
    BY <1>1, <2>2 DEF FilesAssignments
  <2>4. i = j
    BY <1>1, <1>7, <2>3
  <2>5. PICK to : to = CHOOSE d \in req[t].saw[i].named : TRUE
    OBVIOUS
  <2>6. x = [row |-> i, member |-> x.member, dept |-> to]
    BY <2>1, <2>5 DEF TargetsOf
  <2>7. y = [row |-> i, member |-> y.member, dept |-> to]
    BY <2>1, <2>4, <2>5 DEF TargetsOf
  <2> QED
    BY <1>7, <2>6, <2>7
<1>8. ToSet(targets) = all
  BY <1>5 DEF ToSet, Range
<1>9. \A i \in DOMAIN targets : targets[i] \in all
  BY <1>5 DEF Range
<1> QED
  BY <1>5, <1>6, <1>7, <1>8, <1>9 DEF Distinct

(* The people of a file were examined before the first of them.            *)
LEMMA ExamineAssignmentsFiles ==
  ASSUME FiledInv, NEW t \in Requests, ExamineAssignments(t)
  PROVE  Filing(t)'
<1>0. Shaped /\ pc[t] = "examineAssignments" /\ plan' = plan /\ member' = member /\ FilesAssignments(t)
  BY DEF ExamineAssignments, At, Refused, FiledInv, UsageInv, OrganisationInv, organisationVars, Filing
<1>1. CASE Done(t)
  BY <1>0, <1>1, DoneMoves, NothingFiled DEF FilingPhases
<1>2. CASE ~Done(t)
  <2>1. PICK file : file = File(t)
    OBVIOUS
  <2>2. file \in Plan.assignments /\ file \in Seq(Range(file))
    BY <1>0, <2>1, FileIsSeq DEF FilesAssignments
  <2>3. \A i, j \in DOMAIN file : file[i].user = file[j].user => i = j
    BY <1>2, <2>1 DEF ExamineAssignments, Refused
  <2>4. PICK targets \in TargetOrders(t) : AssignFrom(t, 1, targets, <<>>, <<>>)
    BY <1>2, Zenon DEF ExamineAssignments, Refused
  <2>a. Distinct(targets)
    BY <1>0, <2>1, <2>2, <2>3, TargetsAreDistinct
  <2>b. targets \in Seq(ToSet(targets))
    BY <2>a DEF Distinct
  <2>5. <<>> = Belonging(targets, 0)
    <3>1. 1..0 = {}
      OBVIOUS
    <3> QED
      BY <3>1 DEF Belonging
  <2>6. <<>> \in Seq(ToSet(<<>>))
    BY FewQueued
  <2>7. 0 \in 0..Len(targets) /\ 0 + 1 = 1 /\ 1..0 = {}
    BY <2>b
  <2>8. AssignFrom(t, 0 + 1, targets, <<>>, <<>>)
    BY <2>4, <2>7
  <2> QED
    BY <1>0, <2>a, <2>5, <2>6, <2>7, <2>8, NextAssigned
<1> QED
  BY <1>1, <1>2

(* The department is read when the membership is locked.                   *)
LEMMA AssignMemberFiles ==
  ASSUME FiledInv, NEW t \in Requests, AssignMember(t)
  PROVE  Filing(t)'
<1>0. Shaped /\ pc[t] = "assignMember" /\ Granted(t) /\ plan' = plan /\ member' = member /\ FilesAssignments(t)
  BY DEF AssignMember, At, Refused, FiledInv, UsageInv, OrganisationInv, organisationVars, Filing
<1>1. CASE Done(t)
  BY <1>0, <1>1, DoneMoves, NothingFiled DEF FilingPhases
<1>2. CASE ~Done(t)
  <2>1. PICK targets : targets = req[t].saw.targets
    OBVIOUS
  <2>3. Distinct(targets) /\ Queued(t)
    BY <1>0, <2>1 DEF FilesAssignments
  <2>2. targets \in Seq(ToSet(targets))
    BY <2>3 DEF Distinct
  <2>4. PICK k \in 0..Len(targets) :
          /\ req[t].saw.prev = Belonging(targets, k)
          /\ \A j \in 1..k : Lock(Update, MemberRow(targets[j].member)) \in held[t]
          /\ k < Len(targets) /\ Lock(Update, MemberRow(targets[k + 1].member)) \in Claims(t)
    BY <1>0, <2>1 DEF FilesAssignments
  <2>5. PICK n \in Nat : n = Len(targets) /\ k \in 0..n /\ k < n
    BY <2>2, <2>4
  <2>6. k \in Nat /\ k + 1 \in 0..n /\ 1..(k + 1) = 1..k \cup {k + 1}
    BY <2>5
  <2>7. PICK prev : prev = req[t].saw.prev
    OBVIOUS
  <2>8. PICK u : u = targets[k + 1].member
    OBVIOUS
  <2>9. /\ Len(prev) = k /\ Append(prev, member[u].dept) = Belonging(targets, k + 1)
    <3>1. PICK b : b = [j \in 1..k |-> member[targets[j].member].dept]
      OBVIOUS
    <3>2. PICK B : B = {b[j] : j \in 1..k}
      OBVIOUS
    <3>3. b \in Seq(B) /\ Len(b) = k
      <4>1. b \in [1..k -> B]
        BY <3>1, <3>2
      <4>2. b \in Seq(B)
        BY <2>6, <4>1, IsSeq
      <4>3. DOMAIN b = 1..k
        BY <3>1
      <4> QED
        BY <2>6, <4>2, <4>3
    <3>4. Append(b, member[u].dept) = [j \in 1..(k + 1) |-> IF j \in 1..k THEN b[j] ELSE member[u].dept]
      BY <2>6, <3>3
    <3>5. \A j \in 1..(k + 1) : (IF j \in 1..k THEN b[j] ELSE member[u].dept) = member[targets[j].member].dept
      BY <2>6, <2>8, <3>1
    <3>6. prev = b
      BY <2>4, <2>7, <3>1 DEF Belonging
    <3> QED
      BY <3>3, <3>4, <3>5, <3>6 DEF Belonging
  <2>10. PICK l, new : AssignFrom(t, (k + 1) + 1, targets, Append(prev, member[u].dept), <<l, new>>)
    BY <1>2, <2>1, <2>7, <2>8, <2>9 DEF AssignMember, Refused
  <2>11. PICK locks : locks = <<l, new>>
    OBVIOUS
  <2>12. locks \in Seq(ToSet(locks))
    BY <2>11, FewQueued
  <2>13. \A j \in 1..(k + 1) : Lock(Update, MemberRow(targets[j].member)) \in Taken(t)
    BY <1>0, <2>3, <2>4, <2>6, ClaimsTaken
  <2>14. PICK more : more = Append(prev, member[u].dept)
    OBVIOUS
  <2>15. AssignFrom(t, (k + 1) + 1, targets, more, locks) /\ more = Belonging(targets, k + 1) /\ k + 1 \in 0..Len(targets)
    BY <2>5, <2>6, <2>9, <2>10, <2>11, <2>14
  <2> QED
    BY <1>0, <2>3, <2>12, <2>13, <2>15, NextAssigned
<1> QED
  BY <1>1, <1>2

(* An undo of assignments waits for the memberships, and for what they are *)
(* given back.                                                             *)
LEMMA UndoAssignmentsFiles ==
  ASSUME FiledInv, NEW t \in Requests, BeginUndoAssignments(t) \/ UndoAssignments(t)
  PROVE  Filing(t)'
<1>0. Shaped
  BY DEF FiledInv, UsageInv, OrganisationInv
<1>1. CASE BeginUndoAssignments(t)
  <2>1. PICK b \in Stamps :
          /\ batches[b].kind = "assignments"
          /\ \E order \in SetToSeqs({x.member : x \in batches[b].items}) :
               BeginUndo(t, "undoAssignments", b, Locks(Update, [i \in DOMAIN order |-> MemberRow(order[i])]))
    BY <1>1 DEF BeginUndoAssignments
  <2>2. PICK S : S = {x.member : x \in batches[b].items}
    OBVIOUS
  <2>3. PICK order \in SetToSeqs(S) :
          BeginUndo(t, "undoAssignments", b, Locks(Update, [i \in DOMAIN order |-> MemberRow(order[i])]))
    BY <2>1, <2>2
  <2>4. PICK Under : Under = {MemberRow(u) : u \in S}
    OBVIOUS
  <2>5. PICK row \in [S -> Under] : \A u \in S : row[u] = MemberRow(u)
    <3>1. [u \in S |-> MemberRow(u)] \in [S -> Under]
      BY <2>4
    <3> QED
      BY <3>1
  <2>6. IsFiniteSet(S)
    <3>1. PICK items : items = batches[b].items
      OBVIOUS
    <3>2. IsFiniteSet(items)
      BY <2>1, <3>1 DEF FiledInv, FiledBatches
    <3>3. PICK f : f = [x \in items |-> x.member]
      OBVIOUS
    <3>4. IsFiniteSet({f[x] : x \in items})
      BY <3>2, <3>3, ImageIsFinite
    <3>5. {f[x] : x \in items} = S
      BY <2>2, <3>1, <3>3
    <3> QED
      BY <3>4, <3>5
  <2>7. order \in Seq(S)
    BY <2>6, OrderIsAll
  <2>8. \A i \in DOMAIN order : order[i] \in S
    BY <2>7
  <2>9. PICK rows \in [DOMAIN order -> Under] : rows = [i \in DOMAIN order |-> MemberRow(order[i])]
    <3>1. [i \in DOMAIN order |-> MemberRow(order[i])] \in [DOMAIN order -> Under]
      BY <2>4, <2>8
    <3> QED
      BY <3>1
  <2>10. PICK waits : waits = Locks(Update, rows)
    OBVIOUS
  <2>11. order \in SetToSeqs(S) /\ \A i \in DOMAIN order : rows[i] = row[order[i]]
    BY <2>5, <2>8, <2>9
  <2>12. waits \in Seq(ToSet(waits)) /\ \A u \in S : Lock(Update, row[u]) \in ToSet(waits)
    <3>1. /\ Locks(Update, rows) \in Seq(ToSet(Locks(Update, rows)))
          /\ \A u \in S : Lock(Update, row[u]) \in ToSet(Locks(Update, rows))
      BY <2>6, <2>11, LocksQueued
    <3> QED
      BY <2>10, <3>1
  <2>13. pc'[t] = "undoAssignments" /\ req'[t].arg = b /\ want'[t] = waits /\ batches' = batches
    BY <1>0, <2>3, <2>9, <2>10, BeginMoves DEF BeginUndo
  <2>14. \A x \in batches[b].items : x.member \in S
    BY <2>2
  <2>15. UndoesAssignments(t)'
    BY <2>1, <2>5, <2>12, <2>13, <2>14 DEF UndoesAssignments, Queued, Claims
  <2> QED
    BY <2>13, <2>15 DEF Filing, FilesDepartments, UndoesDepartments, FilesAssignments, SavesMembership
<1>2. CASE UndoAssignments(t)
  <2>1. pc[t] = "undoAssignments" /\ Granted(t) /\ plan' = plan /\ Filing(t)
    BY <1>2 DEF UndoAssignments, At, FiledInv
  <2>2. PICK b \in Stamps :
          /\ b = req[t].arg /\ batches[b].kind = "assignments"
          /\ Queued(t) /\ \A x \in batches[b].items : Lock(Update, MemberRow(x.member)) \in Claims(t)
    BY <2>1 DEF Filing, UndoesAssignments
  <2>3. PICK back : back = Restorable(b)
    OBVIOUS
  <2>4. back \subseteq batches[b].items
    BY <2>3 DEF Restorable
  <2>5. PICK some, S, T : /\ some = {x \in back : x.prev # None}
                          /\ S = {UserRow(x.member[1]) : x \in back} /\ T = {DeptRow(x.prev) : x \in some}
    OBVIOUS
  <2>6. PICK users \in SetToSeqs(S), prevs \in SetToSeqs(T) :
          Goto(t, "restoreAssignments", Locks(Update, users) \o Locks(Key, prevs), back)
    BY <1>2, <2>2, <2>3, <2>5 DEF UndoAssignments
  <2>7. PICK v, w, waits : v = Locks(Update, users) /\ w = Locks(Key, prevs) /\ waits = v \o w
    OBVIOUS
  <2>8. IsFiniteSet(S) /\ IsFiniteSet(T)
    <3>1. IsFiniteSet(batches[b].items)
      BY <2>2 DEF FiledInv, FiledBatches
    <3>2. IsFiniteSet(back) /\ IsFiniteSet(some)
      BY <2>4, <2>5, <3>1, FS_Subset
    <3>3. PICK f, g : f = [x \in back |-> UserRow(x.member[1])] /\ g = [x \in some |-> DeptRow(x.prev)]
      OBVIOUS
    <3>4. IsFiniteSet({f[x] : x \in back}) /\ IsFiniteSet({g[x] : x \in some})
      BY <3>2, <3>3, ImageIsFinite
    <3>5. S = {f[x] : x \in back} /\ T = {g[x] : x \in some}
      BY <2>5, <3>3
    <3> QED
      BY <3>4, <3>5
  <2>9. v \in Seq(ToSet(v)) /\ w \in Seq(ToSet(w))
    <3>1. users \in SetToSeqs(S) /\ prevs \in SetToSeqs(T)
      OBVIOUS
    <3> QED
      BY <2>7, <2>8, <3>1, RowsInOrder
  <2>10. waits \in Seq(ToSet(waits))
    BY <2>7, <2>9, JoinedQueued
  <2>11. /\ pc'[t] = "restoreAssignments" /\ want'[t] = waits /\ held'[t] = Taken(t) /\ req'[t].saw = back
    BY <1>0, <2>1, <2>6, <2>7, GotoMoves
  <2>12. Claims(t) \subseteq Taken(t)
    BY <2>1, <2>2, ClaimsTaken
  <2>13. UndoesAssignments(t)'
    BY <2>2, <2>4, <2>10, <2>11, <2>12 DEF UndoesAssignments, Queued, Claims
  <2> QED
    BY <2>11, <2>13 DEF Filing, FilesDepartments, UndoesDepartments, FilesAssignments, SavesMembership
<1> QED
  BY <1>1, <1>2

(* The form of a person locks the membership before it writes it.          *)
LEMMA SaveMembershipFiles ==
  ASSUME FiledInv, NEW t \in Requests, BeginSaveMembership(t) \/ SaveMembership(t)
  PROVE  Filing(t)'
<1>0. Shaped
  BY DEF FiledInv, UsageInv, OrganisationInv
<1>1. CASE BeginSaveMembership(t)
  <2>1. PICK u \in People, role \in Plan.roles, d \in DOMAIN dept \cup {None} :
          Begin(t, "saveMembership", [owner |-> u, role |-> role, dept |-> d], "saveMembership",
                OwnerLock(u) \o <<Lock(Write, MemberRow(<<u, role>>))>> \o RefLock(d))
    BY <1>1 DEF BeginSaveMembership
  <2>2. PICK l : l = Lock(Write, MemberRow(<<u, role>>))
    OBVIOUS
  <2>3. PICK v, w, x : v = OwnerLock(u) /\ w = <<l>> /\ x = RefLock(d)
    OBVIOUS
  <2>4. v \in Seq(ToSet(v)) /\ w \in Seq(ToSet(w)) /\ x \in Seq(ToSet(x)) /\ l \in ToSet(w)
    BY <2>3, FewQueued DEF OwnerLock, RefLock
  <2>5. PICK most : most = v \o w
    OBVIOUS
  <2>6. most \in Seq(ToSet(most)) /\ ToSet(most) = ToSet(v) \cup ToSet(w)
    BY <2>4, <2>5, JoinedQueued
  <2>7. PICK waits : waits = most \o x
    OBVIOUS
  <2>8. waits \in Seq(ToSet(waits)) /\ ToSet(waits) = ToSet(most) \cup ToSet(x)
    BY <2>4, <2>6, <2>7, JoinedQueued
  <2>9. PICK arg : arg = [owner |-> u, role |-> role, dept |-> d] /\ arg.owner = u /\ arg.role = role
    <3>1. PICK arg : arg = [owner |-> u, role |-> role, dept |-> d]
      OBVIOUS
    <3>2. arg.owner = u /\ arg.role = role
      BY <3>1
    <3> QED
      BY <3>1, <3>2
  <2>10. Begin(t, "saveMembership", arg, "saveMembership", waits)
    BY <2>1, <2>2, <2>3, <2>5, <2>7, <2>9
  <2>11. pc'[t] = "saveMembership" /\ want'[t] = waits /\ req'[t].arg = arg
    BY <1>0, <2>10, BeginMoves
  <2>12. SavesMembership(t)'
    BY <2>2, <2>4, <2>6, <2>8, <2>9, <2>11 DEF SavesMembership, Queued, Claims
  <2> QED
    BY <2>11, <2>12 DEF Filing, FilesDepartments, UndoesDepartments, FilesAssignments, UndoesAssignments
<1>2. CASE SaveMembership(t)
  <2>1. pc[t] = "saveMembership" /\ Granted(t) /\ plan' = plan /\ SavesMembership(t)
    BY <1>2 DEF SaveMembership, At, FiledInv, Filing
  <2>2. CASE Done(t)
    BY <1>0, <2>1, <2>2, DoneMoves, NothingFiled DEF FilingPhases
  <2>3. CASE Goto(t, "commitMembership", <<>>, None)
    <3>1. /\ pc'[t] = "commitMembership" /\ want'[t] = <<>> /\ held'[t] = Taken(t) /\ req'[t].arg = req[t].arg
      BY <1>0, <2>1, <2>3, GotoMoves
    <3>2. Queued(t) /\ Lock(Write, MemberRow(<<req[t].arg.owner, req[t].arg.role>>)) \in Claims(t)
      BY <2>1 DEF SavesMembership
    <3>3. Lock(Write, MemberRow(<<req'[t].arg.owner, req'[t].arg.role>>)) \in held'[t]
      BY <2>1, <3>1, <3>2, ClaimsTaken
    <3>4. Queued(t)'
      BY <3>1, FewQueued DEF Queued
    <3>5. SavesMembership(t)'
      BY <3>3, <3>4 DEF SavesMembership, Claims
    <3> QED
      BY <3>1, <3>5 DEF Filing, FilesDepartments, UndoesDepartments, FilesAssignments, UndoesAssignments
  <2> QED
    BY <1>2, <2>2, <2>3 DEF SaveMembership
<1> QED
  BY <1>1, <1>2

(* A step of the departments leaves what it should,                        *)
LEMMA OwnFiling ==
  ASSUME FiledInv, NEW t \in Requests, OrganisationStep(t)
  PROVE  Filing(t)'
<1>1. Shaped /\ Filing(t)
  BY DEF FiledInv, UsageInv, OrganisationInv
<1> QED
  BY <1>1, OrganisationFiles, ExamineDepartmentsFiles, InsertDepartmentsFiles, UndoDepartmentsFiles,
     BeginAssignmentsFiles, ExamineAssignmentsFiles, AssignMemberFiles, UndoAssignmentsFiles, SaveMembershipFiles,
     NothingFiled

(* and takes from no other what it is about to leave.                      *)
LEMMA OtherFiling ==
  ASSUME FiledInv, NEW t \in Requests, OrganisationStep(t), Passes(t, OrganisationPhases), FiledStand,
         NEW s \in Requests, s # t
  PROVE  Filing(s)'
<1>1. Shaped /\ Filing(s) /\ FiledBatches /\ LocksApart
  BY DEF FiledInv, UsageInv, OrganisationInv, RegisterInv, LocksInv
<1>2. /\ plan' = plan /\ pc'[s] = pc[s] /\ req'[s] = req[s] /\ held'[s] = held[s] /\ want'[s] = want[s]
      /\ pc[t] # "done"
  BY DEF Passes, OnlyMoves, OrganisationPhases
<1>3. Waits(s)
  BY <1>2 DEF Waits
<1>4. pc[s] = "undoDepartments" => req[s].arg \in Stamps /\ batches[req[s].arg].kind = "departments"
  BY DEF FiledInv, UsageInv
<1>5. Key \in Modes /\ Write \in Modes /\ Update \in Modes
  BY DEF Key, Write, Update, Modes
<1>6. Conflict(Key, Update) /\ Conflict(Update, Write) /\ Conflict(Update, Update)
  BY DEF Key, Write, Update, Conflict
<1>7. ASSUME NEW d \in DOMAIN dept, Lock(Key, DeptRow(d)) \in held[s], d \notin DOMAIN dept'
      PROVE  FALSE
  <2>1. Granted(t) /\ Lock(Update, DeptRow(d)) \in Taken(t)
    BY <1>7, DepartmentsWritten
  <2>2. PICK row : row = DeptRow(d)
    OBVIOUS
  <2> QED
    BY <1>1, <1>5, <1>6, <1>7, <2>1, <2>2, TakenExcludes
<1>8. ASSUME NEW b \in Stamps, batches[b].kind = "departments", NEW d \in batches[b].items, d \in DOMAIN dept'
      PROVE  d \in DOMAIN dept
  <2>1. d[1] \in Requests => pc[d[1]] = "done"
    BY <1>1, <1>8 DEF FiledBatches
  <2>2. d \notin DOMAIN dept => d[1] = t
    BY <1>8, DepartmentsWritten
  <2> QED
    BY <1>2, <2>1, <2>2
<1>9. ASSUME NEW u \in Memberships, Lock(Update, MemberRow(u)) \in held[s], member'[u] # member[u]
      PROVE  FALSE
  <2>1. Granted(t) /\ \E m \in {Write, Update} : Lock(m, MemberRow(u)) \in Taken(t)
    BY <1>9, MembersWritten
  <2>2. PICK row : row = MemberRow(u)
    OBVIOUS
  <2>3. PICK m \in {Write, Update} : Lock(m, row) \in Taken(t)
    BY <2>1, <2>2
  <2>4. m \in Modes /\ Conflict(Update, m)
    BY <1>5, <1>6
  <2> QED
    BY <1>1, <1>5, <1>9, <2>1, <2>2, <2>3, <2>4, TakenExcludes
<1>11. \A d \in DOMAIN dept : Lock(Key, DeptRow(d)) \in held[s] => d \in DOMAIN dept'
  BY <1>7
<1>12. \A b \in Stamps : batches[b].kind = "departments" => batches[b].items \cap DOMAIN dept' \subseteq DOMAIN dept
  BY <1>8
<1>13. \A u \in Memberships : Lock(Update, MemberRow(u)) \in held[s] => member'[u] = member[u]
  BY <1>9
<1> QED
  BY <1>1, <1>2, <1>3, <1>4, <1>11, <1>12, <1>13, FilingStays

(* Every step keeps all of this.                                           *)
LEMMA FiledKept ==
  ASSUME FiledInv, [Next]_vars PROVE FiledInv'
<1>1. UsageInv' /\ GivesInv'
  BY UsageKept, GivesKept DEF FiledInv
<1>2. Shaped /\ BatchesKept
  BY DEF FiledInv, UsageInv, OrganisationInv
<1>3. ASSUME NEW t \in Requests, OrganisationStep(t), Passes(t, OrganisationPhases)
      PROVE  FiledInv'
  <2>1. FiledStand /\ FiledBatches' /\ \A s \in Requests : NotFiled(s)'
    BY <1>3, FiledBatchesKept
  <2>2. \A s \in Requests : Filing(s)'
    BY <1>3, <2>1, OwnFiling, OtherFiling
  <2> QED
    BY <1>1, <2>1, <2>2 DEF FiledInv
<1> QED
  BY <1>1, <1>2, <1>3, FiledSteps, FiledElsewhere

(* It holds at first.                                                      *)
LEMMA FiledInitial == Init => FiledInv
<1> SUFFICES ASSUME Init PROVE FiledInv
  OBVIOUS
<1>1. UsageInv /\ GivesInv /\ \A t \in Requests : pc[t] = "idle"
  BY UsageInitial, StandsInitial, ShapedInit
<1>2. PICK name \in DOMAIN Plans :
        batches = [b \in Stamps |-> IF b = First THEN Plans[name].tables.batch ELSE NoBatch]
  BY DEF Init
<1>3. \A t \in Requests : t \in Stamps /\ t # First
  BY BatchAssumption DEF Stamps
<1>4. \A t \in Requests : NotFiled(t)
  BY <1>2, <1>3 DEF NotFiled, NoBatch, FiledKinds
<1>5. \A t \in Requests : Filing(t)
  BY <1>1 DEF Filing, FilesDepartments, UndoesDepartments, FilesAssignments, UndoesAssignments, SavesMembership
<1>6. FiledBatches
  <2>1. First \in Stamps => \/ batches[First] = Plans[name].tables.batch
    BY <1>2
  <2>2. IsFiniteSet(Plans[name].tables.batch.items)
    BY RegisterAssumption
  <2>3. Plans[name].tables.batch.kind = "departments" => \A d \in Plans[name].tables.batch.items : d[1] \notin Requests
    BY DepartmentsAssumption
  <2>4. \A b \in Stamps : b # First => batches[b].kind = "none"
    BY <1>2 DEF NoBatch
  <2> QED
    BY <2>1, <2>2, <2>3, <2>4 DEF FiledBatches
<1> QED
  BY <1>1, <1>4, <1>5, <1>6 DEF FiledInv

(* The departments of an import are under those their rows name,           *)
LEMMA DepartmentsAsFiled ==
  ASSUME FiledInv, NEW t \in Requests, CommitDepartments(t), NEW i \in DOMAIN File(t)
  PROVE  LET row == File(t)[i]
             up  == dept'[<<t, row.name>>].parent
         IN  /\ row.parent \in NamesIn(File(t)) => up = <<t, row.parent>>
             /\ row.parent \notin NamesIn(File(t)) \cup {None} => up \in DOMAIN dept
<1>1. PICK file, name, parent : file = File(t) /\ name = file[i].name /\ parent = file[i].parent
  OBVIOUS
<1>2. pc[t] = "commitDepartments" /\ FilesDepartments(t)
  BY DEF CommitDepartments, At, FiledInv, Filing
<1>3. ValidDepartments(file) /\ DOMAIN req[t].saw = ParentsOutside(file) /\ \A d \in Range(req[t].saw) : Present(d)
  BY <1>1, <1>2 DEF FilesDepartments
<1>4. name \in NamesIn(file)
  BY <1>1 DEF NamesIn
<1>5. RowOf(file, name) = file[i]
  <2>1. PICK j : j = (CHOOSE k \in DOMAIN file : file[k].name = name)
    OBVIOUS
  <2>2. j \in DOMAIN file /\ file[j].name = name
    BY <1>1, <2>1
  <2>3. j = i
    BY <1>1, <1>3, <2>2 DEF ValidDepartments
  <2> QED
    BY <2>1, <2>3 DEF RowOf
<1>6. PICK made, d : made = MadeFrom(t) /\ d = <<t, name>>
  OBVIOUS
<1>7. d \in DOMAIN made /\ made[d].parent = FiledUnder(t, name)
  BY <1>1, <1>4, <1>6, CommitsAsFiled
<1>8. dept'[d] = made[d]
  BY <1>6, <1>7 DEF CommitDepartments, Over
<1>9. dept'[d].parent = IF parent \in NamesIn(file) THEN <<t, parent>>
                        ELSE IF parent \in DOMAIN req[t].saw THEN req[t].saw[parent] ELSE None
  BY <1>1, <1>5, <1>7, <1>8 DEF FiledUnder
<1>10. parent \notin NamesIn(file) \cup {None} => parent \in DOMAIN req[t].saw
  BY <1>1, <1>3 DEF ParentsOutside
<1>11. parent \in DOMAIN req[t].saw => req[t].saw[parent] \in DOMAIN dept
  BY <1>3 DEF Present, Range
<1> QED
  BY <1>1, <1>6, <1>9, <1>10, <1>11

(* and those that memberships had are remembered as they were.             *)
LEMMA AssignedAsFiled ==
  ASSUME FiledInv, NEW t \in Requests, CommitAssignments(t), Imported(t, "assignments", Assigned(t)),
         NEW assigned \in Assigned(t)
  PROVE  assigned.prev = member[assigned.member].dept /\ assigned.new = member'[assigned.member].dept
<1>1. Shaped /\ pc[t] = "commitAssignments" /\ FilesAssignments(t)
  BY DEF CommitAssignments, At, FiledInv, UsageInv, OrganisationInv, Filing
<1>2. PICK targets : targets = req[t].saw.targets
  OBVIOUS
<1>a. Distinct(targets) /\ req[t].saw.prev = Belonging(targets, Len(targets))
  BY <1>1, <1>2 DEF FilesAssignments
<1>3. targets \in Seq(ToSet(targets))
  BY <1>a DEF Distinct
<1>4. /\ \A i, j \in DOMAIN targets : targets[i].member = targets[j].member => i = j
      /\ \A i \in DOMAIN targets : targets[i].member \in Memberships
  BY <1>a DEF Distinct
<1>5. PICK i \in DOMAIN targets :
        assigned = [member |-> targets[i].member, prev |-> req[t].saw.prev[i], new |-> targets[i].dept]
  BY <1>2 DEF Assigned
<1>6. PICK u : u = targets[i].member /\ u \in Memberships
  BY <1>4
<1>7. assigned.member = u /\ assigned.prev = req[t].saw.prev[i]
  BY <1>5, <1>6
<1>8. req[t].saw.prev[i] = member[u].dept
  <2>1. i \in 1..Len(targets)
    BY <1>3
  <2> QED
    BY <1>a, <1>6, <2>1 DEF Belonging
<1>9. \A other \in Assigned(t) : other.member = u => other = assigned
  <2>1. ASSUME NEW other \in Assigned(t), other.member = u PROVE other = assigned
    <3>1. PICK j \in DOMAIN targets :
            other = [member |-> targets[j].member, prev |-> req[t].saw.prev[j], new |-> targets[j].dept]
      BY <1>2 DEF Assigned
    <3>2. targets[j].member = u
      BY <2>1, <3>1
    <3>3. j = i
      BY <1>4, <1>6, <3>2
    <3> QED
      BY <1>5, <3>1, <3>3
  <2> QED
    BY <2>1
<1>10. (CHOOSE other \in Assigned(t) : other.member = u) = assigned
  BY <1>7, <1>9
<1>11. batches' # batches
  <2>1. batches[t].kind # "assignments"
    BY <1>1 DEF FiledInv, NotFiled, FiledKinds
  <2>2. batches'[t].kind = "assignments"
    BY DEF Imported, Batch, FiledInv, UsageInv, OrganisationInv, BatchesKept, Stamps
  <2> QED
    BY <2>1, <2>2
<1>12. member' = [v \in Memberships |->
                   IF \E other \in Assigned(t) : other.member = v
                   THEN [dept |-> (CHOOSE other \in Assigned(t) : other.member = v).new, stamp |-> t, revoked |-> FALSE]
                   ELSE member[v]]
  BY <1>11, Zenon DEF CommitAssignments, Refused
<1>13. member'[u] = [dept |-> assigned.new, stamp |-> t, revoked |-> FALSE]
  BY <1>6, <1>7, <1>10, <1>12
<1>14. member'[u].dept = assigned.new
  BY <1>13
<1> QED
  BY <1>7, <1>8, <1>14

(* An import leaves what its file says: each department is under the       *)
(* parent its row names, a row of the file or a department that is there,  *)
(* and the batch of an import of assignments remembers the department that *)
(* each membership had until then and the one it has now                   *)
(* (importDepartments and importAssignments of lib/csvImport against the   *)
(* undos of earlier imports and the organisation screen).                  *)
THEOREM ImportAsFiled == Spec => ImportIsAsFiled
<1>1. Init => FiledInv
  BY FiledInitial
<1>2. FiledInv /\ [Next]_vars => FiledInv'
  BY FiledKept
<1>3. ASSUME FiledInv, [Next]_vars
      PROVE  [ \A t \in Requests : CommittedBy(t) =>
                 /\ batches'[t].kind = "departments" =>
                      \A i \in DOMAIN File(t) :
                        LET row == File(t)[i]
                            up  == dept'[<<t, row.name>>].parent
                        IN  /\ row.parent \in NamesIn(File(t)) => up = <<t, row.parent>>
                            /\ row.parent \notin NamesIn(File(t)) \cup {None} => up \in DOMAIN dept
                 /\ batches'[t].kind = "assignments" =>
                      \A assigned \in batches'[t].items :
                        /\ assigned.prev = member[assigned.member].dept
                        /\ assigned.new = member'[assigned.member].dept ]_vars
  <2>0. Shaped /\ BatchesKept /\ Requests \subseteq Stamps
    BY <1>3 DEF FiledInv, UsageInv, OrganisationInv, Stamps
  <2>1. ASSUME NEW t \in Requests, batches[t].kind = "none", batches'[t].kind \in FiledKinds
        PROVE  \/ CommitDepartments(t) /\ batches'[t].kind = "departments"
               \/ /\ CommitAssignments(t) /\ Imported(t, "assignments", Assigned(t))
                  /\ batches'[t].kind = "assignments" /\ batches'[t].items = Assigned(t)
    <3>1. t \in Stamps /\ batches'[t].kind # batches[t].kind
      BY <2>0, <2>1 DEF FiledKinds
    <3>2. ~FiledStay
      BY <2>1, <3>1 DEF FiledStay
    <3>3. PICK u \in Requests : OrganisationStep(u)
      BY <1>3, <2>0, <3>2, FiledSteps
    <3>4. ~ImportsOnly(u, {}) /\ (ImportsOnly(u, {"departments", "assignments"}) => u = t)
      BY <3>1 DEF ImportsOnly
    <3>5. u = t /\ (CommitDepartments(t) \/ CommitAssignments(t))
      BY <2>0, <3>3, <3>4, OrganisationImports
    <3>6. \A kind, items : Imported(t, kind, items) => batches'[t].kind = kind /\ batches'[t].items = items
      BY <2>0, <3>1 DEF Imported, Batch, BatchesKept
    <3>7. CommitDepartments(t) => batches'[t].kind = "departments"
      BY <3>6, Zenon DEF CommitDepartments
    <3>8. CommitAssignments(t) => Imported(t, "assignments", Assigned(t))
      BY <3>1 DEF CommitAssignments, Refused
    <3> QED
      BY <3>5, <3>6, <3>7, <3>8
  <2>2. ASSUME NEW t \in Requests, batches[t].kind = "none", batches'[t].kind = "departments", NEW i \in DOMAIN File(t)
        PROVE  LET row == File(t)[i]
                   up  == dept'[<<t, row.name>>].parent
               IN  /\ row.parent \in NamesIn(File(t)) => up = <<t, row.parent>>
                   /\ row.parent \notin NamesIn(File(t)) \cup {None} => up \in DOMAIN dept
    <3>1. CommitDepartments(t)
      BY <2>1, <2>2 DEF FiledKinds
    <3> QED
      BY <1>3, <3>1, DepartmentsAsFiled
  <2>3. ASSUME NEW t \in Requests, batches[t].kind = "none", batches'[t].kind = "assignments",
               NEW assigned \in batches'[t].items
        PROVE  assigned.prev = member[assigned.member].dept /\ assigned.new = member'[assigned.member].dept
    <3>1. CommitAssignments(t) /\ Imported(t, "assignments", Assigned(t)) /\ assigned \in Assigned(t)
      BY <2>1, <2>3 DEF FiledKinds
    <3> QED
      BY <1>3, <3>1, AssignedAsFiled
  <2> QED
    BY <2>2, <2>3 DEF CommittedBy
<1> QED
  BY <1>1, <1>2, <1>3, PTL DEF Spec, ImportIsAsFiled

-----------------------------------------------------------------------------
(* Files: what is imported of one.                                         *)

(* A row that says something, of values that fit and are trimmed.          *)
FitRow(A, C, row) ==
  /\ row \in [C -> Seq(A)] /\ \A c \in C : Neat(row[c]) /\ CellFits(c, row[c])
  /\ \E c \in C : row[c] # <<>>

(* What a file says that can be imported: its columns C, and a row of      *)
(* trimmed values for each record after the first.                         *)
WellRead(A, C, rows) ==
  /\ "quote" \in A /\ "comma" \in A /\ "lf" \in A /\ "cr" \notin A
  /\ C \subseteq Seq(A) /\ IsFiniteSet(C) /\ C \subseteq DOMAIN Columns
  /\ \A c \in C : Neat(c)
  /\ \E c \in C : c # <<>>
  /\ \A c \in DOMAIN Columns : Columns[c].required => c \in C
  /\ rows \in Seq([C -> Seq(A)]) /\ \A i \in 1..Len(rows) : FitRow(A, C, rows[i])

(* A trimmed cell fits when it did before.                                 *)
LEMMA TrimmedFits ==
  ASSUME NEW A, NEW cell \in Seq(A), NEW column, CellFits(column, cell)
  PROVE  CellFits(column, Trimmed(cell))
<1>1. PICK v : v = Trimmed(cell)
  OBVIOUS
<1>2. v \in Seq(A) /\ Neat(v) /\ Trimmed(v) = v
  BY <1>1, TrimmedIsNeat, NeatStays
<1>3. ~looksLikeFormula(v)
  <2>1. v # <<>> => v[1] # "formula"
    BY <1>1 DEF CellFits, looksLikeFormula
  <2>2. v # <<>> => v[1] \notin Newlines \cup {"tab"}
    BY <1>2 DEF Neat, Blanks
  <2> QED
    BY <1>2, <2>1, <2>2 DEF looksLikeFormula
<1> QED
  BY <1>1, <1>2, <1>3 DEF CellFits

(* A value that fits is no formula.                                        *)
LEMMA FitsNoFormula ==
  ASSUME NEW A, NEW v \in Seq(A), Neat(v), NEW column, CellFits(column, v)
  PROVE  v = <<>> \/ Head(v) # "formula"
<1>1. Trimmed(v) = v
  BY NeatStays
<1>2. v # <<>> => v[1] # "formula"
  BY <1>1 DEF CellFits, looksLikeFormula
<1>3. v # <<>> => Head(v) = v[1]
  OBVIOUS
<1> QED
  BY <1>2, <1>3

(* The records of a text, with a value in each.                            *)
LEMMA RecordsAre ==
  ASSUME NEW A, "quote" \in A, NEW text \in Seq(A)
  PROVE  RecordsOf(text) \in Seq({r \in Seq(Seq(A)) : ~IsBlank(r)})
<1> DEFINE s == Scanned(text)
           last == IF s.started \/ s.cell # <<>> THEN EndRecord(s) ELSE s
           R == Seq(Seq(A))
<1>1. s \in ScanStates(A)
  <2>1. PICK g \in [0..Len(text) -> ScanStates(A)] : Scanned(text) = g[Len(text)]
    BY ScannedGoes
  <2>2. Len(text) \in 0..Len(text)
    OBVIOUS
  <2> QED
    BY <2>1, <2>2
<1>2. s.records \in Seq(R) /\ s.record \in Seq(Seq(A)) /\ s.cell \in Seq(A)
  BY <1>1 DEF ScanStates
<1>3. EndRecord(s).records \in Seq(R)
  <2>1. WithCell(s) \in R
    BY <1>2 DEF WithCell
  <2>2. EndRecord(s).records = Append(s.records, WithCell(s))
    BY <1>1 DEF EndRecord, ScanStates
  <2> HIDE DEF s, R
  <2> QED
    BY <1>2, <2>1, <2>2
<1> HIDE DEF s
<1>4. last.records \in Seq(R)
  BY <1>2, <1>3
<1>5. RecordsOf(text) = IF s.bad \/ s.quoted THEN <<>> ELSE Saying(last.records)
  BY DEF RecordsOf, s
<1> HIDE DEF last, R
<1>6. Saying(last.records) \in Seq({r \in R : ~IsBlank(r)})
  BY <1>4, SayingIs
<1>7. <<>> \in Seq({r \in R : ~IsBlank(r)})
  OBVIOUS
<1> QED
  BY <1>5, <1>6, <1>7 DEF R

(* A row of a record, by the columns of the header H.                      *)
ImportedRow(H, r) == [c \in Range(H) |-> Trimmed(r[CHOOSE k \in DOMAIN H : H[k] = c])]

(* It fits when every cell of the record does.                             *)
LEMMA RowIs ==
  ASSUME NEW A, NEW m \in Nat, NEW H \in [1..m -> Seq(A)], \A i, j \in 1..m : H[i] = H[j] => i = j,
         NEW r \in Seq(Seq(A)), Len(r) = m, ~IsBlank(r), \A k \in 1..m : CellFits(H[k], r[k])
  PROVE  FitRow(A, Range(H), ImportedRow(H, r))
<1> DEFINE K(c) == CHOOSE k \in DOMAIN H : H[k] = c
           C == Range(H)
           row == ImportedRow(H, r)
<1>1. \A c \in C : K(c) \in 1..m /\ H[K(c)] = c
  BY DEF Range
<1>2. row = [c \in C |-> Trimmed(r[K(c)])]
  BY DEF ImportedRow
<1>3. \A k \in 1..m : r[k] \in Seq(A)
  OBVIOUS
<1>4. PICK k \in 1..m : Trimmed(r[k]) # <<>>
  BY DEF IsBlank
<1>5. H[k] \in C /\ K(H[k]) = k
  <2>1. H[k] \in C
    BY DEF Range
  <2> HIDE DEF K, C
  <2> QED
    BY <1>1, <2>1
<1> HIDE DEF K, C, row
<1>6. ASSUME NEW c \in C PROVE row[c] \in Seq(A) /\ Neat(row[c]) /\ CellFits(c, row[c])
  <2>1. PICK cell : cell = r[K(c)] /\ cell \in Seq(A) /\ CellFits(c, cell)
    BY <1>1, <1>3
  <2>2. row[c] = Trimmed(cell)
    BY <1>2, <2>1
  <2>3. Trimmed(cell) \in Seq(A) /\ Neat(Trimmed(cell)) /\ CellFits(c, Trimmed(cell))
    BY <2>1, TrimmedIsNeat, TrimmedFits
  <2> QED
    BY <2>2, <2>3
<1>7. row \in [C -> Seq(A)]
  <2>1. \A c \in C : row[c] \in Seq(A)
    BY <1>6
  <2> QED
    BY <1>2, <2>1
<1>8. row[H[k]] # <<>>
  BY <1>2, <1>4, <1>5
<1> QED
  BY <1>5, <1>6, <1>7, <1>8 DEF C, row, FitRow

(* What is read of a text that can be imported.                            *)
LEMMA ReadIsWellRead ==
  ASSUME NEW text, text \in Seq(Range(text)), Read(text) # None
  PROVE  \E A, C : WellRead(A, C, Read(text))
<1> DEFINE all == Range(text) \cup {"quote", "comma", "lf", "cr"}
           A == all \ {"cr"}
           N == Normalised(text)
           RR == {r \in Seq(Seq(A)) : ~IsBlank(r)}
           records == RecordsOf(N)
           H == Header(records)
           C == Range(H)
           rows == [i \in 1..(Len(records) - 1) |-> ImportedRow(H, records[i + 1])]
<1>1. "quote" \in A /\ "comma" \in A /\ "lf" \in A /\ "cr" \notin A
  OBVIOUS
<1>2. records \in Seq(RR)
  <2>1. text \in Seq(all)
    OBVIOUS
  <2>2. N \in Seq(A)
    BY <2>1, NormalisedHasNone
  <2> HIDE DEF N, A
  <2> QED
    BY <1>1, <2>2, RecordsAre
<1> HIDE DEF A
<1>3. /\ records # <<>> /\ HeaderFits(H) /\ \A i \in 2..Len(records) : RowFits(H, records[i])
      /\ Read(text) = [i \in 1..(Len(records) - 1) |->
                         [c \in C |-> Trimmed(records[i + 1][CHOOSE k \in DOMAIN records[1] : H[k] = c])]]
  <2> HIDE DEF records
  <2>1. Read(text) = IF records # <<>> /\ HeaderFits(H) /\ \A i \in 2..Len(records) : RowFits(H, records[i])
                     THEN [i \in 1..(Len(records) - 1) |->
                             [c \in C |-> Trimmed(records[i + 1][CHOOSE k \in DOMAIN records[1] : H[k] = c])]]
                     ELSE None
    BY Zenon DEF Read, records
  <2> QED
    BY <2>1, Zenon
<1> HIDE DEF records
<1>4. PICK r1, m : r1 = records[1] /\ m = Len(r1)
  OBVIOUS
<1>5. r1 \in Seq(Seq(A)) /\ ~IsBlank(r1) /\ m \in Nat /\ DOMAIN r1 = 1..m
  <2>1. records[1] \in RR
    BY <1>2, <1>3
  <2> QED
    BY <1>4, <2>1
<1>6. H = [i \in 1..m |-> Trimmed(r1[i])]
  BY <1>4, <1>5 DEF Header
<1>7. \A i \in 1..m : Trimmed(r1[i]) \in Seq(A) /\ Neat(Trimmed(r1[i]))
  BY <1>4, <1>5, TrimmedIsNeat
<1> HIDE DEF H
<1>8. H \in [1..m -> Seq(A)] /\ \A i \in 1..m : Neat(H[i])
  BY <1>6, <1>7
<1>9. PICK named \in 1..m : H[named] # <<>>
  BY <1>5, <1>6 DEF IsBlank
<1>10. /\ \A i, j \in 1..m : H[i] = H[j] => i = j
       /\ \A i \in 1..m : H[i] \in DOMAIN Columns
       /\ \A c \in DOMAIN Columns : Columns[c].required => c \in C
  BY <1>3, <1>8 DEF HeaderFits, IsInjective
<1>11. C \subseteq Seq(A) /\ C \subseteq DOMAIN Columns /\ (\A c \in C : Neat(c)) /\ \E c \in C : c # <<>>
  BY <1>8, <1>9, <1>10 DEF Range
<1>12. IsFiniteSet(C)
  <2>1. H \in Surjection(1..m, C)
    BY <1>8 DEF Surjection, Range
  <2>2. IsFiniteSet(1..m)
    BY <1>5, FS_Interval
  <2> QED
    BY <2>1, <2>2, FS_Surjection
<1>13. ASSUME NEW i \in 1..(Len(records) - 1)
       PROVE  FitRow(A, C, ImportedRow(H, records[i + 1]))
  <2>1. PICK r : r = records[i + 1]
    OBVIOUS
  <2>2. i + 1 \in 2..Len(records) /\ i + 1 \in 1..Len(records) /\ Len(records) \in Nat
    BY <1>2
  <2>3. r \in RR /\ RowFits(H, r)
    BY <1>2, <1>3, <2>1, <2>2
  <2>4. Len(r) = m /\ \A x \in 1..m : CellFits(H[x], r[x])
    <3>1. DOMAIN H = 1..m /\ Len(H) = m
      BY <1>5, <1>8
    <3> QED
      BY <2>3, <3>1 DEF RowFits
  <2>5. r \in Seq(Seq(A)) /\ ~IsBlank(r)
    BY <2>3
  <2>6. FitRow(A, C, ImportedRow(H, r))
    BY <1>5, <1>8, <1>10, <2>4, <2>5, RowIs
  <2> QED
    BY <2>1, <2>6
<1>14. Read(text) = rows
  <2> DEFINE RowsAt(D) == [i \in 1..(Len(records) - 1) |->
                             [c \in C |-> Trimmed(records[i + 1][CHOOSE k \in D : H[k] = c])]]
  <2>1. DOMAIN records[1] = DOMAIN H
    BY <1>4, <1>5, <1>8
  <2>2. Read(text) = RowsAt(DOMAIN records[1]) /\ rows = RowsAt(DOMAIN H)
    BY <1>3, Zenon DEF ImportedRow
  <2> HIDE DEF RowsAt, rows
  <2> QED
    BY <2>1, <2>2
<1>15. Len(records) - 1 \in Nat
  BY <1>2, <1>3
<1>16. rows \in Seq([C -> Seq(A)]) /\ Len(rows) = Len(records) - 1
       /\ \A i \in 1..Len(rows) : rows[i] = ImportedRow(H, records[i + 1])
  <2> HIDE DEF C
  <2>1. \A i \in 1..(Len(records) - 1) : ImportedRow(H, records[i + 1]) \in [C -> Seq(A)]
    BY <1>13 DEF FitRow
  <2> QED
    BY <1>15, <2>1
<1> HIDE DEF rows, C
<1>17. \A i \in 1..Len(rows) : FitRow(A, C, rows[i])
  BY <1>13, <1>16
<1>18. WellRead(A, C, rows)
  BY <1>1, <1>10, <1>11, <1>12, <1>16, <1>17 DEF WellRead
<1> QED
  BY <1>14, <1>18

(* A record with a value that is trimmed and not empty says something.     *)
LEMMA NotBlank ==
  ASSUME NEW A, NEW r \in Seq(Seq(A)), NEW k \in 1..Len(r), r[k] # <<>>, Neat(r[k])
  PROVE  ~IsBlank(r) /\ r # <<>>
<1>1. k \in DOMAIN r /\ r[k] \in Seq(A)
  OBVIOUS
<1>2. Trimmed(r[k]) = r[k]
  BY <1>1, NeatStays
<1> QED
  BY <1>1, <1>2 DEF IsBlank

(* The records of the file that is written of them.                        *)
LEMMA RecordsAgain ==
  ASSUME NEW A, "quote" \in A, "comma" \in A, "lf" \in A, "cr" \notin A,
         NEW header \in Seq(Seq(A)), header # <<>>, ~IsBlank(header),
         NEW recs, NEW w, AsTexts(A, recs, w), \A i \in 1..Len(recs) : ~IsBlank(recs[i]),
         NEW text, text = FileOf(header, w)
  PROVE  RecordsOf(Normalised(text)) = Followed(<<header>>, recs)
<1> DEFINE all == Followed(<<header>>, recs)
           s == Scanned(text)
<1>1. text \in Seq(A) /\ s = Opening(all, <<>>)
  BY FileRead
<1>2. Normalised(text) = text
  BY <1>1, NormalisedAsItIs
<1>3. PICK R : R = Seq(Seq(A))
  OBVIOUS
<1>4. header \in R /\ recs \in Seq(R)
  BY <1>3 DEF AsTexts
<1>5. /\ all \in Seq(R) /\ Len(recs) \in Nat /\ Len(all) = 1 + Len(recs) /\ all[1] = header
      /\ \A i \in 1..Len(recs) : all[1 + i] = recs[i]
  <2>1. <<header>> \in Seq(R) /\ Len(<<header>>) = 1 /\ <<header>>[1] = header
    BY <1>4
  <2> QED
    BY <1>4, <2>1 DEF Followed
<1> HIDE DEF all
<1>6. \A i \in 1..Len(all) : ~IsBlank(all[i])
  <2> SUFFICES ASSUME NEW i \in 1..Len(all), i # 1 PROVE ~IsBlank(all[i])
    BY <1>5
  <2>1. PICK j : j = i - 1
    OBVIOUS
  <2>2. j \in 1..Len(recs) /\ i = 1 + j
    BY <1>5, <2>1
  <2>3. all[i] = recs[j]
    BY <1>5, <2>2
  <2> QED
    BY <2>2, <2>3
<1>7. Saying(all) = all
  BY <1>5, <1>6, SayingAll
<1>8. s.records = all /\ ~s.started /\ s.cell = <<>> /\ ~s.bad /\ ~s.quoted
  BY <1>1 DEF Opening, Reader
<1> HIDE DEF s
<1>9. RecordsOf(text) = Saying(s.records)
  BY <1>8 DEF RecordsOf, s
<1> QED
  BY <1>2, <1>7, <1>8, <1>9 DEF all

(* What was read, written to a file again, is read again.                  *)
LEMMA WellReadAgain ==
  ASSUME NEW A, NEW C, NEW rows, WellRead(A, C, rows), NEW header \in SetToSeqs(C)
  PROVE  Read(FileText(header, rows)) = rows
<1> DEFINE rec(i) == [k \in DOMAIN header |-> rows[i][header[k]]]
           n == Len(rows)
           m == Len(header)
           recs == [i \in 1..n |-> rec(i)]
           w == [i \in DOMAIN rows |-> RecordText(rec(i))]
           records == Followed(<<header>>, recs)
           text == FileText(header, rows)
<1>1. /\ "quote" \in A /\ "comma" \in A /\ "lf" \in A /\ "cr" \notin A
      /\ C \subseteq Seq(A) /\ IsFiniteSet(C) /\ C \subseteq DOMAIN Columns
      /\ (\A c \in C : Neat(c)) /\ (\E c \in C : c # <<>>)
      /\ \A c \in DOMAIN Columns : Columns[c].required => c \in C
      /\ rows \in Seq([C -> Seq(A)]) /\ \A i \in 1..Len(rows) : FitRow(A, C, rows[i])
  BY DEF WellRead
<1>2. header \in Seq(C) /\ Range(header) = C /\ \A i, j \in DOMAIN header : header[i] = header[j] => i = j
  BY <1>1, OrderIsOnce
<1>3. n \in Nat /\ DOMAIN rows = 1..n /\ m \in Nat /\ DOMAIN header = 1..m
      /\ \A k \in 1..m : header[k] \in C /\ header[k] \in Seq(A) /\ Neat(header[k])
  BY <1>1, <1>2
<1>4. header \in Seq(Seq(A))
  BY <1>1, <1>2
<1>5. \A c \in C : \E k \in 1..m : header[k] = c
  BY <1>2, <1>3 DEF Range
<1>6. ~IsBlank(header) /\ header # <<>>
  <2>1. PICK k \in 1..m : header[k] # <<>>
    BY <1>1, <1>5
  <2> QED
    BY <1>3, <1>4, <2>1, NotBlank
<1>7. ASSUME NEW i \in 1..n
      PROVE  /\ rec(i) \in Seq(Seq(A)) /\ Len(rec(i)) = m /\ DOMAIN rec(i) = 1..m
             /\ \A k \in 1..m : rec(i)[k] = rows[i][header[k]]
             /\ ~IsBlank(rec(i)) /\ rec(i) # <<>>
  <2>1. FitRow(A, C, rows[i])
    BY <1>1
  <2>2. rows[i] \in [C -> Seq(A)] /\ (\A c \in C : Neat(rows[i][c])) /\ \E c \in C : rows[i][c] # <<>>
    BY <2>1 DEF FitRow
  <2>3. PICK r : r = rec(i)
    OBVIOUS
  <2>4. r = [k \in 1..m |-> rows[i][header[k]]]
    BY <1>3, <2>3
  <2>5. r \in Seq(Seq(A)) /\ Len(r) = m /\ DOMAIN r = 1..m /\ \A k \in 1..m : r[k] = rows[i][header[k]]
    <3>1. \A k \in 1..m : rows[i][header[k]] \in Seq(A)
      BY <1>3, <2>2
    <3> QED
      BY <1>3, <2>4, <3>1
  <2>6. PICK k \in 1..m : r[k] # <<>> /\ Neat(r[k])
    BY <1>3, <1>5, <2>2, <2>5
  <2>7. ~IsBlank(r) /\ r # <<>>
    BY <2>5, <2>6, NotBlank
  <2> QED
    BY <2>3, <2>5, <2>7
<1> HIDE DEF rec
<1>8. /\ recs \in Seq(Seq(Seq(A))) /\ Len(recs) = n /\ \A i \in 1..n : recs[i] = rec(i)
  <2>1. PICK B : B = Seq(Seq(A))
    OBVIOUS
  <2>2. \A i \in 1..n : rec(i) \in B
    BY <1>7, <2>1
  <2>3. recs \in Seq(B) /\ Len(recs) = n /\ \A i \in 1..n : recs[i] = rec(i)
    BY <1>3, <2>2
  <2> QED
    BY <2>1, <2>3
<1>9. w \in Seq(Seq(A)) /\ Len(w) = n /\ \A i \in 1..n : w[i] = RecordText(rec(i))
  <2>1. \A i \in 1..n : RecordText(rec(i)) \in Seq(A)
    BY <1>1, <1>7, RecordTextIs
  <2> QED
    BY <1>3, <2>1
<1>10. text = FileOf(header, w)
  BY Zenon DEF FileText, FileOf, rec
<1> HIDE DEF recs, w, text, n
<1>11. AsTexts(A, recs, w)
  BY <1>7, <1>8, <1>9 DEF AsTexts
<1>12. RecordsOf(Normalised(text)) = records
  <2>1. \A i \in 1..Len(recs) : ~IsBlank(recs[i])
    BY <1>7, <1>8
  <2> QED
    BY <1>1, <1>4, <1>6, <1>10, <1>11, <2>1, RecordsAgain
<1>13. /\ Len(records) = 1 + n /\ records[1] = header /\ records # <<>>
       /\ \A i \in 1..n : records[1 + i] = rec(i)
  <2>1. PICK R : R = Seq(Seq(A))
    OBVIOUS
  <2>2. <<header>> \in Seq(R) /\ Len(<<header>>) = 1 /\ <<header>>[1] = header /\ recs \in Seq(R)
    BY <1>4, <1>8, <2>1
  <2>3. Len(records) = 1 + n /\ records[1] = header /\ \A i \in 1..n : records[1 + i] = recs[i]
    BY <1>3, <1>8, <2>2 DEF Followed
  <2>4. Len(<<>>) = 0 /\ 1 + n # 0
    BY <1>3 DEF n
  <2> QED
    BY <1>8, <2>3, <2>4
<1> HIDE DEF records
<1>14. Header(records) = header
  <2>1. \A k \in 1..m : Trimmed(header[k]) = header[k]
    BY <1>3, NeatStays
  <2>2. Header(records) = [k \in 1..m |-> Trimmed(header[k])]
    BY <1>3, <1>13 DEF Header
  <2>3. header = [k \in 1..m |-> header[k]]
    BY <1>3, <1>4
  <2> QED
    BY <2>1, <2>2, <2>3
<1>15. HeaderFits(header)
  BY <1>1, <1>2, <1>3 DEF HeaderFits, IsInjective
<1>16. ASSUME NEW i \in 2..Len(records) PROVE RowFits(header, records[i])
  <2>1. PICK j : j = i - 1
    OBVIOUS
  <2>2. j \in 1..n /\ i = 1 + j
    BY <1>3, <1>13, <2>1
  <2>3. PICK r : r = rec(j) /\ r = records[i]
    BY <1>13, <2>2
  <2>4. Len(r) = m /\ \A k \in 1..m : r[k] = rows[j][header[k]]
    <3>1. Len(rec(j)) = m /\ \A k \in 1..m : rec(j)[k] = rows[j][header[k]]
      BY <1>7, <2>2
    <3> QED
      BY <2>3, <3>1
  <2>5. \A k \in 1..m : CellFits(header[k], rows[j][header[k]])
    BY <1>1, <1>3, <2>2 DEF FitRow, n
  <2> QED
    BY <1>3, <2>3, <2>4, <2>5 DEF RowFits
<1> DEFINE again == [i \in 1..(Len(records) - 1) |->
                       [c \in Range(header) |->
                          Trimmed(records[i + 1][CHOOSE k \in DOMAIN header : header[k] = c])]]
<1>17. Read(text) = again
  <2> DEFINE It(all, head) ==
        IF all # <<>> /\ HeaderFits(head) /\ \A i \in 2..Len(all) : RowFits(head, all[i])
        THEN [i \in 1..(Len(all) - 1) |->
                [c \in Range(head) |-> Trimmed(all[i + 1][CHOOSE k \in DOMAIN all[1] : head[k] = c])]]
        ELSE None
  <2>1. Read(text) = It(RecordsOf(Normalised(text)), Header(RecordsOf(Normalised(text))))
    BY Zenon DEF Read
  <2> HIDE DEF It
  <2>2. Read(text) = It(records, header)
    BY <1>12, <1>14, <2>1
  <2> USE DEF It
  <2> DEFINE At1(D) == [i \in 1..(Len(records) - 1) |->
                          [c \in Range(header) |-> Trimmed(records[i + 1][CHOOSE k \in D : header[k] = c])]]
  <2>3. It(records, header) = At1(DOMAIN records[1])
    BY <1>13, <1>15, <1>16, Zenon
  <2>4. again = At1(DOMAIN header)
    BY Zenon
  <2> HIDE DEF It, At1, again
  <2> QED
    BY <1>13, <2>2, <2>3, <2>4
<1>18. again = rows
  <2> DEFINE K(c) == CHOOSE k \in DOMAIN header : header[k] = c
             Row(i) == [c \in Range(header) |-> Trimmed(records[i + 1][K(c)])]
  <2>1. \A c \in C : K(c) \in 1..m /\ header[K(c)] = c
    BY <1>3, <1>5
  <2>2. again = [i \in 1..n |-> Row(i)]
    <3>1. Len(records) - 1 = n
      BY <1>3, <1>13
    <3> QED
      BY <3>1
  <2> HIDE DEF K, again
  <2>3. ASSUME NEW i \in 1..n PROVE Row(i) = rows[i]
    <3>1. rows[i] \in [C -> Seq(A)] /\ \A c \in C : Neat(rows[i][c])
      BY <1>1 DEF FitRow, n
    <3>2. PICK r : r = rec(i) /\ r = records[i + 1]
      <4>1. i + 1 = 1 + i
        OBVIOUS
      <4> QED
        BY <1>13, <4>1
    <3>3. ASSUME NEW c \in C PROVE Trimmed(r[K(c)]) = rows[i][c]
      <4>1. r[K(c)] = rows[i][c]
        BY <1>7, <2>1, <3>2
      <4>2. rows[i][c] \in Seq(A) /\ Neat(rows[i][c])
        BY <3>1
      <4> QED
        BY <4>1, <4>2, NeatStays
    <3>4. Row(i) = [c \in C |-> Trimmed(r[K(c)])]
      BY <1>2, <3>2
    <3> QED
      BY <3>1, <3>3, <3>4
  <2>4. rows = [i \in 1..n |-> rows[i]]
    BY <1>1, <1>3
  <2> HIDE DEF Row
  <2> QED
    BY <2>2, <2>3, <2>4
<1> QED
  BY <1>17, <1>18 DEF text

(* A step is one of an uploaded file, or it is elsewhere.                  *)
LEMMA FileSteps ==
  ASSUME Shaped, [Next]_vars
  PROVE  (\E t \in Requests : CsvStep(t) /\ Passes(t, FilesPhases)) \/ Elsewhere(FilesPhases)
<1>1. ASSUME NEW t \in Requests, Competence(t) \/ Register(t) \/ Applications(t) \/ Organisation(t) \/
             Policies(t) \/ Work(t) \/ ChangeControl(t) \/ Incident(t)
      PROVE  Elsewhere(FilesPhases)
  BY <1>1, PassesElsewhere, CompetencePasses, RegisterPasses, ApplicationsPasses, OrganisationPasses,
    ChartPasses, PoliciesPasses, WorkPasses, ChangeControlPasses, IncidentPasses DEF CompetencePhases,
    Competence, Register, Applications, Organisation, Policies, Work, ChangeControl, Incident, FilesPhases,
    RegisterPhases, ApplicationsPhases, OrganisationPhases, ChartPhases, PoliciesPhases, WorkPhases,
    ChangeControlPhases, IncidentPhases
<1>2. ASSUME NEW t \in Requests, Decision(t) \/ Audit(t) \/ Journal(t) \/ Standing(t) \/ Devices(t) \/
             Steps(t) \/ Control(t) \/ Passwords(t)
      PROVE  Elsewhere(FilesPhases)
  BY <1>2, PassesElsewhere, DecisionPasses, AuditPasses, JournalPasses, StandingPasses, DevicesPasses,
    StepsPasses, ControlPasses, PasswordsPasses DEF FilesPhases, Decision, Audit, Journal, Standing,
    Devices, Steps, Control, Passwords, DecisionPhases, AuditPhases, JournalPhases, StandingPhases,
    DevicesPhases, StepsPhases, ControlPhases, PasswordsPhases
<1>3. ASSUME NEW t \in Requests, Shared(t)
      PROVE  Elsewhere(FilesPhases)
  BY <1>3, SharedElsewhere DEF Shared, FilesPhases
<1>4. ASSUME NEW t \in Requests, Files(t)
      PROVE  CsvStep(t) /\ Passes(t, FilesPhases)
  BY <1>4, FilesPasses DEF Files
<1>5. ASSUME TimePasses \/ Outside \/ Machinery \/ Terminated \/ UNCHANGED vars
      PROVE  Elsewhere(FilesPhases)
  BY <1>5, RestElsewhere DEF TimePasses, ExpireException, ReviewDayComes, EntryFallsDue, DayPasses,
    DeviationLapses, Outside, PortalChanges, SeedLoads, Machinery, Orchestrator, Terminated, vars
<1> QED
  BY <1>1, <1>2, <1>3, <1>4, <1>5 DEF Next

(* What is sent back of a text that was shown.                             *)
SentBack(text) == [checked |-> Read(text), hash |-> Hash(text), csv |-> Posted(text)]

(* A text is one that is given, and is only sent back with rows to import. *)
TextsInv ==
  /\ Shaped
  /\ \A t \in Requests :
       /\ pc[t] = "previewImport" => req[t].arg \in Plan.texts
       /\ pc[t] = "applyImport" =>
            \E text \in Plan.texts : Read(text) \notin {None, <<>>} /\ req[t].saw = SentBack(text)

(* The steps of a file keep that, and no other step touches it.            *)
LEMMA TextsKept ==
  ASSUME TextsInv, [Next]_vars
  PROVE  TextsInv'
<1>0. Shaped
  BY DEF TextsInv
<1>1. CASE Elsewhere(FilesPhases)
  BY <1>1 DEF TextsInv, Elsewhere, FilesPhases, Plan
<1>2. ASSUME NEW t \in Requests, CsvStep(t), Passes(t, FilesPhases)
      PROVE  TextsInv'
  <2>0. OnlyMoves(t) /\ Shaped' /\ plan' = plan /\ Plan' = Plan
    BY <1>2 DEF Passes, OnlyMoves, Plan
  <2>1. CASE BeginPreviewImport(t)
    <3>1. PICK text \in Plan.texts : Begin(t, "previewImport", text, "previewImport", <<>>)
      BY <2>1 DEF BeginPreviewImport
    <3>2. pc'[t] = "previewImport" /\ req'[t].arg = text
      BY <1>0, <3>1, BeginMoves
    <3> QED
      BY <2>0, <3>2 DEF TextsInv, OnlyMoves
  <2>2. CASE PreviewImport(t)
    <3>1. PICK text \in Plan.texts : text = req[t].arg
      BY <2>2 DEF TextsInv, PreviewImport, At
    <3>2. CASE Read(text) \in {None, <<>>}
      <4>1. pc'[t] = "done"
        BY <1>0, <2>0, <2>2, <3>1, <3>2, DoneMoves DEF PreviewImport
      <4> QED
        BY <2>0, <4>1 DEF TextsInv, OnlyMoves
    <3>3. CASE Read(text) \notin {None, <<>>}
      <4>1. Goto(t, "applyImport", <<>>, SentBack(text))
        BY <2>2, <3>1, <3>3 DEF PreviewImport, SentBack
      <4>2. pc'[t] = "applyImport" /\ req'[t].saw = SentBack(text)
        BY <1>0, <2>0, <4>1, GotoMoves
      <4> QED
        BY <2>0, <3>3, <4>2 DEF TextsInv, OnlyMoves
    <3> QED
      BY <3>2, <3>3
  <2>3. CASE ApplyImport(t)
    <3>1. pc'[t] = "done"
      BY <1>0, <2>0, <2>3, DoneMoves DEF ApplyImport
    <3> QED
      BY <2>0, <3>1 DEF TextsInv, OnlyMoves
  <2> QED
    BY <1>2, <2>1, <2>2, <2>3 DEF CsvStep
<1> QED
  BY <1>0, <1>1, <1>2, FileSteps

(* What is imported of a file is what was checked and shown of it, though  *)
(* the browser rewrites its newlines in between; no value of it would be a *)
(* formula in a spreadsheet; and written to a file again, its rows are     *)
(* read as the same rows (previewImport and applyImport).                  *)
THEOREM ImportsWhatWasChecked == Spec => []ImportedAsChecked
<1>1. Init => TextsInv
  <2> SUFFICES ASSUME Init PROVE TextsInv
    OBVIOUS
  <2> QED
    BY ShapedInit DEF TextsInv
<1>2. TextsInv /\ [Next]_vars => TextsInv'
  BY TextsKept
<1>3. TextsInv => ImportedAsChecked
  <2> SUFFICES ASSUME TextsInv, NEW t \in Requests, pc[t] = "applyImport"
               PROVE  LET rows == req[t].saw.checked
                      IN  /\ Importable(t) /\ Read(req[t].saw.csv) = rows
                          /\ \A i \in DOMAIN rows : \A c \in DOMAIN rows[i] :
                               rows[i][c] = <<>> \/ Head(rows[i][c]) # "formula"
                          /\ \A header \in SetToSeqs(DOMAIN rows[1]) : Read(FileText(header, rows)) = rows
    BY DEF ImportedAsChecked
  <2>1. PICK text \in Plan.texts : Read(text) \notin {None, <<>>} /\ req[t].saw = SentBack(text)
    BY DEF TextsInv
  <2>2. text \in Seq(Range(text))
    BY <2>1, TextsAssumption DEF TextsInv, Shaped, Plan
  <2>3. PICK rows : rows = Read(text) /\ rows # None /\ rows # <<>>
    BY <2>1
  <2>4. req[t].saw.checked = rows /\ req[t].saw.hash = Normalised(text) /\ req[t].saw.csv = Posted(text)
    BY <2>1, <2>3 DEF SentBack, Hash
  <2>5. Normalised(Posted(text)) = Normalised(text)
    BY <2>2, PostedReadsTheSame
  <2>6. Importable(t)
    BY <2>4, <2>5 DEF Importable, Hash
  <2>7. Read(Posted(text)) = Read(text)
    <3> DEFINE It(given) ==
          LET records == RecordsOf(given)
          IN  IF records # <<>> /\ HeaderFits(Header(records))
                 /\ \A i \in 2..Len(records) : RowFits(Header(records), records[i])
              THEN [i \in 1..(Len(records) - 1) |->
                      [c \in Range(Header(records)) |->
                         Trimmed(records[i + 1][CHOOSE k \in DOMAIN records[1] : Header(records)[k] = c])]]
              ELSE None
    <3>1. Read(text) = It(Normalised(text)) /\ Read(Posted(text)) = It(Normalised(Posted(text)))
      BY Zenon DEF Read
    <3> HIDE DEF It
    <3> QED
      BY <2>5, <3>1
  <2>8. PICK A, C : WellRead(A, C, rows)
    BY <2>2, <2>3, ReadIsWellRead
  <2>9. rows \in Seq([C -> Seq(A)]) /\ \A i \in 1..Len(rows) : FitRow(A, C, rows[i])
    BY <2>8 DEF WellRead
  <2>10. DOMAIN rows[1] = C
    BY <2>3, <2>9
  <2>11. ASSUME NEW i \in DOMAIN rows, NEW c \in DOMAIN rows[i]
         PROVE  rows[i][c] = <<>> \/ Head(rows[i][c]) # "formula"
    <3>1. c \in C /\ rows[i] \in [C -> Seq(A)] /\ Neat(rows[i][c]) /\ CellFits(c, rows[i][c])
      <4>1. FitRow(A, C, rows[i])
        <5>1. DOMAIN rows = 1..Len(rows)
          BY <2>9
        <5> QED
          BY <2>9, <2>11, <5>1
      <4>2. rows[i] \in [C -> Seq(A)] /\ \A d \in C : Neat(rows[i][d]) /\ CellFits(d, rows[i][d])
        BY <4>1 DEF FitRow
      <4> QED
        BY <4>2
    <3>2. rows[i][c] \in Seq(A)
      BY <3>1
    <3> QED
      BY <3>1, <3>2, FitsNoFormula
  <2>12. \A header \in SetToSeqs(C) : Read(FileText(header, rows)) = rows
    BY <2>8, WellReadAgain
  <2> QED
    BY <2>3, <2>4, <2>6, <2>7, <2>10, <2>11, <2>12
<1> QED
  BY <1>1, <1>2, <1>3, PTL DEF Spec
=============================================================================
