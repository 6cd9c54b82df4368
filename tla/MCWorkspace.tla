----------------------------- MODULE MCWorkspace -----------------------------
(***************************************************************************)
(* Small tables for TLC.  Each plan is a situation: who is at work at the  *)
(* same time, on which rows.                                               *)
(***************************************************************************)
EXTENDS Workspace
CONSTANTS p1, p2, a1, a2, r1, t1, t2, t3

(* p1 is a risk owner, and p2 both the ciso and a risk owner.              *)
Belongs(d, s)   == [dept |-> d, stamp |-> s, revoked |-> FALSE]
NeverGranted    == [Belongs(None, Before) EXCEPT !.revoked = TRUE]
AtFirst         == {<<p1, "risk_owner">>, <<p2, "risk_owner">>, <<p2, "ciso">>}

NoTables ==
  [batch         |-> NoBatch,
   system        |-> <<>>,
   asset         |-> [a \in Assets |-> NoAsset],
   risk          |-> [r \in Risks |-> NoRisk],
   evaluations   |-> <<>>,
   uses          |-> <<>>,
   dept          |-> <<>>,
   member        |-> [m \in Memberships |-> IF m \in AtFirst THEN Belongs(None, Before) ELSE NeverGranted],
   usage         |-> {},
   policy        |-> <<>>,
   item          |-> [status |-> "none", target |-> None],
   assignee      |-> [u \in People |-> "none"],
   vulnerability |-> <<>>,
   change        |-> <<>>,
   incident      |-> <<>>,
   finding       |-> <<>>,
   exceptions    |-> <<>>,
   review        |-> None,
   journal       |-> <<>>,
   standing      |-> <<>>,
   portal        |-> <<>>,
   record        |-> <<>>,
   fulfilment    |-> <<>>,
   device        |-> [os |-> "macos", key |-> 1, host |-> "a", lastSeen |-> 0],
   snapshots     |-> {},
   catalogue     |-> <<>>,
   otherRegisters |-> <<>>]

Situation(ops) ==
  [ops |-> ops, files |-> {}, assignments |-> {}, drafts |-> {}, names |-> {}, owners |-> {None}, roles |-> {},
   slugs |-> {}, texts |-> {}, evaluations |-> {},
   reports |-> {}, seeds |-> {}, environments |-> {}, statusFiles |-> {}, lookups |-> {},
   tables |-> NoTables]

ActiveAsset(s)  == [status |-> "active", stamp |-> s, system |-> None]
ActiveRisk(s)   == [status |-> "active", stamp |-> s, assets |-> {}]
Evaluated(stage, day, level) == [stage |-> stage, day |-> day, level |-> level]
TopLevel(d)     == d :> [name |-> d[2], parent |-> None, owner |-> None, stamp |-> d[1]]
Asked(text, s)  == [status |-> s, text |-> text, by |-> p1, decider |-> None, approval |-> None]
Detected(s)     == [status |-> s, verifier |-> None]
InForce(name)   == [active |-> TRUE, name |-> name, wording |-> 1, judged |-> <<name, 1>>]

RegisterImport == Situation({"importAssets", "importRisks", "undoAssets", "saveAsset"})

RegisterUndo ==
  [Situation({"undoAssets", "saveAsset", "importRisks", "saveRisk"}) EXCEPT
     !.tables.asset = [a \in Assets |-> ActiveAsset(First)],
     !.tables.batch = Batch("assets", Assets)]

RiskUndo ==
  [Situation({"undoRisks", "saveRisk", "addRiskSnapshot"}) EXCEPT
     !.evaluations = {Evaluated("inherent", 1, 1), Evaluated("after_measure", 1, 1)},
     !.tables.asset = [a \in Assets |-> ActiveAsset(Before)],
     !.tables.risk = [r \in Risks |-> ActiveRisk(First)],
     !.tables.batch = Batch("risks", Risks)]

(* a1 was imported.                                                        *)
OneImported ==
  [NoTables EXCEPT !.asset[a1] = ActiveAsset(First), !.batch = Batch("assets", {a1})]

PolicyTables ==
  [NoTables EXCEPT
     !.policy = (<<Before, 1>> :> <<Draft("x", Before), Draft("y", First)>>)
                @@ (<<First, 2>> :> <<Draft("y", First)>>),
     !.batch = Batch("policies", {[id |-> <<Before, 1>>, n |-> 2], [id |-> <<First, 2>>, n |-> 1]})]

PolicyImport ==
  [Situation({"importPolicies", "undoPolicies", "createPolicyDraft", "approvePolicyVersion"}) EXCEPT
     !.drafts = {<<[title |-> 1, body |-> "y"], [title |-> 2, body |-> "y"]>>,
                 <<[title |-> 2, body |-> "x"], [title |-> 1, body |-> "x"]>>},
     !.tables = PolicyTables]

PolicyApproval ==
  [Situation({"approvePolicyVersion", "activatePolicyVersion", "undoPolicies"}) EXCEPT
     !.tables = [PolicyTables EXCEPT !.policy[<<Before, 1>>][1].state = "current",
                                     !.policy[<<Before, 1>>][2].state = "approved"]]

(* A risk that can be accepted, by one policy; another version of it may   *)
(* come into force, and evaluations be added, one of them planned.         *)
RiskAcceptance ==
  [Situation({"acceptRisk", "addRiskSnapshot", "activatePolicyVersion"}) EXCEPT
     !.evaluations = {Evaluated("inherent", 2, 1), Evaluated("after_measure", 1, 1), Evaluated("after_measure", 2, 2)},
     !.tables.risk = [r \in Risks |-> ActiveRisk(Before)],
     !.tables.evaluations = [e \in {<<Before, "inherent">>, <<Before, "after_measure">>} |->
                               [risk |-> r1, made |-> 0] @@ Evaluated(e[2], 1, IF e[2] = "inherent" THEN 2 ELSE 1)],
     !.tables.policy = <<Before, 1>> :> <<[Draft("x", Before) EXCEPT !.state = "current"],
                                          [Draft("y", Before) EXCEPT !.state = "approved"]>>]

RiskDeviations ==
  [Situation({"requestDeviation", "approveDeviation", "closeDeviation", "undoRisks", "saveMemberRole"}) EXCEPT
     !.roles = {"employee"},
     !.tables.risk = [r \in Risks |-> ActiveRisk(First)],
     !.tables.batch = Batch("risks", Risks)]

DepartmentImport ==
  [Situation({"importDepartments", "undoDepartments", "saveDepartment", "updateDepartment"}) EXCEPT
     !.names = {"A", "B"},
     !.files = {<<[name |-> "B", parent |-> "A", owner |-> None], [name |-> "A", parent |-> "R", owner |-> p1]>>,
                <<[name |-> "B", parent |-> "R", owner |-> None]>>,
                <<[name |-> "A", parent |-> "B", owner |-> None]>>},
     !.tables.dept = TopLevel(<<First, "R">>),
     !.tables.batch = Batch("departments", {<<First, "R">>})]

(* p1 was in S as a risk owner and was put in R by an import, and is       *)
(* nowhere as an employee.                                                 *)
AssignmentTables ==
  [NoTables EXCEPT
     !.dept = TopLevel(<<Before, "R">>) @@ TopLevel(<<Before, "S">>),
     !.member[<<p1, "risk_owner">>] = Belongs(<<Before, "R">>, First),
     !.member[<<p1, "employee">>] = Belongs(None, Before),
     !.batch = Batch("assignments", {[member |-> <<p1, "risk_owner">>, prev |-> <<Before, "S">>, new |-> <<Before, "R">>]})]

AssignmentImport ==
  [Situation({"importAssignments", "undoAssignments", "saveMembership", "saveMemberRole", "stopPerson"}) EXCEPT
     !.assignments = {<<[user |-> p1, dept |-> "S"]>>},
     !.roles = {"employee", "auditor"},
     !.tables = AssignmentTables]

(* B is under A, and C beside it; one more step under B is not drawn.      *)
OrganisationChart ==
  [Situation({"updateDepartment", "saveMembership", "orgChart"}) EXCEPT
     !.names = {"A"},
     !.tables.dept = TopLevel(<<Before, "A">>) @@ TopLevel(<<Before, "C">>)
                     @@ (<<Before, "B">> :> [name |-> "B", parent |-> <<Before, "A">>, owner |-> None, stamp |-> Before]),
     !.roles = {"employee"},
     !.tables.member[<<p1, "risk_owner">>] = Belongs(<<Before, "C">>, Before)]

(* The systems of a department whose import is undone.                     *)
SystemTables ==
  [NoTables EXCEPT
     !.system = <<"s", 1>> :> "active",
     !.usage = {<<<<Before, "R">>, <<"s", 1>>>>},
     !.dept = TopLevel(<<First, "R">>) @@ TopLevel(<<Before, "R">>),
     !.batch = Batch("departments", {<<First, "R">>})]

DepartmentSystems ==
  [Situation({"undoDepartments", "saveDepartmentSystem", "removeDepartmentSystem", "saveSystem"}) EXCEPT
     !.slugs = {"s"},
     !.tables = SystemTables]

SystemLocations ==
  [Situation({"saveAsset", "updateSystem"}) EXCEPT
     !.slugs = {"s"},
     !.tables = SystemTables]

(* Files of the column x or of x and y, and short texts of any kind.       *)
MCColumns == (<<"x">> :> [required |-> TRUE, max |-> 2]) @@ (<<"y">> :> [required |-> FALSE, max |-> 1])

Characters == {"x", "quote", "comma", "cr", "lf", "space", "formula"}

FileUpload ==
  [Situation({"previewImport"}) EXCEPT
     !.texts = {header \o rows : header \in {<<"x", "lf">>, <<"x", "comma", "y", "cr">>},
                                 rows \in BoundedSeq(Characters, 4)}
               \cup BoundedSeq(Characters \cup {"tab"}, 3)]

(* Somebody is put in a department whose import is undone.                 *)
MemberOfImported ==
  [Situation({"undoDepartments", "importAssignments", "undoAssignments", "saveMembership"}) EXCEPT
     !.assignments = {<<[user |-> p1, dept |-> "R"]>>},
     !.roles = {"employee"},
     !.tables.dept = TopLevel(<<First, "R">>),
     !.tables.batch = Batch("departments", {<<First, "R">>})]

HandOut ==
  [Situation({"saveAssignment", "saveMembership", "stopPerson", "undoAssets", "saveMemberRole"}) EXCEPT
     !.roles = {"employee"},
     !.tables = [OneImported EXCEPT !.dept = TopLevel(<<Before, "R">>),
                                    !.member[<<p1, "risk_owner">>] = Belongs(<<Before, "R">>, Before)]]

AtWork ==
  [Situation({"addAssignees", "removeAssignee", "cancelAssignment", "updateAssignment", "stopPerson"}) EXCEPT
     !.tables.item = [status |-> "requested", target |-> None],
     !.tables.assignee[p1] = "requested"]

Together ==
  [Situation({"removeAssignee", "updateAssignment", "undoAssets"}) EXCEPT
     !.tables = [OneImported EXCEPT !.item = [status |-> "requested", target |-> a1],
                                    !.assignee = [u \in People |-> "in_progress"]]]

ChangeDecision ==
  [Situation({"updateChangeRequest", "decideChangeRequest", "implementChange", "cancelChange"}) EXCEPT
     !.tables.change = Before :> Asked("x", "requested")]

ChangedAssets ==
  [Situation({"undoAssets", "requestChange", "updateChangeRequest"}) EXCEPT
     !.tables = [OneImported EXCEPT !.change = Before :> Asked("x", "requested")]]

VulnerableAssets ==
  [Situation({"undoAssets", "saveVulnerability", "progressVulnerability", "saveAsset"}) EXCEPT
     !.tables = [OneImported EXCEPT !.vulnerability = Before :> "open"]]

(* p1 may stop being a risk owner while incidents are given to people.     *)
IncidentTables ==
  [NoTables EXCEPT
     !.incident = Before :> [assignee |-> p1, resolved |-> None]]

IncidentAssignment ==
  [Situation({"saveIncident", "saveMemberRole", "stopPerson"}) EXCEPT
     !.owners = {p1, p2},
     !.roles = {"employee", "risk_owner"},
     !.tables = IncidentTables]

IncidentRisk ==
  [Situation({"saveIncident", "undoRisks"}) EXCEPT
     !.owners = {p1},
     !.tables = [IncidentTables EXCEPT !.risk = [r \in Risks |-> ActiveRisk(First)],
                                       !.batch = Batch("risks", Risks)]]

InternalAudit ==
  [Situation({"saveFinding", "advanceFinding", "approveException"}) EXCEPT
     !.tables.finding = (Before :> Detected("in_remediation")) @@ (First :> Detected("remediated"))]

CorrectiveActions ==
  [Situation({"saveCorrective", "completeCorrective", "reviewCorrective"}) EXCEPT
     !.tables.finding = Before :> Detected("detected")]

ManagementReview == Situation({"saveReview", "approveReview"})

(* p1 is an auditor and planned an audit, and this year's review is still  *)
(* to be held.                                                             *)
JournalTables ==
  [NoTables EXCEPT
     !.member[<<p1, "risk_owner">>] = NeverGranted,
     !.member[<<p1, "auditor">>] = Belongs(None, Before),
     !.journal = <<"audit", Before>> :> [of |-> p1, day |-> None, due |-> None],
     !.review = [held |-> "future", minutes |-> None]]

RecordKeeping ==
  [Situation({"saveAudit", "saveEffectiveness", "saveVendorAssessment", "saveEvidence", "addReviewOutput",
              "stopPerson"}) EXCEPT !.tables = JournalTables]

ContextOfTheOrganisation ==
  [Situation({"saveContextIssue", "saveInterestedParty", "updateContextIssue", "updateInterestedParty",
              "reviewContext", "retireContext", "reactivateContext"}) EXCEPT
     !.tables.standing = <<"issue", Before>> :> InForce(1)]

ObjectivesAndLaw ==
  [Situation({"saveLegalRequirement", "updateLegalRequirement", "assessLegalRequirement", "retireLegalRequirement",
              "reactivateLegalRequirement", "saveObjective", "evaluateObjective"}) EXCEPT
     !.tables.standing = <<"legal", Before>> :> InForce(1)]

Continuity ==
  [Situation({"saveContinuityPlan", "updateContinuityPlan", "retireContinuityPlan", "reactivateContinuityPlan",
              "recordContinuityTest"}) EXCEPT
     !.tables.standing = <<"plan", Before>> :> [InForce(1) EXCEPT !.judged = None]]

(* p1 has completed the course once; the completion was judged and cited.  *)
Learning ==
  [Situation({"syncElearningCompletions", "evaluateTrainingRecord", "saveFulfillment", "stopPerson"}) EXCEPT
     !.tables.portal = p1 :> <<1, "x">>,
     !.tables.record = <<1, p1>> :> [completion |-> <<1, "x">>, evaluation |-> "effective", judged |-> <<1, "x">>],
     !.tables.fulfilment = p1 :> [status |-> "fulfilled", year |-> 1]]

(* The machine reports, is given another name, and is enrolled again.      *)
Reporting ==
  [Situation({"posture", "detachDevice", "enroll"}) EXCEPT
     !.reports = {[at |-> n, host |-> IF n = 1 THEN "a" ELSE "b", key |-> IF n = 3 THEN 2 ELSE 1,
                   os |-> "macos", version |-> 2, shape |-> "macos"] : n \in 1..3}
                 \cup {[at |-> 2, host |-> "b", key |-> 1, os |-> "windows", version |-> v, shape |-> "windows"] : v \in 1..2}
                 \cup {[at |-> 2, host |-> "b", key |-> 1, os |-> "macos", version |-> 1, shape |-> "none"]}]

MCDefinitions == {<<"macos", 2>>, <<"windows", 2>>}

(* Nearly everything is there: the bodies of two policies are still to be  *)
(* written, an event and a role to be added, a control has a wrong code,   *)
(* and there is no finding yet.                                            *)
PolicyKeys   == UNION {step.policyKeys : step \in Range(ISO_STEPS)}
CalendarKeys == UNION {step.calendarKeys : step \in Range(ISO_STEPS)}

Seeded(checks) ==
  [k \in CountKeys |-> IF k = "checks" THEN checks ELSE 1]

ReadTheSteps ==
  [Situation({"stepPage"}) EXCEPT
     !.seeds = {[policyBodies |-> [k \in PolicyKeys |-> TRUE], annexA |-> [total |-> 2, wellFormed |-> 2]],
                [calendarKeys |-> CalendarKeys, roleKeys |-> ALL_ROLE_KEYS, counts |-> Seeded(1)]},
     !.tables.catalogue =
       [counts |-> Seeded(0),
        policyBodies |-> [k \in PolicyKeys \ {"p03_org"} |-> k # "p07_access"],
        calendarKeys |-> CalendarKeys \ {"event_onboarding"},
        roleKeys |-> ALL_ROLE_KEYS \ {"risk_owner"},
        annexA |-> [total |-> 2, wellFormed |-> 1],
        verifiedCheckRuns |-> 1],
     !.tables.otherRegisters = [k \in OtherKeys |-> 1],
     !.tables.journal = <<"effectiveness", Before>> :> [of |-> "iso", day |-> "past", due |-> None],
     !.tables.standing = <<"objective", Before>> :> InForce(1),
     !.tables.policy = <<Before, 1>> :> <<[Draft("x", Before) EXCEPT !.state = "current"]>>,
     !.tables.risk = [r \in Risks |-> ActiveRisk(Before)]]

(* A machine that p2 operates; the recovery of one operation meets the     *)
(* post of another.                                                        *)
RemoteOperation == Situation({"dispatch", "recover"})

(* The deployment is configured right, or in one way wrong; the status     *)
(* file of the derived server has every gate passed, but no release is     *)
(* fixed yet that it could be evidence for.                                *)
HostName(host) == [kind |-> "name", name |-> host]
Ipv4(a, b)     == [kind |-> "ipv4", octets |-> <<a, b, 0, 1>>]
Mapped(a, b)   == [kind |-> "mapped", octets |-> <<a, b, 0, 1>>]
Https(host)    == [scheme |-> "https", host |-> host, port |-> 443, path |-> "/", extra |-> FALSE]
Alive(url)     == [url EXCEPT !.path = "/alive"]

Deployment ==
  [provider |-> None, product |-> None, url |-> Https(HostName("vault")), healthUrl |-> None, healthPath |-> None,
   allowedOrigin |-> Https(HostName("vault")), allowPrivate |-> FALSE, statusFile |-> None,
   backup |-> "time", restoreTest |-> None, sync |-> "synced", mdm |-> None, evidence |-> None]

Environments ==
  LET asked == [Deployment EXCEPT !.statusFile = "default", !.healthUrl = Alive(Deployment.url)]
      inside == Https(Ipv4(172, 16))
  IN  {Deployment, asked,
       [asked EXCEPT !.product = Derived, !.provider = Derived],
       [Deployment EXCEPT !.product = Derived],
       [Deployment EXCEPT !.provider = Derived],
       [Deployment EXCEPT !.product = "junk"],
       [Deployment EXCEPT !.url = None],
       [Deployment EXCEPT !.url = inside, !.allowedOrigin = inside],
       [Deployment EXCEPT !.url = inside, !.allowedOrigin = inside, !.allowPrivate = TRUE],
       [asked EXCEPT !.healthUrl.host = HostName("elsewhere")],
       [Deployment EXCEPT !.allowedOrigin = Https(HostName("elsewhere"))],
       [Deployment EXCEPT !.url.extra = TRUE],
       [Deployment EXCEPT !.healthPath = "/admin"],
       [Deployment EXCEPT !.statusFile = "elsewhere"],
       [Deployment EXCEPT !.sync = "junk"]}

StatusFile ==
  [kept |-> TRUE, backup |-> "time", restoreTest |-> "time", sync |-> "attention", productId |-> Derived,
   upstream |-> "1.37.2", upstreamCommit |-> "46d7", forkCommit |-> None, imageDigest |-> None, gates |-> <<"passed", "passed", "passed">>]

StatusFiles ==
  {StatusFile, [StatusFile EXCEPT !.forkCommit = "commit", !.imageDigest = "digest"],
   [StatusFile EXCEPT !.gates[2] = "pending"], [StatusFile EXCEPT !.kept = FALSE],
   [StatusFile EXCEPT !.upstreamCommit = "other"], [StatusFile EXCEPT !.upstreamCommit = "junk"],
   [StatusFile EXCEPT !.backup = "junk"]}

PasswordServer ==
  [Situation({"passwords"}) EXCEPT
     !.environments = Environments,
     !.statusFiles = StatusFiles,
     !.lookups = {<<>>, <<Ipv4(8, 8)>>, <<Ipv4(8, 8), Ipv4(192, 168)>>, <<Mapped(100, 64)>>, <<[kind |-> "ipv6"]>>,
                  <<[kind |-> "link_local"]>>}]

MCCompletions == {<<1, "x">>, <<1, "y">>, <<2, "x">>}

MCPlans ==
  [ registerImport |-> RegisterImport, registerUndo |-> RegisterUndo, riskUndo |-> RiskUndo,
    policyImport |-> PolicyImport, policyApproval |-> PolicyApproval,
    departmentImport |-> DepartmentImport, assignmentImport |-> AssignmentImport,
    memberOfImported |-> MemberOfImported, organisationChart |-> OrganisationChart,
    departmentSystems |-> DepartmentSystems, systemLocations |-> SystemLocations, fileUpload |-> FileUpload,
    handOut |-> HandOut, atWork |-> AtWork, together |-> Together,
    changeDecision |-> ChangeDecision, changedAssets |-> ChangedAssets, vulnerableAssets |-> VulnerableAssets,
    riskAcceptance |-> RiskAcceptance, riskDeviations |-> RiskDeviations,
    incidentAssignment |-> IncidentAssignment, incidentRisk |-> IncidentRisk,
    internalAudit |-> InternalAudit, correctiveActions |-> CorrectiveActions,
    managementReview |-> ManagementReview, recordKeeping |-> RecordKeeping,
    context |-> ContextOfTheOrganisation, objectives |-> ObjectivesAndLaw, continuity |-> Continuity,
    learning |-> Learning, reporting |-> Reporting, steps |-> ReadTheSteps,
    remoteOperation |-> RemoteOperation, passwordServer |-> PasswordServer ]

(* Policies alone.                                                         *)
PolicyPlans == [policyImport |-> PolicyImport]

Symmetric == Permutations(Requests)
=============================================================================
