------------------------------ MODULE Workspace ------------------------------
(***************************************************************************)
(* The registers of one tenant and the people at work on them: every       *)
(* request of the web runs one server action, and the actions of different *)
(* screens meet on the rows they share.  An asset is imported, linked to a *)
(* risk, named by a change request and given as the subject of work while  *)
(* the import that made it is being undone; a department is filled and     *)
(* emptied while its import is undone; and so on.                          *)
(*                                                                         *)
(* A plan fixes which server actions a behaviour exercises and the tables  *)
(* it starts from.                                                         *)
(***************************************************************************)
EXTENDS CsvImport, RiskDecisions, Systems, OrgChart, WorkItems, Changes, Incidents, Findings,
        StandingRecords, Training, Posture, RecordsPage, DeviceControl, PasswordManager

vars == <<plan, active, requestVars, batches, registerVars, organisationVars, policy,
          workVars, changeVars, incident, decisionVars, findingVars, journal, standingVars, trainingVars, postureVars,
          catalogue, controlVars>>

Init ==
  \E name \in DOMAIN Plans : \E tables \in {Plans[name].tables} :
    /\ plan = [name |-> name, ops |-> Plans[name].ops]
    /\ active = People
    /\ RequestsInit
    /\ batches = [b \in Stamps |-> IF b = First THEN tables.batch ELSE NoBatch]
    /\ system = tables.system
    /\ asset = tables.asset
    /\ risk = tables.risk
    /\ evaluations = tables.evaluations
    /\ uses = tables.uses
    /\ dept = tables.dept
    /\ member = tables.member
    /\ usage = tables.usage
    /\ policy = tables.policy
    /\ item = tables.item
    /\ assignee = tables.assignee
    /\ mails = [u \in People |-> IF assignee[u] = "none" THEN 0 ELSE 1]
    /\ vulnerability = tables.vulnerability
    /\ change = tables.change
    /\ incident = tables.incident
    /\ today = 1
    /\ acceptances = <<>>
    /\ deviation = <<>>
    /\ finding = tables.finding
    /\ exceptions = tables.exceptions
    /\ corrective = <<>>
    /\ review = tables.review
    /\ approvals = <<>>
    /\ journal = tables.journal
    /\ standing = tables.standing
    /\ tests = <<>>
    /\ portal = tables.portal
    /\ record = tables.record
    /\ fulfilment = tables.fulfilment
    /\ device = tables.device
    /\ snapshots = tables.snapshots
    /\ catalogue = tables.catalogue
    /\ session = TRUE
    /\ wire = {}
    /\ calls = <<>>
    /\ told = [t \in Requests |-> [text |-> "nothing", of |-> t]]

-----------------------------------------------------------------------------
(* A step of one screen leaves the tables of the others alone.             *)

Shared(t) ==
  /\ TakeLock(t) \/ DeadlockAbort(t) \/ BeginStopPerson(t) \/ StopPerson(t)
  /\ UNCHANGED <<batches, registerVars, organisationVars, policy, workVars, changeVars, incident, decisionVars, findingVars, journal, standingVars, trainingVars, postureVars, catalogue, controlVars>>

Register(t) ==
  /\ RegisterStep(t)
  /\ UNCHANGED <<organisationVars, policy, workVars, changeVars, incident, decisionVars, findingVars, journal, standingVars, trainingVars, postureVars, catalogue, controlVars>>

Files(t) ==
  /\ CsvStep(t)
  /\ UNCHANGED <<registerVars, organisationVars, policy, workVars, changeVars, incident, decisionVars, findingVars, journal, standingVars, trainingVars, postureVars, catalogue, controlVars>>

Applications(t) ==
  /\ SystemsStep(t)
  /\ UNCHANGED <<policy, workVars, changeVars, incident, decisionVars, findingVars, journal, standingVars, trainingVars, postureVars, catalogue, controlVars>>

Organisation(t) ==
  /\ OrganisationStep(t) \/ ChartStep(t)
  /\ UNCHANGED <<registerVars, policy, workVars, changeVars, incident, decisionVars, findingVars, journal, standingVars, trainingVars, postureVars, catalogue, controlVars>>

Policies(t) ==
  /\ PolicyStep(t)
  /\ UNCHANGED <<registerVars, organisationVars, workVars, changeVars, incident, decisionVars, findingVars, journal, standingVars, trainingVars, postureVars, catalogue, controlVars>>

Work(t) ==
  /\ WorkStep(t)
  /\ UNCHANGED <<policy, changeVars, incident, decisionVars, findingVars, journal, standingVars, trainingVars, postureVars, catalogue, controlVars>>

ChangeControl(t) ==
  /\ ChangeStep(t)
  /\ UNCHANGED <<organisationVars, policy, workVars, incident, decisionVars, findingVars, journal, standingVars, trainingVars, postureVars, catalogue, controlVars>>

Incident(t) ==
  /\ IncidentStep(t)
  /\ UNCHANGED <<policy, workVars, changeVars, decisionVars, findingVars, journal, standingVars, trainingVars, postureVars, catalogue, controlVars>>

Decision(t) ==
  /\ DecisionStep(t)
  /\ UNCHANGED <<workVars, changeVars, findingVars, journal, standingVars, trainingVars, postureVars, catalogue, controlVars>>

Audit(t) ==
  /\ FindingStep(t)
  /\ UNCHANGED <<batches, registerVars, organisationVars, policy, workVars, changeVars, incident, journal, standingVars, trainingVars, postureVars, catalogue, controlVars, decisionVars>>

Journal(t) ==
  /\ JournalStep(t)
  /\ UNCHANGED <<batches, registerVars, policy, workVars, changeVars, incident, standingVars, trainingVars, postureVars, catalogue, controlVars, decisionVars>>

Standing(t) ==
  /\ StandingStep(t)
  /\ UNCHANGED <<batches, registerVars, organisationVars, policy, workVars, changeVars, incident, decisionVars, findingVars, journal, trainingVars, postureVars, catalogue, controlVars>>

Competence(t) ==
  /\ TrainingStep(t)
  /\ UNCHANGED <<batches, registerVars, organisationVars, policy, workVars, changeVars, incident, decisionVars, findingVars, journal, standingVars, postureVars, catalogue, controlVars>>

Devices(t) ==
  /\ PostureStep(t)
  /\ UNCHANGED <<batches, registerVars, organisationVars, policy, workVars, changeVars, incident, decisionVars, findingVars, journal, standingVars, trainingVars, catalogue, controlVars>>

Steps(t) ==
  /\ StepPageStep(t)
  /\ UNCHANGED <<batches, registerVars, organisationVars, policy, workVars, changeVars, incident, decisionVars, findingVars, journal, standingVars, trainingVars, postureVars, controlVars>>

Control(t) ==
  /\ ControlStep(t)
  /\ UNCHANGED <<batches, registerVars, organisationVars, policy, workVars, changeVars, incident, decisionVars, findingVars, journal, standingVars, trainingVars, postureVars, catalogue>>

Passwords(t) ==
  /\ PasswordsStep(t)
  /\ UNCHANGED <<batches, registerVars, organisationVars, policy, workVars, changeVars, incident, decisionVars, findingVars, journal, standingVars, trainingVars, postureVars, catalogue, controlVars>>

Machinery ==
  /\ Orchestrator
  /\ UNCHANGED <<batches, registerVars, organisationVars, policy, workVars, changeVars, incident, decisionVars, findingVars, journal, standingVars, trainingVars, postureVars, catalogue>>

(* What happens outside of the web.                                        *)
Outside ==
  /\ \/ PortalChanges /\ UNCHANGED catalogue
     \/ SeedLoads /\ UNCHANGED trainingVars
  /\ UNCHANGED <<batches, registerVars, organisationVars, policy, workVars, changeVars, incident, decisionVars, findingVars, journal, standingVars, postureVars, controlVars>>

TimePasses ==
  /\ \/ (ExpireException \/ ReviewDayComes) /\ UNCHANGED <<organisationVars, journal, decisionVars>>
     \/ EntryFallsDue /\ UNCHANGED decisionVars
     \/ (DayPasses \/ DeviationLapses) /\ UNCHANGED <<requestVars, plan, active, organisationVars, journal, findingVars>>
  /\ UNCHANGED <<batches, registerVars, policy, workVars, changeVars, incident, standingVars, trainingVars, postureVars, catalogue, controlVars>>

Terminated == Finished /\ UNCHANGED vars

Next ==
  \/ \E t \in Requests :
       \/ Shared(t) \/ Files(t) \/ Register(t) \/ Applications(t) \/ Organisation(t) \/ Policies(t)
       \/ Work(t) \/ ChangeControl(t) \/ Incident(t) \/ Decision(t) \/ Audit(t) \/ Journal(t) \/ Standing(t)
       \/ Competence(t) \/ Devices(t) \/ Steps(t) \/ Control(t) \/ Passwords(t)
  \/ TimePasses
  \/ Outside
  \/ Machinery
  \/ Terminated

Spec == Init /\ [][Next]_vars

-----------------------------------------------------------------------------
(* Every table holds rows of its type; what a department or a membership   *)
(* refers to exists.                                                       *)
TypeOK ==
  /\ RegisterTypeOK /\ SystemsTypeOK /\ OrganisationTypeOK /\ ForeignKeysOK /\ PoliciesTypeOK
  /\ WorkTypeOK /\ ChangesTypeOK /\ IncidentsTypeOK /\ DecisionsTypeOK /\ FindingsTypeOK /\ JournalsTypeOK
  /\ StandingTypeOK /\ TrainingTypeOK /\ PostureTypeOK /\ ControlTypeOK

(* Departments that stand as imports made them differ in their names,      *)
(* although names are not unique in the database and imports overlap.      *)
ImportedNamesUnique ==
  \A d, e \in DOMAIN dept :
    /\ AsImported(dept[d], d[1]) /\ batches[d[1]].kind = "departments"
    /\ AsImported(dept[e], e[1]) /\ batches[e[1]].kind = "departments"
    /\ dept[d].name = dept[e].name
    => d = e

(* Imports of policies and their undo never wait for one another in a      *)
(* circle: both lock the policies in the order of their ids, then the      *)
(* versions.  Every deadlock there is has a draft of the screen in it.     *)
PoliciesNeverDeadlock ==
  \A S \in SUBSET {t \in Requests : pc[t] \in {"importPolicies", "examinePolicies", "insertVersions", "undoPolicies"}} :
    ~Deadlocked(S)

(* A finding is either let go for a time or seen through: it has one        *)
(* exception in force at most, none when it is verified or closed, and it  *)
(* is not marked as excepted without an exception (advanceFinding and      *)
(* approveException race for it).                                          *)
FindingGoesOneWay ==
  \A f \in DOMAIN finding :
    /\ Cardinality(LiveExceptions(f)) <= 1
    /\ finding[f].status \in {"verified", "closed"} => finding[f].verifier # None /\ LiveExceptions(f) = {}
    /\ finding[f].status = "exception" => \E x \in DOMAIN exceptions : exceptions[x].finding = f

(* What is approved or implemented is what the decision was about, and the *)
(* ciso who decided had not asked for it (updateChangeRequest edits the    *)
(* row while decideChangeRequest decides it).                              *)
ImplementedAsApproved ==
  \A c \in DOMAIN change :
    change[c].status \in {"approved", "implemented"} =>
      /\ change[c].approval = Content(c)
      /\ change[c].decider \in Chiefs \ {change[c].by}

(* Who is shown as competent by a training completed it as it was judged   *)
(* effective: a completion that has changed since is judged again first    *)
(* (the synchronisation, the evaluation and saveFulfillment overlap).      *)
CompetentOnEvaluatedTraining ==
  \A u \in DOMAIN fulfilment :
    ShownFulfilled(u) /\ fulfilment[u].year # None =>
      LET evidence == record[<<fulfilment[u].year, u>>]
      IN  evidence.judged = evidence.completion

(* A device is said to have been seen when the report that is shown with   *)
(* it was collected, in whatever order the reports are stored.             *)
LastSeenIsNewest ==
  \A row \in Basics : row.lastSeen = IF row.report = None THEN 0 ELSE row.report.at

(* The page of the steps is never flattered by what is missing: whatever   *)
(* it has read, no step would look better if there were less of one thing, *)
(* or if one thing could not be read.                                      *)
LessNeverLooksBetter ==
  \A t \in Requests : pc[t] = "showSteps" =>
    \A i \in DOMAIN ISO_STEPS :
      LET shown == Rank(assessStep(ISO_STEPS[i], req[t].saw))
      IN  \A facts \in Less(req[t].saw) : Rank(assessStep(ISO_STEPS[i], facts)) <= shown

(* Whoever is told that an operation was refused is told what is true for  *)
(* good: nothing was carried out or closed, and nothing is on its way that *)
(* still could be.  Who is told that it was accepted, or closed, finds it  *)
(* so in the ledger.  A wait that is given up is told as neither (the post *)
(* may be carried out long after the web stopped waiting).                 *)
(*                                                                         *)
(* A broken connection is told as one that was not made (page.tsx:74), by  *)
(* which nothing was closed (:82) and nothing arrived (deviceControl.ts    *)
(* :278).  This is not true: ConnectionFails can follow the arrival of the *)
(* post, and what was posted is in the ledger, or will be.  So nothing can *)
(* be said here of that text.                                              *)
ToldOnlyWhatIsKnown ==
  \A t \in Requests :
    /\ told[t].text \in {"unauthorized", "bad_request", "not_configured", "http_error",
                         "too_early", "still_running", "not_pending"} =>
         /\ t \notin DOMAIN calls
         /\ \A m \in wire : m.from # t
         /\ \A c \in DOMAIN calls : calls[c].recovery # t
    /\ told[t].text = "dispatched" => t \in DOMAIN calls
    /\ told[t].text = "recovered"  => calls[told[t].of].recovery = t

(* The page of the password server says that it can be used only when the  *)
(* address it was asked at is one of the Internet (or private ones are     *)
(* allowed), and nothing suggests that the derived server is in use before *)
(* its release is fixed and the status file, not somebody's setting, says  *)
(* that this release passed every gate.                                    *)
AvailableAsEvidenced ==
  \A t \in Requests : pc[t] = "showPasswords" =>
    LET page    == req[t].saw
        release == IB_PASSWORD_RELEASE_LOCK
    IN  /\ page.state = "available" => page.allowPrivate \/ isPublicIpAddress(page.address)
        /\ page.product = Derived /\ (page.state = "available" \/ page.cutoverReady) =>
             /\ None \notin {release.forkCommit, release.imageDigest}
             /\ page.evidence.source = "status_file"
             /\ page.evidence.upstreamCommit = release.upstreamCommit
             /\ page.evidence.forkCommit = release.forkCommit
             /\ page.evidence.imageDigest = release.imageDigest
             /\ \A i \in 1..3 : page.evidence.gates[i] = "passed"

(* The department, the one above it, and so on, further than is drawn.     *)
Above(read, d) ==
  LET up[n \in 0..(MAX_DEPTH + 1)] ==
        IF n = 0 THEN d
        ELSE IF up[n - 1] \in Nodes(read) THEN read.parent[up[n - 1]] ELSE up[n - 1]
  IN  up

(* How many steps a department is under the top, none when it is too far.  *)
DepthOf(read, d) ==
  {n \in 0..MAX_DEPTH : Above(read, d)[n] \in Nodes(read) /\ Above(read, d)[n + 1] \notin Nodes(read)}

(* The organisation chart draws the departments that are in a tree of the  *)
(* depth it can draw, and no others, whatever circles concurrent edits     *)
(* have made; and each membership of a department it has read, or of none, *)
(* is on it once, so that somebody with two roles has a badge for either   *)
(* (updateDepartment races updateDepartment, and the memberships are read  *)
(* after the departments).                                                 *)
EachMembershipIsOnTheChart ==
  \A t \in Requests : pc[t] = "showOrgChart" =>
    LET read == req[t].saw
    IN  /\ \A d \in Nodes(read) : d \in Reached(read) <=> DepthOf(read, d) # {}
        /\ \A m \in DOMAIN read.of :
             read.of[m] \in Nodes(read) \cup {None} => TimesShown(read, m) = 1

(* A file written of rows, every value in quotes.                          *)
InQuotes(value) ==
  <<"quote">> \o FlattenSeq([i \in DOMAIN value |->
                             IF value[i] = "quote" THEN <<"quote", "quote">> ELSE <<value[i]>>]) \o <<"quote">>

RecordText(values) ==
  FlattenSeq([i \in DOMAIN values |-> (IF i = 1 THEN <<>> ELSE <<"comma">>) \o InQuotes(values[i])]) \o <<"lf">>

FileText(header, rows) ==
  RecordText(header)
    \o FlattenSeq([i \in DOMAIN rows |-> RecordText([k \in DOMAIN header |-> rows[i][header[k]]])])

(* What is imported of a file is what was checked and shown of it, although *)
(* the browser rewrites its newlines in between; no value of it would be a *)
(* formula in a spreadsheet; and written to a file again, its rows are     *)
(* read as the same rows.                                                  *)
ImportedAsChecked ==
  \A t \in Requests : pc[t] = "applyImport" =>
    LET rows == req[t].saw.checked
    IN  /\ Importable(t) /\ Read(req[t].saw.csv) = rows
        /\ \A i \in DOMAIN rows : \A c \in DOMAIN rows[i] :
             rows[i][c] = <<>> \/ Head(rows[i][c]) # "formula"
        /\ \A header \in SetToSeqs(DOMAIN rows[1]) : Read(FileText(header, rows)) = rows

(* What a page shows is what is committed, so that it is enough to look at *)
(* it when no request is under way.                                        *)

(* The page of the steps counts what the page of the records shows as done *)
(* or in force, although each asks the database in its own words, unless   *)
(* the page says that there may be more.  Measures are the exception: the  *)
(* records show those of every framework.                                  *)
ListsAgreeWithCounts ==
  Finished =>
    LET page  == Page(CHOOSE u \in People : TRUE)
        facts == RegisterFacts
    IN  \A name \in (DOMAIN page \cap DOMAIN facts) \ {"controlEffectiveness"} :
          \A shown \in Shown(name, page[name].rows) :
            Truncated(name, shown) \/ Cardinality(shown \cap page[name].done) = facts[name]

(* A form that the page of the records offers is one whose server action   *)
(* lets the person who looks do it, as things are when the page is made;   *)
(* two forms are offered whatever the server will say.                     *)
OfferedIsAccepted ==
  Finished =>
    \A u \in PeopleOffered :
      LET page == Page(u)
      IN  \A name \in DOMAIN page : \A form \in page[name].forms :
            MayBeRefused(u, form) \/ Accepted(u, form)

-----------------------------------------------------------------------------
(* A request has a row locked that it will refer to.                       *)
Referring(row) == \E s \in Requests : \E l \in held[s] : l[2] = row /\ l[1] \in {Key, Share}

(* The undo of an import spares what is used.  An asset or a risk is       *)
(* retired only while nothing refers to it and no request has locked it to *)
(* add a reference that will commit later; the records that look at an     *)
(* asset first name active ones; and no department takes with it what      *)
(* somebody recorded of its systems, which the database would delete       *)
(* without a word.                                                         *)
UndoSparesWhatIsUsed ==
  [][ /\ \A a \in Assets : asset[a].status = "active" /\ asset'[a].status = "retired"
                           => ~AssetReferred(a) /\ ~Referring(AssetRow(a))
      /\ \A r \in Risks : risk[r].status = "active" /\ risk'[r].status = "retired"
                           => ~RiskReferred(r) /\ ~Referring(RiskRow(r))
      /\ \A row \in DOMAIN uses' : uses'[row] \in Assets => asset'[uses'[row]].status = "active"
      /\ \A row \in usage \ usage' : \E t \in Requests : req[t].op = "removeDepartmentSystem" /\ req[t].arg = row ]_vars

(* An import leaves what its file says, whatever happens while it waits:   *)
(* each department is under the parent its row names, and a batch of       *)
(* assignments remembers the department each person really had, so that    *)
(* its undo can give it back.                                              *)
CommittedBy(t) == batches[t].kind = "none" /\ batches'[t].kind # "none"

ImportIsAsFiled ==
  [][ \A t \in Requests : CommittedBy(t) =>
        /\ batches'[t].kind = "departments" =>
             \A i \in DOMAIN File(t) :
               LET row == File(t)[i]
                   up  == dept'[<<t, row.name>>].parent
               IN  /\ row.parent \in NamesIn(File(t)) => up = <<t, row.parent>>
                   /\ row.parent \notin NamesIn(File(t)) \cup {None} => up \in DOMAIN dept
        /\ batches'[t].kind = "assignments" =>
             \A assigned \in batches'[t].items :
               /\ assigned.prev = member[assigned.member].dept
               /\ assigned.new = member'[assigned.member].dept ]_vars

(* Nobody is handed an item that was cancelled or is completed, and        *)
(* everybody who is handed one gets exactly one mail about it              *)
(* (addAssignees and cancelAssignment race for the item).                  *)
HandedOutWhileOpen ==
  [][ \A u \in People :
        /\ assignee[u] = "none" /\ assignee'[u] # "none" => Open'
        /\ mails'[u] = mails[u] + (IF assignee[u] = "none" /\ assignee'[u] # "none" THEN 1 ELSE 0) ]_vars

(* A record is written of what stands at that moment, although it can be   *)
(* taken away while the request is under way: an incident is newly given   *)
(* only to somebody active whose membership stands (who has it already     *)
(* keeps it), and a test is recorded only of a plan that is not retired.   *)
(* A risk is accepted as its newest evaluations have it, those that other  *)
(* requests are about to add included, when a measure has not made it      *)
(* worse, and once for each time it is asked for.                          *)
WrittenOfWhatStands ==
  [][ /\ \A i \in DOMAIN incident' :
           LET u == incident'[i].assignee
           IN  u # None /\ (i \in DOMAIN incident => incident[i].assignee # u)
                 => u \in active' /\ ~member'[Ownership(u)].revoked
      /\ \A x \in DOMAIN tests' \ DOMAIN tests : standing[tests'[x]].active
      /\ \A x \in DOMAIN acceptances' \ DOMAIN acceptances :
           LET asked == acceptances'[x].asked
           IN  /\ <<asked.residual, asked.inherent>> \in ToAccept(asked.risk, acceptances'[x].day)
               /\ evaluations[asked.residual].level <= evaluations[asked.inherent].level
               /\ \A y \in DOMAIN acceptances : acceptances[y].asked # asked ]_vars

-----------------------------------------------------------------------------
(* The versions of a policy are numbered without a gap: the undo of an     *)
(* import deletes only the latest version, while nobody can add one.       *)
VersionsHaveNoGap == \A p \in DOMAIN policy : Numbers(p) = 1..Latest(p)
=============================================================================
