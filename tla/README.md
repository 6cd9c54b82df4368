# Verification of isms-risk-platform

TLA+ models of the platform's own core logic, the TLC configurations that check
them on small instances, and TLAPS proofs of what matters most. Every definition
is translated from the source; `PROJECT.json` ("map") names the lines each one
stands for.

## The system

A multi-tenant platform for running an information security management system.
PostgreSQL holds the state and, in `db/migrations`, most of the rules: functions
and triggers in PL/pgSQL under row level security. A Next.js application
(`web/src`) is the only writer of business data, a Go agent (`agent/`) on managed
devices enrols and reports posture over HTTP, Python and shell programs
(`scripts/`, `ops/`) send mail, rotate sessions, synchronise directories, run
checks, deploy and restore.

| Component | State | Operations | Interacts with | What makes it hard | What makes it correct |
|---|---|---|---|---|---|
| Mail outbox and worker | `mail_outbox` rows: status, attempts, last_error | queue, claim, send, mark sent / failed, reclaim | web inserts, worker claims, SMTP relay | crashes between send and record, two workers, rows of unknown fate, retries | at most one copy, sent only if accepted, every mail settled |
| External questionnaires | `external_questionnaires.status` | create, send, record answers, review | mail outbox (both directions) | two clerks, delivery recorded late | one mail per questionnaire, the two tables agree |
| Tenant context and sessions | `sessions`, transaction-local context | create, revoke, set context | every other component | expiry and revocation during use | no row of another tenant, no use after revocation |
| Session rotation | env file, web process, `sessions` | issue, write, restart, health check, revoke, restore | web process, mail worker | crash between steps, two rotators, failed restart | the running process always ends with a live token |
| Memberships and owners | `memberships`, `users` | change role, revoke, deactivate | every management operation | concurrent demotions under READ COMMITTED | never without an owner |
| Audit chain | `audit.audit_log` with hashes | append, verify | every recorded operation | concurrent appends | one unbroken chain |
| Device enrolment | devices, enrolment tokens, login requests, installations | issue, start, decide, redeem, enrol, detach, report | agent, administrators, mail | lost replies, revocation and detachment in flight | a token serves once, a detached device is silent |
| Policy versions | `policies`, `policy_versions` | draft, approve, activate, import, undo | imports, risk acceptance | the next number is computed before the wait, two activations | one current version, a new number each |
| Risk register | `assets`, `risk_scenarios`, links, `risk_evaluation_snapshots` | save, link, evaluate, import, undo | imports, changes, incidents, work | references added while an import is undone | a row in use is never retired by an undo |
| Imports of initial data | `import_batches`, their items and undos | upload, check, apply, undo | the five registers an import fills | the file travels through the browser; two imports; edits between import and undo | imported as checked and as filed |
| Risk acceptance and deviations | `risk_acceptances`, `management_deviations`, receipts | accept, request, approve, close | evaluations, policies | evaluations under way, resubmitted forms | accepted as the newest evaluations have it |
| Departments, organisation chart | `departments`, `memberships` (one for each person and role), `department_systems` | save, move, import, undo, draw | imports, systems | circles made by two moves, two reads of one page | each membership is drawn once |
| Work items and assignments | `work_items`, `work_item_assignees` | hand out, add, remove, report, cancel | mail outbox, departments, assets | cancellation while people are added | nobody is handed closed work, one mail each |
| Change requests, vulnerabilities | requests with decision and approval | request, edit, decide, implement, cancel | assets | text edited while it is decided | implemented as approved |
| Incidents | `incidents` | register, edit | risks, memberships | the assignee leaves meanwhile | given to those who can have it |
| Findings, reviews, standing records, journals | `findings`, `exceptions`, `corrective_actions`, `management_reviews`, ... | some thirty forms of one page | the page of the records, the page of the steps | exception against verification; what is listed and what is counted | a finding goes one way, lists agree with counts, forms are accepted |
| Page of the steps | no state; seven reads | judge twelve steps | all registers, the catalogue | facts read at different times, facts that cannot be read | less never looks better |
| Device posture | `devices`, `device_snapshots` | post, detach, enrol again | agent | reports out of order, repeated, after a detachment | last seen is the newest report |
| Device control | ledger of the orchestrator (external) | dispatch, recover, list | orchestrator | an answer that comes too late | only what is known is told |
| Training | `training_records`, `competency_fulfillments` | fetch, evaluate, cite | eLearning system | a completion changes after it was judged | competence rests on the completion that was judged |
| Password manager page | status file, environment (external) | read, look up, ask | file of its operation, name service | evidence of another release | shown as available only with evidence |
| Checks and gates | check runs, gates | evaluate, close | scripts/checker.py | stale results | no gate passes on an old result |
| Connectors and HR identity | connector runs, snapshots, links | pull, diff, apply | Google Workspace | partial pulls | a partial pull removes nothing |
| Deployment, backup, migration | releases, schema versions | deploy, migrate, roll back, restore | systemd, database | failure half way | the previous release keeps running |

The rest of this file: what each module models (Modules), what the runs check
(Runs), what is proved (Proofs), where code and documentation disagree
(Findings), what follows next (Plan) and what stays out (Not modelled).

## Modules

A variable is a column, a lock or a local variable of a process; an action is one
database transaction or one statement, whichever the code interleaves with other
actors. History variables, which the code does not have, are marked as such.
Definitions marked "Variant" are mutations of the code that the properties have
to catch; nothing else uses them.

### MailOutbox, MailPromise

`MailOutbox.tla` has the columns of `app.mail_outbox` (`status`, `lastError`,
`attempts`; `aged` says that `updated_at` is older than the reclaim threshold) and
the local state of each running `send_mail_outbox.py` (`pc`, its unfinished batch
`todo`, the row `cur` it has just sent). Each database call is one action, because
each is a transaction of its own in the code; sending and recording are separate
steps and a worker may stop between any two. `accepted` is a history variable: how
many times the relay took the mail. `Faults` selects what the environment may do.

`MailPromise.tla` is the abstract specification: a queued mail is handed over at
most once and recorded afterwards. `PromiseKept` maps the queue to it.

Where the code stops short of the wording around it:

- nothing sets the mail status `cancelled`;
- reclaiming is a command an operator gives; no timer does it;
- the example `--reclaim-stale 30` of `docs/MAIL_OUTBOX.md` is refused by the
  function, which wants 60 seconds at least;
- a worker that outlives the threshold can deliver a mail twice; the systemd service is
  a oneshot without a time limit, so the promise holds as long as a batch ends in time.

### QuestionnaireMail

Extends `MailOutbox` with the questionnaires: `sendQuestionnaire` is split at its
`SELECT ... FOR UPDATE`, `mark_mail_sent` changes both tables in one step. The
statuses `ready`, `in_progress` and `cancelled` are never set by the code and are
left out.

### OwnerGuard

Members (`status`), their unrevoked management roles (`roles`) and the server
actions that change them: `saveMemberRole`, `saveMembership`, `addMember`,
`setMemberStatus`. A request is one READ COMMITTED transaction, cut at its
statements: the advisory lock, the count of the other owners, the scan and the
revocation of roles (`seen` is the snapshot of that UPDATE), the insertion with the
trigger that locks and checks the user, the deferred `assert_owner_remains`, the
commit. What a request has written is in `revoked`, `granted`, `newStatus` until it
commits. `locks` holds the advisory lock and the row locks; a statement whose lock
another request holds waits, and a request may be rolled back at any statement,
which is also how PostgreSQL resolves a deadlock.

An owner cannot demote himself with `saveMemberRole` (the actor must stay permitted),
and `saveMembership` adds a role on purpose without removing others; `OneRoleEach` is
therefore only asked of `saveMemberRole`.

### AuditChain

`audit.append` cut at its statements (lock, maximum, last hash, insert) within
transactions of their own, under READ COMMITTED or REPEATABLE READ (`snapshot`).
`VerifyChain` is `audit.verify_chain`. `MayAlter` lets a committed row change behind the
function's back.

A digest is of the text that `chain_payload` makes of a row, and two digests are equal
exactly when their texts are (a collision of SHA-256 is left out). The text is not the row: `0014:58-69`
joins the columns with a `|` that it does not escape and writes nothing for NULL. `action` and
`target_type` are free text, so action `a`, target type `b|` reads like action `a|b`, target
type empty or NULL. The model has these two as sequences of `Words`, the bar (`Sep`) among
them; the columns before and behind (`head`, `tail`) are values, since their forms (ids,
time stamps, JSON) leave no doubt where they end. `PlainAlterationNoticed` is what
holds: a row whose `action` and `target_type` held no bar when it was appended cannot be
altered unnoticed, except from a NULL target type to an empty one or back, which says the
same. Of every row, as the comment at `0014:52` says it, it is false: the theorem `MovedBarGoesUnnoticed` gives
the alterations of rows with bars that `verify_chain` does not see (see Findings).

The text covers what `chain_payload` lists; actor, reason, source address, user agent, session and
time of append are outside it, although the same comment promises false for any
row that was tampered with. An alteration of those goes unnoticed, and the model's `Payloads`
stand for the covered columns only.

### SessionRotation

`rotate_web_session.py` statement by statement: resolve the identity, issue, write
the env file, restart the service, wait for its health page, revoke the old token or
put it back. `life` counts the intervals a token has left, `web` is the token the
running process was started with, `due` and `misses` are the timer and a history of
runs that replaced nothing. `Faults` may hit every step, and a crash may come between
any two.

Once the token has expired the run cannot resolve its identity from it and, without
`ISMS_SESSION_TENANT_ID` and `ISMS_SESSION_USER_ID`, never recovers by itself
(`rotate_web_session.py:108`, against the docstring at line 94). A run that ends with
code 70, crashes, or fails to write leaves a live token nobody uses until it expires.
In the mode without restart the token of a running mail worker is revoked; for
the mail queue that is one of the crashes `MailOutbox` allows.

### DeviceEnrollment

The ledger of invitations (`status`, `live`, `hardware`, `linked`: `app.agent_installations`),
the codes (`token`, `tokenLive`: `app.device_enrollment_tokens`), the devices (`key`),
the open login requests (`request`, `newer`) and, per machine, the installer script
with the handler it is calling (`pc`, `inv`, `made`). Two kinds of invitation (by
code and by Google Workspace login) and two installers (shell, PowerShell) take
different routes through the same ledger; each database call of a handler commits by
itself, so anything may happen between enrolling a device and recording it.
`Stop` loses a script, a handler or a reply anywhere.

A key is the number of the key pair its machine generated. A request that is
denied, redeemed, failed or expired is not kept: each of these answers ends the
installer. Two machines can share a link because the stage report overwrites
`hardware_id`; `newer` orders their requests for the approval by the invited person,
which takes the newest.

A revocation ends `live` at once. The code sets `expires_at` to one second after the
creation at the earliest (`0084:33`), so within that second a stage report can still
change a revoked row; the model has no clock that fine.

### Requests, Workspace

`Requests.tla` is what the server actions of the web have in common. A request is one
call of `withTenantWrite` (or `withTenant`), which is one READ COMMITTED transaction:
`pc` is the phase it is in, `req` what it was asked and has read, `held` and `want` its
locks. A phase is what happens from one wait to the next; it runs when the locks it
needs are free (`Granted`), sees what is committed by then, and what it writes becomes
visible when it ends with `Done`. The lock modes are PostgreSQL's row locks, plus the
table lock of the acceptance (`Frozen` against `Inserting`) and advisory locks, which are
rows nobody else names. `DeadlockAbort` is the detector's rollback of one of a circle.
Locks of one statement are taken one after the other, which is why circles can form.

`Workspace.tla` composes the modules below: they share the tables, and a plan
(`plan`) says which server actions a behaviour exercises and which rows there are
to begin with. A row is named by the transaction that made it (`First`, `Before` for
rows that were there before). `uses` maps every row that refers to an asset or a risk to
what it names: it is where the undo of an import looks.

What every form may say is the set of values the page offered when it was made, so a
request may rest on something that has changed since: the row was closed, the person
stopped, the department deleted.

### The registers and their imports

| Module | Models | Code |
|---|---|---|
| `ImportBatches` | the advisory lock of an import, its batch, one undo of a batch | `import/actions.ts` (`applyImport`, `undoImport`) |
| `CsvImport` | a file of characters: reading it (quotes, newlines, byte order), its limits, its check, the hidden field that the browser rewrites, its application | `lib/csvImport.ts`, `import/actions.ts` |
| `RiskRegister` | assets, risks, their links, evaluations; import, undo and the forms | `risk-management/actions.ts` |
| `PolicyDrafts` | policies and versions: draft, approval, activation, import, undo | `policies/actions.ts`, migration 0034 |
| `Departments`, `OrgChart` | departments, who belongs to them, both imports, the two reads of the chart and the tree drawn of them | `organization/actions.ts`, `organizationRegister.ts`, `components/OrgChart.tsx` |
| `Systems` | systems under a free key, their use by departments | `organization/actions.ts` |

A membership is a row of a person and a role, with a department of its own
(`Memberships`, `0005:52-66`), so somebody with two roles has two. A row that was never granted
is one that is revoked: to insert it waits for whoever inserts the same, which is what the lock of
that row stands for. An import of assignments takes all memberships of a person
(`import/actions.ts:467-477`), one after the other, each under its row lock; which of one person's comes first is
left open. The triggers of a membership lock its user, and refuse an auditor a second role
(`Combinable`). Who is the ciso does not change here (`Chiefs`): `OwnerGuard` has that. The importer is
an admin, whom a file that names the ciso is refused; an owner's would assign it. `OrgChart` draws one badge for each membership, as
`OrgChart.tsx:51-54` and `:73-76` do, and counts heads beside a department as the query does (`count(DISTINCT user_id)`).

`Stamps` stand for `updated_at`: an import and a row it made have the same one until the
row is edited, and that is how the undo knows that nobody has touched it.

### Decisions and records

| Module | Models | Code |
|---|---|---|
| `RiskDecisions` | acceptance of a risk on the evaluations and the policy its page showed; deviations | `risk-management/actions.ts`, 0046, 0050, 0052 |
| `WorkItems` | an item, its assignees, its mails, its asset | `operations/assignments/actions.ts` |
| `Changes` | change requests and vulnerabilities | `iso27001/records/actions.ts`, 0070 |
| `Incidents` | incidents, their risk and their assignee | `incidents/actions.ts` |
| `Findings` | findings, exceptions, corrective actions, the review and its approvals | `iso27001/records/actions.ts` |
| `StandingRecords`, `Journals` | records that stand until retired; entries added once | `iso27001/records/actions.ts` |
| `RecordsPage` | the lists of the records page, what they mark as done, which forms they offer, and what the actions behind them accept | `iso27001/records/page.tsx`, `lib/ismsRecords.ts` |
| `IsoSteps`, `StepPage` | the twelve steps, `resolveTool`, `assessStep`; the seven reads of the page | `lib/isoSteps.ts`, `steps/[key]/page.tsx` |
| `Training` | completions fetched, judged and cited | `training/actions.ts`, `competency/actions.ts` |
| `Posture` | reports posted, stored, shown; detachment and enrolment meanwhile | `api/agent/v1/posture/route.ts`, 0079, 0086 |
| `DeviceControl` | operations posted to the orchestrator, recoveries, what the page says | `lib/deviceControl.ts`, `operations/device-control` |
| `PasswordManager` | configuration, status file (its release, its upstream commit, its gates), address lookup and request of one page | `lib/passwordManager.ts` |

`RiskDecisions`: an operation is what its form says (`managementIntent` derives the id
from it), so a form sent again gets the receipt of the first time. The day is a counter;
an evaluation may be of a day to come. `acceptRisk` takes the table lock before it looks
for the newest evaluations and again before it writes; an evaluation whose insertion is
under way is therefore waited for.

## Runs

| Run | Instance | What it shows |
|---|---|---|
| `mail_outbox` | 3 mails, 2 workers, batches of 2, 2 attempts, crashes and failing records | one copy at most, retry only of undelivered mails, the queue implements `MailPromise`, every queued mail is settled or waits for the operator |
| `mail_lost_ack` | 2 mails, the relay accepts and the client raises | a finding: the row becomes retryable although it was delivered |
| `questionnaire_mail` | 2 questionnaires, 2 clerks, 2 mails, 2 workers, every fault | one mail per questionnaire, both tables agree, no step back, sent only if accepted |
| `owner_guard` | 3 members, 2 overlapping requests, all operations | an owner remains, auditors hold nothing else, grants reach active members only |
| `owner_two_roles` | 2 members, 2 role changes | a finding: two role changes leave two roles |
| `audit_chain` | 3 writers (2 READ COMMITTED, 1 REPEATABLE READ), 3 rows of 3 contents (with a bar, without, target type NULL), any one altered at any moment (781,923 distinct states) | links intact, no collision of two appends, an alteration of a row whose texts held no bar is noticed, whatever is appended |
| `session_rotation` | timer, 4 tokens, life of 4 intervals, 3 faults | the token in use is never revoked, two misses in a row are survived, service comes back when runs succeed |
| `device_enrollment` | 2 invitations (code, login), 2 machines that may follow both, one returns with a second key | a code serves once, revoked stays expired, active means enrolled, a login never takes over a device, installers end |
| `device_revoked` | 1 code, 1 machine | a finding: revocation does not stop a code |
| `device_windows` | 1 code, 1 Windows machine | a finding: the PowerShell installer ends before scheduling |
| `workspace` | 3 requests, 34 plans (435,005 distinct states) | imports end as checked and as filed, an undo spares what is used, policies do not deadlock, findings go one way, changes are implemented and risks accepted as decided, competence rests on judged training, pages say what is known, each membership is on the chart once, lists agree with counts, forms are accepted |
| `policy_version_gap` | 3 requests on policies | a finding: a draft beside an undo leaves a gap in the numbers |

Bounds. Two concurrent actors of each kind are enough to meet every race named in
the hazards, since each of them is between two transactions over one row or one lock;
the third mail, member or writer is what makes a batch, a remaining owner, or a
snapshot older than two commits possible. `BatchLimit` 2 of 3 mails leaves one row
outside the batch. `MaxAttempts` 2 allows one retry. `MaxRows` 3 lets each of three writers append, or one append
before and one after the altered row. `TTL` 4 intervals is the real ratio (24 hours, every 6 hours), and
`MaxFaults` 3 is one more than the timer is documented to survive. `MaxKeys` gives one machine the second key
pair that a re-enrolment needs. The check on deadlock is off where the system may
stop: all mails settled, every request done, the row bound reached, key pairs used up.

`workspace`: three requests, because an undo, an edit and a third one that keeps a lock
already make every wait and circle of two rows; two people (one of them a chief, a
manager and an operator), two assets, one risk, one machine, one work item, one review.
Each plan lets the actions of one screen or of two meet; the requests draw from the
plan's actions with repetition, so each action also meets itself. `LIST_LIMIT` 2,
`MAX_DEPTH` 1 and `MAX_KEYS` 2 (200 to 300, 20 and 999 in the code) make lists, charts and
keys reach their limits. Files have a header of one or two columns and up to 4
characters of seven kinds, or are any text up to 3. `MaxVersion` 3 bounds the versions of
a policy. One page is read at a time, since pages write nothing; the lists and forms of the
records page are compared in states without a request under way, because what is not
committed is on no page. Every request ends, so
the check on deadlock is on: a state in which nobody can go on although a request is
under way is an error.

Symmetry is used in the runs without liveness properties only, over actors that no
definition tells apart.

Fairness. `Workspace` states none: everything said of it is safety. `MailOutbox`: the timer starts a worker again and again and a started
worker goes on (weak fairness of the run and of its steps); the operator's reclaim
is assumed as well for `QueuedIsSettled`, because the code leaves that to him. Rows in
`sending` grow old, since time passes.
`SessionRotation`: the timer ticks only when the run that is due has been started, and
a started run goes on, every wait in it having a deadline
(`rotate_web_session.py:198`). `DeviceEnrollment`: scripts and handlers go on and a request expires after ten minutes; nobody
is assumed to approve anything.

## Proofs

Each holds for every value of the constants that the named ASSUME admits.

| Module | Theorems | Argument |
|---|---|---|
| `MailOutboxProofs` | `TypeCorrect`, `TriggerNeverRejectsAny`, `SentIsAccepted`, and, without overruns, lost acknowledgements and unchecked retries, `OneCopy`, `RetryIsSafe`, `QueueKeepsPromise` | `SentInv` carries the acceptance from the worker's hand to the row. `CopyInv` adds that no row is in two hands, that a row in hand is in `sending`, and that a row still to be sent has no copy: `AtMostOneCopy` alone does not survive a claim. `QueueKeepsPromise` is the refinement of `MailPromise`, step by step |
| `OwnerGuardProofs` | `TypeCorrect`, `OwnerAlwaysRemains`, `AuditorAlwaysAlone`, `GrantsReachActiveOnly` | `OwnerInv`: locks are exclusive, whoever removes an owner holds the guard lock and has the deferred check queued, a request past the check has seen another owner who cannot go away while the lock is held. `GrantInv`: a request that has granted holds the user's row, so status and side (auditor or not) are what it saw |
| `AuditChainProofs` | `TypeCorrect`, `PlainAlterationAlwaysNoticed`, `MovedBarGoesUnnoticed`, and, while nothing but append touches the rows, `AlwaysNumbered`, `AlwaysIntact`, `NeverCollides` | `ChainInv`: rows pending with the lock holder continue the committed ones, snapshots are prefixes, and the local `seq` and `prev` are the end of what the writer sees. `NoFailure`: a number that is free for the reader is free in the table. `PlainAlterationAlwaysNoticed` needs none of that: `AlterInv` says that every row is hashed as it says, committed or pending, until one is altered, and that from then on some committed row is not, if what was altered held no bar; `verify_chain` compares just that, whoever appends afterwards. That the text of such a row tells its parts (`TextParts`, `TextTells`) is a fact about where its bars stand: those of a plain row are the separators, and no other row with the same text has its separators elsewhere (`HashTells`). `MovedBarGoesUnnoticed` is the other side, of a row with a bar: one text cut in two ways (`OneText`) |
| `SessionRotationProofs` | `TypeCorrect`; with one run at a time, `NothingInUseRevoked`; with the timer's run only, `RenewedInTime` | `RunHolds` says for each statement which of the two tokens the env file and the process hold and that neither is revoked. `TimeInv`: a token in use has lost an interval per miss since it was issued, and one more while this interval's run has not ended (`Lasts`); the bound alone is not inductive, because a tick and the miss that follows it are two steps |
| `DeviceEnrollmentProofs` | `TypeCorrect`, `RevokedNeverRevives`, `ActiveMeansEnrolled`, `CodeIsSpentOnce`, `NoTakeover` | `Located` says for each place of an installer which invitation and key it has and that it has been enrolled before it marks the ledger; `Unspent` says that an unused code has enrolled nothing. The two action properties follow from `KeyGivers`: only two steps give a key |
| `QuestionnaireMailProofs` | `QTypeCorrect`, `QSentIsAccepted`, `OneMailEach`, `TablesAlwaysAgree`, `NeverGoesBack` | `QInv`: a clerk past the `SELECT ... FOR UPDATE` is the only one, and what he read is still so (`DraftsLocked`); a questionnaire that a mail carries has left the clerks' hands, and no two mails carry the same (`MailsCarry`); a questionnaire that waits has an open mail, one shown as sent a sent mail (`MailsAnswer`). Every step of the queue is one of `MailOutbox`, so its `TypeInv` and `SentInv` carry over |
| `WorkspaceProofs` | `CompetenceIsEvidenced`, `SeenWhenReported`, `FindingsGoOneWay`, `ChangesAreAsApproved`, `HandedOutOpen`, `ToldWhatIsKnown`, `AvailableOnEvidence`, `MissingNeverFlatters`, `ListsAlwaysAgree`, `OffersAlwaysAccepted`, `ImportsNameApart`, `ChartIsComplete`, `UndoTakesNothingUsed`, `WrittenAsItStands`, `PoliciesInOneOrder`, `ImportAsFiled`, `ImportsWhatWasChecked` | see below; for any plan, any number of requests and any mixture of screens |

`WorkspaceSteps` holds what the arguments of `WorkspaceProofs` share: the four
ways a request moves, that a row held to be written keeps others out (`RowIsHeld`,
`RowIsBarred`), and, for each screen, the phases its requests pass through. A step
of another screen therefore leaves the requests of this one and its tables alone
(`Elsewhere`), and each proof has one case per action of its own screen. It also has what several screens rest
on: what recursion computes of the departments, what each screen imports (`BatchesKept`), the locks of an
undo (`RegisterInv`), and what the reader of a file makes of one; and, so that neither module takes the prover too long, the invariants of tests, acceptances,
incidents, departments and policies that the last theorems of `WorkspaceProofs` rest on. The invariants:

- `TrainingInv`. What is judged effective is judged for the completion the row has now
  (`JudgedAsCompleted`), and the record that a fulfilment cites, or is about to cite, is
  there (`CitedIsThere`). A synchronisation keeps the first because it takes the
  judgement back with the completion it was made for.
- `PostureInv`. `last_seen` is the newest of the stored reports, whatever key they were signed
  with (`SeenAsReported`); the code raises it by the row as it is at that moment.
- `FindingInv`. A request that has examined a finding holds its row, alone, until it writes
  it, and what it found stays so (`FindingsUnderWay`). In every state a finding marked as
  excepted has an exception, an exception in force has a finding so marked and is the
  only one of it, and what is verified has a verifier (`FindingsKept`); without the second of
  these the expiry of one exception would undo what another still stands for. New rows
  have new names (`FindingsFresh`).
- `ChangeInv`. A change request that is being edited, linked or decided is locked by that
  one transaction (`ChangesAlone`, `ChangeUnderWay`), so the content an approval records is the
  content at the moment it is recorded. Without the lock an edit could come between the
  two, and `ImplementedAsApproved` would not survive the approval.
- `WorkInv`. Nobody adds people to an item while it is being cancelled (`WorkAlone`), since both
  hold its row; a request past that lock still finds the item open (`WorkUnderWay`); nobody
  is assigned before the item exists (`WorkKept`).
- `ControlInv` (for `ToldWhatIsKnown`, which leaves out the text of a broken connection). For every message to the orchestrator: the page that sent it still waits or was
  told nothing of the outcome, and the answer says what the ledger says (`WireKept`); a request
  that was told of a refusal has left no trace in the ledger, and none that has not been sent
  has one on the wire either (`ToldKept`).
- `PasswordsInv`. At each wait of the page, how far the server and its address have been found
  fit to be asked (`PageKept`); evidence of the derived server never matches a release that is
  not fixed (`NotCutOver`).
- `StepsInv`. What the page of the steps has read, one query after the other, is there to be judged and
  counts no more well-formed controls than controls (`StepsKept`, `WellCounted`), whatever
  was loaded in between; and so is the catalogue (`CatalogueKept`). `StepIsNotBetter`
  then goes through the tools of a step and its conditions: each asks for a number to be at
  least something or for a fact to be true, and what is not known is neither.

- `OrganisationInv`. Of the imports that hold the advisory lock there is one (`OneByOne`). It has
  found every department that stands as an import made it and has a name of its file, and
  goes on when there are none; nobody else makes any meanwhile (`Found`, `Fewer`): a row
  that is saved or edited on the screen bears the stamp of a transaction that imported no
  departments (`NotYet`, `RowsKept`). The names alone would not do: a name can be taken on the
  screen between the look and the commit. `MadeIsOfFile` says that the rows of a commit are
  named as the rows of the file, in whatever order `orderDepartments` puts them.
  The chart needs of all this that no department is NULL (`Charted`); the rest is about
  what it has read, the memberships of people with several roles among it: `DepthIsLevel` relates the levels that `buildTree` goes down to the parents
  one goes up, and `ShownOnce` counts.
- `RegisterInv`. Two requests never hold locks that exclude each other (`LocksApart`), although most phases
  take several, one after the other (`Takes`, `Waits`). The undo of a batch holds the locks of all the
  batch made except those it still waits for (`Undoing`), so when it goes on nobody holds a key of
  them that a reference needs (`NobodyRefers`), and it looks whether they are referred to
  only then (`RetiredUnused`).
- `UsesInv`. Of an asset that a request has found active it holds the lock that keeps the undo and
  the screen from retiring it until the reference is written (`Secured`, `NamesRight`); an edit of a
  change that keeps the asset takes no lock, and needs that the row names it still, which
  `ChangeInv` gives. What rows name is active in every state (`UsesKept`). The action property alone says nothing
  about a reference that is still to be written.
- `UsageInv`. The undo of departments is of a finite batch of departments, and its loop never takes one that
  uses a system (`DeletedIsUnused`), so what a department uses goes only by
  `removeDepartmentSystem`.

- `StandsInv`, `AcceptsInv`, `GivesInv`, for the three parts of `WrittenAsItStands`. A plan that is being
  tested is locked against being retired until the test is in (`Testing`). Who accepts a risk has
  frozen the evaluations, which whoever adds one must not be doing (`Accepting`, `Evaluating`), and
  holds the lock of what is asked, so nobody accepts the same meanwhile (`AcceptsOnce`). Of the person whom an
  incident is to be given the request has the membership and the user locked, or the person has the
  incident already and its row is locked (`Settled`); whoever revokes a membership or stops a
  person needs those rows (`Revoking`, `Stopping`).
- `PoliciesInv`. An import of drafts and an undo wait for locks each of which may follow all those
  they hold and await before it (`InOrder`): the lock of the imports, then policies with rising ids, then versions.
  What they lock has been committed, or is their own (`WithPolicy`), and what an import is about to make has
  titles of its own, so that the table never has two policies with one place in that order
  (`Titling`). Versions are locked in no order; but whoever wants one has locked its policy, or has
  made it and not committed, and so has whoever holds it (`NobodyWaitsForVersions`). Round a circle of
  requests that wait for policies their ids would rise for ever (`NobodyExceeds`).

- `FiledInv`. An import of departments is valid, and has locked the parents outside of its file before it
  finds them there (`FilesDepartments`); the order of `orderDepartments` has a parent before
  its children (`OrderIsRight`), so each row finds its own among those made before or outside (`MadeAsFiled`). What
  an import of assignments remembers of the first `k` memberships, no two of them the same (`TargetsAreDistinct`), is where they belong now, since
  they are locked as they are read (`FilesAssignments`). That this stays so needs that whoever deletes a
  department or writes a membership has it locked (`DepartmentsWritten`, `MembersWritten`): an undo
  locks what there is of its batch when it begins, and nothing of the batch is made later
  because whoever made it is done (`UndoesDepartments`, `FiledBatches`).
- `TextsInv`. A text that is sent back has been given and was read as rows to import. The rest is about texts.
  Whatever the browser makes of its newlines, a posted text is normalised to the same text as the given one
  (`PostedReadsTheSame`), so it has the hash and the rows that were checked. What is read of a text is well read
  (`ReadIsWellRead`): its columns are named apart, its values trimmed and none a formula, no row empty. And
  what is well read is read again of a file written of it (`WellReadAgain`): along a text of values in quotes the
  reader has at each place the records, the record and the cell of what precedes it (`ReadWithin`, for the
  characters of a value with its quotes doubled; `ValueRead`, `RecordRead`, `FileRead`).

What `ParentsUp`, `OrderDepartments`, `MadeFrom`, `DeletedBy`, `AtDepth` and `Above` compute is defined by
recursion. A section of `WorkspaceSteps` has what replaces induction schemes:
`CountingUp` (from the least number principle), that a function given by its value before
exists and where its values stay (`StepByStep`, `StepsStay`), and the same for folds over
a sequence (`FoldByFold`, `FoldStays`). `FlattenJoins` and `ScannedGoes` have the step of what `FlattenSeq` and
`Scanned` compute of a text.

The page of the records needs no invariant of its own. `ListsAlwaysAgree` compares, section by section, the rows a
list marks with the rows the steps count, over tables that are as they may be, with `ListIsWhole`
for the limit. `OffersAlwaysAccepted` compares each form with the conditions of its action; a
finding that can be closed needs a verifier, which `FindingsGoOneWay` gives.

Assumptions. The theorems rest on the named ASSUMEs of the models and nothing else; TLC
evaluates each of them for the instance of its run. Most say what kind of value a constant is, or that SQL
NULL is not the name of anything (`NoneAssumption`). Some are about the tables that the plans
of `Workspace` start from, which the model does not build up from nothing:
`TrainingAssumption`, `PostureAssumption`, `FindingsAssumption`, `ChangesAssumption`,
`WorkAssumption` (for an item without assignees), `DepartmentsAssumption` (an earlier import of
departments left names that differ and was of no request to come, and there is a row for each person and role), `IncidentsAssumption` (an
incident of before was not made by a request to come), `RegisterAssumption` (assets and risks have different keys, an
earlier batch is finite, and what rows name is there, an asset active), `CatalogueAssumption` (every count is there, and
no more controls are well formed than there are) and `PoliciesAssumption` (the policies of before are
finitely many, and no two have one title: the number of the title stands for the order of the ids) say that they are as the program leaves
them, that is, the part of the invariant that speaks of committed rows, and that no row of before bears the name of
a request to come. `RequestsAssumption` says that finitely many requests are under way, and `TextsAssumption` that
a text that is given is a finite sequence of characters. What a request reads, keeps and holds is never assumed.

Only model-checked:

- `QueuedIsSettled`, `ServedAgain`, `InstallerEnds`: liveness under fairness is beyond the
  installed provers.
- Of `Workspace`: `TypeOK`. The parts of it that the theorems need are proved (`Shaped` and the invariants of
  each screen).

That one run at a time is assumed of the rotation is needed: a run started by hand beside
the timer's can put back a token the other has revoked.

## Findings

- `mail_lost_ack`: an exception after the relay took the mail is recorded as a plain
  failure, which `--retry-failed` sends again; `docs/MAIL_OUTBOX.md:136` rules that out.
- `owner_two_roles`: two overlapping `saveMemberRole` of one member leave both roles,
  against the comment that exactly one is set.
- `device_revoked`: revoking an invitation leaves its code valid for a script that
  already has it; `docs/DEPLOYMENT.md:99` says the code is refused.
- `device_windows`: the PowerShell installer reports `installed` after the invitation
  became active, is refused with 400 and ends before `Register-ScheduledTask`.
- `policy_version_gap`: a draft numbers itself before it waits for an undo that deletes
  the number before it; the comments of the undo (`import/actions.ts:648`, `:654`) say
  the numbers stay without gaps and that nothing can come between.

Met while modelling and left without a run (the models
contain the behaviour):

- Audit log: an alteration that moves a bar between `action` and `target_type` leaves the text under the hash, and
  `verify_chain` true, against `0014:52` (false if even one row was tampered with). `MovedBarGoesUnnoticed`
  proves it for every log. The callers in the repository write neither text with a bar.
- Device control: a connection that breaks when the post has arrived is told as one that was not made
  (`operations/device-control/page.tsx:74`), the closing of a request as one that was not done (`:82`), and
  `deviceControl.ts:278` and `:320` claim to tell the two apart; only the abort of the web's own timer is told as
  undetermined. `ConnectionFails` in `DeviceControl` lets the post be carried out before or after.
  `ToldOnlyWhatIsKnown` is therefore said of refusals, acceptances and closings, not of this text.
- Work items: two removals can leave an item without assignees, against
  `assignments/actions.ts:278`; two assignees who report at the same time leave the item
  open; an edit can bring a cancelled item back; the form of a finished row is offered
  and refused; handing out to a department reaches auditors, whom the picker leaves out.
- Records: a review stays marked approved after its minutes were edited
  (`records/page.tsx:428`); the review form of a corrective action is offered to its own
  owner and refused (`ismsRecords.ts:490`), and so is the approval of a review
  (`MayBeRefused` in `RecordsPage`); the measures listed are of every framework while the
  steps count one.
- Departments: two moves can make a circle, against `organization/actions.ts:174-177`
  and `OrgChart.tsx:5-8` (the chart lists such departments beside the tree); a member of
  a department made between the two reads is on the chart nowhere.
- Assets: a system can be retired while an asset is being placed in it
  (`organization/actions.ts:543-546`); editing an asset whose system was retired empties its location.
- Incidents: the last of two edits wins as a whole. Judgements of completions and
  corrective actions are about what the page showed, not what the row says then.
- The undo of assets does not look at `work_items.resource_id`.
- Risk acceptance: an accepted risk is shown as current although an evaluation planned
  for a later day has become the newest (`0051:70` compares only the number and the
  hashes); the unique index on that number (`0046:80`) refuses a second acceptance of the
  same evaluations, an expired one's renewal included; `addRiskSnapshot` compares with
  the newest inherent risk of any day, the acceptance with that of the same day, so the
  form can be offered and refused; the policy cited can be superseded before the commit;
  nothing calls `expire_management_deviations`, so lapsed deviations stay open.
- Posture: a report verified before a detachment is stored after it (`0086:3` says no
  more reports); an older report overwrites the host name.

## Plan

Modelled first: what loses or duplicates something nobody can take back (mail,
owner, audit rows, the running service, device keys); then the registers and records that
several people write. What is left, in this order:

1. `CheckGate` (0021, 0022, `checker.py`): a result may be recorded as passed only for
   the digest whose negative test has failed as it should.
2. Connectors and the HR link: a partial pull removes nothing.
3. Deployment: switch of a release, health check, rollback.

## Not modelled

Row level security and grants (a property of PostgreSQL's evaluation of policies,
and of 86 migrations of text), cost, analysis and graph views
(single statements and presentation), the collectors of the agent
(system calls) and signatures, which are taken to be unforgeable. Checks and gates,
connectors, the HR link and deployment run outside of the web in Python and shell; the
plan has them last.

Within the modelled parts:

- Roles are kept where a property tells people apart (owners, auditors, the ciso,
  managers, operators, risk owners); other role checks of a page are taken as passed,
  since a refused request changes nothing.
- Who may be named in a record is checked by the same query everywhere; the models keep
  the check where the name matters later (incidents, deviations, audits, assignments).
- A department has one kind of reference that its deletion would take along (the use of
  systems); the owner department of an asset is left out. Keys of assets and risks do not
  change.
- Wording, formatting, paging, links of pages; the byte, row and column limits of
  files; attached evidence of incidents and its deletion; the removal of the ISO
  framework from a risk; the API `internalManagement.ts` serves to another repository.
- Definitions of posture do not change, and the seed loader only adds to the catalogue.
