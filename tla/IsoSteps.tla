------------------------------- MODULE IsoSteps -------------------------------
(***************************************************************************)
(* The twelve steps of running an ISMS: what each of them needs, and how   *)
(* far it is said to be from the facts that were read.  A tool is a        *)
(* reference (a rule or a template) or a record (what the company did).    *)
(* Counts matter by whether they are 0; None is what could not be read, or *)
(* is not a count.                                                         *)
(***************************************************************************)
EXTENDS Naturals, FiniteSets

CONSTANT Unread   (* null, or a value that isCount refuses                 *)

(* Where a tool is looked for.                                             *)
From(kind, keys) == [kind |-> kind, keys |-> keys]
Count(key)       == From("count", {key})
InRegister(key)    == From("register", {key})

Needs(role, source) == [role |-> role, required |-> TRUE, source |-> source]
Helps(role, source) == [role |-> role, required |-> FALSE, source |-> source]

Step(tools, policyKeys, calendarKeys, roleKeys) ==
  [tools |-> tools, policyKeys |-> policyKeys, calendarKeys |-> calendarKeys, roleKeys |-> roleKeys]

ALL_ROLE_KEYS == {"ciso", "secretariat", "risk_owner", "auditor", "employee"}

-----------------------------------------------------------------------------
(* ISO_STEPS.                                                              *)

StepScope ==
  Step({Needs("reference", From("policies", {"p02_scope"})),
        Needs("record", InRegister("scopeStatement")),
        Needs("record", InRegister("scopeApprovals")),
        Helps("record", InRegister("contextIssues")),
        Helps("record", InRegister("interestedParties"))},
       {"p02_scope"}, {}, {"ciso", "secretariat"})

StepPolicy ==
  Step({Needs("reference", From("policies", {"p01_basic", "p03_org"})),
        Needs("reference", From("roles", ALL_ROLE_KEYS)),
        Needs("record", InRegister("approvedPolicyVersions")),
        Needs("record", InRegister("roleAssignments")),
        Needs("record", InRegister("securityObjectives"))},
       {"p01_basic", "p03_org"}, {}, {"ciso", "secretariat"})

StepAssets ==
  Step({Needs("reference", Count("asset_classes")),
        Needs("reference", From("policies", {"p06_asset"})),
        Needs("record", InRegister("assets"))},
       {"p06_asset"}, {}, {"secretariat", "risk_owner"})

StepRiskAssessment ==
  Step({Needs("reference", Count("risk_criteria")),
        Needs("reference", Count("risk_scenario_templates")),
        Needs("reference", From("policies", {"p04_ra"})),
        Helps("reference", From("calendar", {"annual_risk"})),
        Needs("record", InRegister("risks"))},
       {"p04_ra"}, {"annual_risk"}, {"ciso", "secretariat", "risk_owner"})

StepSoa ==
  Step({Needs("reference", From("annexA", {})),
        Needs("reference", From("policies", {"p05_rt_soa"})),
        Helps("reference", Count("risk_template_controls")),
        Needs("record", InRegister("soaControls"))},
       {"p05_rt_soa"}, {}, {"ciso", "secretariat", "risk_owner"})

StepDocuments ==
  Step({Needs("reference", From("policies", {"p07_access", "p09_physical", "p10_technical", "p11_vendor", "p12_incident"})),
        Needs("record", InRegister("tenantPolicies"))},
       {"p07_access", "p09_physical", "p10_technical", "p11_vendor", "p12_incident", "p13_docs", "p19_change",
        "p20_crypto", "p21_log", "p22_vuln", "p23_dev", "p24_cloud", "p25_remote", "p26_privacy", "p27_legal",
        "p28_ai"}, {}, {"ciso", "secretariat"})

StepTraining ==
  Step({Needs("reference", From("policies", {"p08_people"})),
        Needs("reference", From("calendar", {"annual_training", "event_onboarding"})),
        Needs("record", InRegister("trainings")),
        Needs("record", InRegister("competencies"))},
       {"p08_people", "p14_awareness"}, {"annual_training", "event_onboarding"}, {"secretariat", "employee"})

OperationEvents == {"monthly_accounts", "monthly_endpoints", "quarterly_sharing", "quarterly_restore",
                    "semiannual_vendors", "event_offboarding"}

StepOperate ==
  Step({Needs("reference", From("calendar", OperationEvents)),
        Helps("reference", Count("connector_manifests")),
        Needs("record", InRegister("measures"))}
       \cup {Helps("record", InRegister(key)) :
               key \in {"legalRequirements", "continuityPlans", "continuityTests", "vulnerabilities", "changeRequests"}},
       {}, OperationEvents, {"secretariat", "risk_owner", "employee"})

StepMonitor ==
  Step({Needs("reference", Count("checks")),
        Needs("reference", From("calendar", {"daily_checks"})),
        Needs("record", From("verifiedCheckRuns", {})),
        Needs("record", InRegister("controlEffectiveness"))},
       {"p15_monitor"}, {"daily_checks"}, {"secretariat"})

StepAudit ==
  Step({Needs("reference", From("calendar", {"annual_audit"})),
        Needs("reference", From("roles", {"auditor"})),
        Needs("record", InRegister("audits")),
        Needs("record", InRegister("auditFindings"))},
       {"p16_audit"}, {"annual_audit"}, {"auditor", "secretariat"})

StepManagementReview ==
  Step({Needs("reference", From("calendar", {"annual_review"})),
        Needs("record", InRegister("managementReviews"))},
       {"p17_review"}, {"annual_review"}, {"ciso", "secretariat"})

StepImprove ==
  Step({Needs("reference", From("calendar", {"weekly_findings", "quarterly_deviation"})),
        Needs("record", InRegister("auditFindings")),
        Needs("record", InRegister("correctiveActions"))},
       {"p18_nc"}, {"weekly_findings", "quarterly_deviation"}, {"ciso", "secretariat", "risk_owner"})

ISO_STEPS ==
  <<StepScope, StepPolicy, StepAssets, StepRiskAssessment, StepSoa, StepDocuments,
    StepTraining, StepOperate, StepMonitor, StepAudit, StepManagementReview, StepImprove>>

Keys(source, kind) == IF source.kind = kind THEN source.keys ELSE {}

(* What the unit tests demand of the steps: each needs a reference and a   *)
(* record, no policy or event belongs to two steps, and every role has a   *)
(* part.  Besides, the tools of a step ask for its own policies and events.*)
ASSUME StepsAreWellFormed ==
  /\ \A i \in DOMAIN ISO_STEPS :
       /\ \A role \in {"reference", "record"} :
            \E tool \in ISO_STEPS[i].tools : tool.role = role /\ tool.required
       /\ \A tool \in ISO_STEPS[i].tools :
            /\ Keys(tool.source, "policies") \subseteq ISO_STEPS[i].policyKeys
            /\ Keys(tool.source, "calendar") \subseteq ISO_STEPS[i].calendarKeys
  /\ \A i, j \in DOMAIN ISO_STEPS :
       i # j => /\ ISO_STEPS[i].policyKeys \cap ISO_STEPS[j].policyKeys = {}
                /\ ISO_STEPS[i].calendarKeys \cap ISO_STEPS[j].calendarKeys = {}
  /\ UNION {ISO_STEPS[i].roleKeys : i \in DOMAIN ISO_STEPS} = ALL_ROLE_KEYS

-----------------------------------------------------------------------------
(* resolveTool.                                                            *)

Counted(n) == IF n = Unread THEN "unreadable" ELSE IF n > 0 THEN "present" ELSE "empty"

Listed(keys, known) ==
  IF keys \cap known = {} THEN "empty" ELSE IF keys \subseteq known THEN "present" ELSE "placeholder"

Substantive(bodies) == {k \in DOMAIN bodies : bodies[k]}

(* Variant: the policies that are there are compared with one another, not *)
(* with those that are needed.                                             *)
PoliciesReady_OfKnown(keys, bodies) ==
  keys \cap DOMAIN bodies \subseteq Substantive(bodies)

(* Every policy that is needed is there, with a body.                      *)
PoliciesReady(keys, bodies) == keys \subseteq Substantive(bodies)

AnnexAShape(total, wellFormed) ==
  IF total = Unread \/ wellFormed = Unread THEN "unreadable"
  ELSE IF wellFormed # total THEN "malformed"
  ELSE IF total = 0 THEN "empty" ELSE "present"

TheKey(source) == CHOOSE key \in source.keys : TRUE

resolveTool(source, facts) ==
  CASE source.kind = "unbuilt"  -> "unbuilt"
    [] source.kind = "count"    -> Counted(facts.counts[TheKey(source)])
    [] source.kind = "policies" -> IF source.keys \cap DOMAIN facts.policyBodies = {} THEN "empty"
                                   ELSE IF PoliciesReady(source.keys, facts.policyBodies) THEN "present"
                                   ELSE "placeholder"
    [] source.kind = "calendar" -> Listed(source.keys, facts.calendarKeys)
    [] source.kind = "roles"    -> Listed(source.keys, facts.roleKeys)
    [] source.kind = "annexA"   -> AnnexAShape(facts.annexA.total, facts.annexA.wellFormed)
    [] source.kind = "verifiedCheckRuns" -> Counted(facts.verifiedCheckRuns)
    [] source.kind = "register" -> IF facts.registers = Unread THEN "unreadable"
                                   ELSE Counted(facts.registers[TheKey(source)])

-----------------------------------------------------------------------------
(* assessStep: none of what is needed, all of it, or some.                 *)

Ready(step, role, facts) ==
  LET needed == {tool \in step.tools : tool.required /\ tool.role = role}
  IN  needed # {} /\ \A tool \in needed : resolveTool(tool.source, facts) = "present"

missingRequired(step, facts) ==
  {tool \in step.tools : tool.required /\ resolveTool(tool.source, facts) # "present"}

assessStep(step, facts) ==
  IF missingRequired(step, facts) = {tool \in step.tools : tool.required} THEN "none"
  ELSE IF Ready(step, "reference", facts) /\ Ready(step, "record", facts) THEN "usable"
  ELSE "partial"

hasUnreadable(step, facts) == \E tool \in step.tools : resolveTool(tool.source, facts) = "unreadable"

(* The heading of a step: partial is told apart by what is missing.        *)
statusLabel(step, facts) ==
  LET status == assessStep(step, facts)
  IN  IF status = "partial" /\ Ready(step, "reference", facts) /\ ~Ready(step, "record", facts)
      THEN "references only" ELSE status

(* diffAssignment, of the policies: in the database but of no step, and of *)
(* a step but not in the database.                                         *)
diffAssignment(facts) ==
  LET assigned == UNION {ISO_STEPS[i].policyKeys : i \in DOMAIN ISO_STEPS}
  IN  [inDbOnly |-> DOMAIN facts.policyBodies \ assigned, inConfigOnly |-> assigned \ DOMAIN facts.policyBodies]
=============================================================================
