------------------------------- MODULE StepPage -------------------------------
(***************************************************************************)
(* The page of the steps: it reads seven facts at the same time, each in a *)
(* transaction of its own, and says of every step how much of what it      *)
(* needs is there.  The catalogue is loaded anew and the registers change  *)
(* meanwhile; the session may end between two of the reads.                *)
(***************************************************************************)
EXTENDS IsoSteps, PolicyDrafts, Changes, Journals, StandingRecords, Training

VARIABLE
  catalogue   (* what the seed loader left in the schema catalog           *)

Facts == {"counts", "policyBodies", "calendarKeys", "roleKeys", "annexA", "verifiedCheckRuns", "registers"}

(* What the catalogue is counted by, and the counts over tables that no    *)
(* module of this project keeps.                                           *)
CountKeys == {"asset_classes", "risk_criteria", "risk_scenario_templates", "risk_template_controls",
              "connector_manifests", "checks"}
OtherKeys == {"measures", "competencies", "scopeStatement", "scopeApprovals", "soaControls"}

OtherRegisters == Plan.tables.otherRegisters

(* Every key is counted, and the controls with a well-formed code are some *)
(* of the controls.                                                        *)
WellCounted(facts) ==
  /\ "counts" \in DOMAIN facts => CountKeys \subseteq DOMAIN facts.counts
  /\ "annexA" \in DOMAIN facts =>
       /\ DOMAIN facts.annexA = {"total", "wellFormed"}
       /\ facts.annexA.total \in Nat /\ facts.annexA.wellFormed \in 0..facts.annexA.total

ASSUME CatalogueAssumption ==
  \A name \in DOMAIN Plans :
    LET tables == Plans[name].tables
    IN  /\ DOMAIN tables.otherRegisters \subseteq OtherKeys
        /\ "stepPage" \in Plans[name].ops =>
             /\ OtherKeys \subseteq DOMAIN tables.otherRegisters
             /\ Facts \ {"registers"} \subseteq DOMAIN tables.catalogue
             /\ \A facts \in Plans[name].seeds \cup {tables.catalogue} : WellCounted(facts)

(* getRegisterFacts: what is in force, held, approved or done; not what    *)
(* was cancelled, retired, planned or found to be no vulnerability.        *)
ActiveRows(kind) == {s \in Rows(kind) : standing[s].active}

RegisterFacts ==
  Over([assets            |-> Cardinality({a \in Assets : asset[a].status = "active"}),
        risks             |-> Cardinality({r \in Risks : risk[r].status = "active"}),
        trainings         |-> Cardinality({k[1] : k \in DOMAIN record}),
        approvedPolicyVersions |->
          Cardinality({v \in UNION {{p} \X Numbers(p) : p \in DOMAIN policy} :
                         policy[v[1]][v[2]].state \in {"approved", "current"}}),
        roleAssignments   |-> Cardinality({m \in Memberships : ~member[m].revoked}),
        tenantPolicies    |-> Cardinality(DOMAIN policy),
        audits            |-> Cardinality({a \in Entries("audit") : journal[a].day = "past"}),
        auditFindings     |-> Cardinality(DOMAIN finding),
        correctiveActions |-> Cardinality(DOMAIN corrective),
        managementReviews |-> IF review # None /\ review.held = "past" THEN 1 ELSE 0,
        securityObjectives |-> Cardinality(ActiveRows("objective")),
        controlEffectiveness |-> Cardinality({e \in Entries("effectiveness") : journal[e].of \in IsoMeasures}),
        contextIssues     |-> Cardinality(ActiveRows("issue")),
        interestedParties |-> Cardinality(ActiveRows("party")),
        legalRequirements |-> Cardinality(ActiveRows("legal")),
        continuityPlans   |-> Cardinality(ActiveRows("plan")),
        continuityTests   |-> Cardinality(DOMAIN tests),
        vulnerabilities   |-> Cardinality({v \in DOMAIN vulnerability : vulnerability[v] # "false_positive"}),
        changeRequests    |-> Cardinality({c \in DOMAIN change : change[c].status # "cancelled"})],
       OtherRegisters)

(* What a read of a fact returns: the two that need a tenant are null when *)
(* the session is refused.                                                 *)
ReadFact(name) ==
  CASE name = "registers"         -> {RegisterFacts, Unread}
    [] name = "verifiedCheckRuns" -> {catalogue.verifiedCheckRuns, Unread}
    [] OTHER                      -> {catalogue[name]}

-----------------------------------------------------------------------------
(* The seed loader runs, in one transaction.                               *)
SeedLoads ==
  /\ "stepPage" \in plan.ops
  /\ \E seed \in Plan.seeds : catalogue' = Over(seed, catalogue)
  /\ UNCHANGED <<plan, active, requestVars>>

(* Pages only read: one at a time is enough.                               *)
BeginStepPage(t) ==
  /\ \A s \in Requests : req[s].op # "stepPage"
  /\ Begin(t, "stepPage", None, "readFacts", <<>>)
  /\ UNCHANGED catalogue

Known(t) == IF req[t].saw = None THEN <<>> ELSE req[t].saw

(* getStepBundle, one of its reads.                                        *)
ReadOneFact(t) ==
  /\ At(t, "readFacts")
  /\ \E name \in Facts \ DOMAIN Known(t) : \E value \in ReadFact(name) :
       LET known == WithRow(Known(t), name, value)
       IN  Goto(t, IF DOMAIN known = Facts THEN "showSteps" ELSE "readFacts", <<>>, known)
  /\ UNCHANGED <<plan, active, catalogue>>

ShowSteps(t) ==
  /\ At(t, "showSteps")
  /\ Done(t)
  /\ UNCHANGED <<plan, active, catalogue>>

StepPageStep(t) == BeginStepPage(t) \/ ReadOneFact(t) \/ ShowSteps(t)

-----------------------------------------------------------------------------
(* The statuses, from the worst to the best.                               *)
Rank(status) == CASE status = "none" -> 0 [] status = "partial" -> 1 [] status = "usable" -> 2

(* The same facts with one thing less in them, or with one unread.         *)
Less(facts) ==
  LET bodies == facts.policyBodies
  IN  {[facts EXCEPT !.counts[k] = n] : k \in DOMAIN facts.counts, n \in {0, Unread}}
      \cup {[facts EXCEPT !.policyBodies = Restrict(bodies, DOMAIN bodies \ {k})] : k \in DOMAIN bodies}
      \cup {[facts EXCEPT !.policyBodies[k] = FALSE] : k \in DOMAIN bodies}
      \cup {[facts EXCEPT !.calendarKeys = @ \ {k}] : k \in facts.calendarKeys}
      \cup {[facts EXCEPT !.roleKeys = @ \ {k}] : k \in facts.roleKeys}
      \cup {[facts EXCEPT !.annexA = shape] :
              shape \in {[total |-> 0, wellFormed |-> 0], [facts.annexA EXCEPT !.total = Unread],
                         [facts.annexA EXCEPT !.total = @ + 1]}}
      \cup {[facts EXCEPT !.verifiedCheckRuns = n] : n \in {0, Unread}}
      \cup {[facts EXCEPT !.registers = Unread]}
      \cup (IF facts.registers = Unread THEN {}
            ELSE {[facts EXCEPT !.registers[k] = n] : k \in DOMAIN facts.registers, n \in {0, Unread}})
=============================================================================
