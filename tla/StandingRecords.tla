--------------------------- MODULE StandingRecords ---------------------------
(***************************************************************************)
(* Records that stand until they are retired: issues of the context,       *)
(* interested parties, legal requirements, objectives and continuity       *)
(* plans, and the tests of a plan.  Within a kind the name is unique,      *)
(* retired rows included, and rows are never deleted.  A row is named by   *)
(* its kind and the transaction that made it.                              *)
(***************************************************************************)
EXTENDS Requests, Functions, SequencesExt

CONSTANTS
  Names,      (* names of standing records                                 *)
  Wordings    (* what a record may say besides its name                    *)

VARIABLES
  standing,   (* rows: active, name, wording and the judgement: what was   *)
              (* judged at the last review or assessment                   *)
  tests       (* tests by id: the plan they are of                         *)

standingVars == <<standing, tests>>

StandingRow(s) == <<"standing", s>>

Kinds == {"issue", "party", "legal", "objective", "plan"}

Rows(kind) == {s \in DOMAIN standing : s[1] = kind}

NameTaken(kind, name) == \E s \in Rows(kind) : standing[s].name = name

(* What a review or an assessment is about.                                *)
Said(s) == <<standing[s].name, standing[s].wording>>

StandingTypeOK ==
  /\ \A s \in DOMAIN standing :
       /\ s \in Kinds \X (Requests \cup {Before})
       /\ standing[s] \in [active : BOOLEAN, name : Names, wording : Wordings,
                           judged : (Names \X Wordings) \cup {None}]
  /\ Range(tests) \subseteq Rows("plan")

-----------------------------------------------------------------------------
(* What one does with a record; each is one statement on its row.          *)

(* A name that is taken: the savepoint is rolled back and nothing is made. *)
Save(t, op, kind) ==
  /\ Free(t, op)
  /\ \E name \in Names, wording \in Wordings :
       /\ Once(t, op, Lock(Update, <<"standing_name", kind, name>>))
       /\ standing' = IF NameTaken(kind, name) THEN standing
                      ELSE WithRow(standing, <<kind, t>>, [active |-> TRUE, name |-> name, wording |-> wording,
                                                          judged |-> None])
  /\ UNCHANGED tests

(* A judgement of something else is no judgement of what it says now.      *)
Judgement(s, said) == IF said = Said(s) THEN standing[s].judged ELSE None

Edit(t, op, kind) ==
  /\ Free(t, op)
  /\ \E s \in Rows(kind), name \in Names, wording \in Wordings :
       /\ Once(t, op, Lock(Write, StandingRow(s)))
       /\ standing' =
            IF standing[s].active /\ (name # standing[s].name => ~NameTaken(kind, name))
            THEN [standing EXCEPT ![s] = [active |-> TRUE, name |-> name, wording |-> wording,
                                          judged |-> Judgement(s, <<name, wording>>)]]
            ELSE standing
  /\ UNCHANGED tests

Judge(t, op, kind) ==
  /\ Free(t, op)
  /\ \E s \in Rows(kind) :
       /\ Once(t, op, Lock(Write, StandingRow(s)))
       /\ standing' = IF standing[s].active THEN [standing EXCEPT ![s].judged = Said(s)] ELSE standing
  /\ UNCHANGED tests

SetActive(t, op, kind, to) ==
  /\ Free(t, op)
  /\ \E s \in Rows(kind) :
       /\ Once(t, op, Lock(Write, StandingRow(s)))
       /\ standing' = [standing EXCEPT ![s].active = to]
  /\ UNCHANGED tests

-----------------------------------------------------------------------------
(* The server actions.                                                     *)

SaveContextIssue(t)      == Save(t, "saveContextIssue", "issue")
SaveInterestedParty(t)   == Save(t, "saveInterestedParty", "party")
SaveLegalRequirement(t)  == Save(t, "saveLegalRequirement", "legal")
SaveContinuityPlan(t)    == Save(t, "saveContinuityPlan", "plan")
SaveObjective(t)         == Save(t, "saveObjective", "objective")

UpdateContextIssue(t)     == Edit(t, "updateContextIssue", "issue")
UpdateInterestedParty(t)  == Edit(t, "updateInterestedParty", "party")
UpdateLegalRequirement(t) == Edit(t, "updateLegalRequirement", "legal")
UpdateContinuityPlan(t)   == Edit(t, "updateContinuityPlan", "plan")

ReviewContext(t)          == \E kind \in {"issue", "party"} : Judge(t, "reviewContext", kind)
AssessLegalRequirement(t) == Judge(t, "assessLegalRequirement", "legal")
EvaluateObjective(t)      == Judge(t, "evaluateObjective", "objective")

RetireContext(t)              == \E kind \in {"issue", "party"} : SetActive(t, "retireContext", kind, FALSE)
ReactivateContext(t)          == \E kind \in {"issue", "party"} : SetActive(t, "reactivateContext", kind, TRUE)
RetireLegalRequirement(t)     == SetActive(t, "retireLegalRequirement", "legal", FALSE)
ReactivateLegalRequirement(t) == SetActive(t, "reactivateLegalRequirement", "legal", TRUE)
RetireContinuityPlan(t)       == SetActive(t, "retireContinuityPlan", "plan", FALSE)
ReactivateContinuityPlan(t)   == SetActive(t, "reactivateContinuityPlan", "plan", TRUE)

-----------------------------------------------------------------------------
(* recordContinuityTest: tests are of plans that are active.               *)

TestLocks(s) == <<Lock(Share, StandingRow(s))>>

BeginRecordContinuityTest(t) ==
  /\ \E s \in Rows("plan") :
       standing[s].active /\ Begin(t, "recordContinuityTest", s, "recordContinuityTest", TestLocks(s))
  /\ UNCHANGED standingVars

RecordContinuityTest(t) ==
  /\ At(t, "recordContinuityTest")
  /\ IF standing[req[t].arg].active THEN Goto(t, "commitTest", <<>>, None) ELSE Done(t)
  /\ UNCHANGED <<plan, active, standingVars>>

CommitTest(t) ==
  /\ At(t, "commitTest")
  /\ tests' = WithRow(tests, t, req[t].arg)
  /\ Done(t)
  /\ UNCHANGED <<plan, active, standing>>

-----------------------------------------------------------------------------
StandingStep(t) ==
  \/ SaveContextIssue(t) \/ SaveInterestedParty(t) \/ SaveLegalRequirement(t)
  \/ SaveContinuityPlan(t) \/ SaveObjective(t)
  \/ UpdateContextIssue(t) \/ UpdateInterestedParty(t) \/ UpdateLegalRequirement(t) \/ UpdateContinuityPlan(t)
  \/ ReviewContext(t) \/ AssessLegalRequirement(t) \/ EvaluateObjective(t)
  \/ RetireContext(t) \/ ReactivateContext(t) \/ RetireLegalRequirement(t) \/ ReactivateLegalRequirement(t)
  \/ RetireContinuityPlan(t) \/ ReactivateContinuityPlan(t)
  \/ BeginRecordContinuityTest(t) \/ RecordContinuityTest(t) \/ CommitTest(t)
=============================================================================
