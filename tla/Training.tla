------------------------------- MODULE Training -------------------------------
(***************************************************************************)
(* Completions of one course, fetched from the eLearning system and judged *)
(* by the secretariat, and the competence of people that cites them as     *)
(* evidence.  A completion is its fiscal year and everything else its hash *)
(* covers; a record stands for a person and a year.                        *)
(***************************************************************************)
EXTENDS Requests, SequencesExt

CONSTANTS
  Completions   (* <<fiscal year, what the row of the response says>>      *)

VARIABLES
  portal,       (* the eLearning system: the row of each learner, None if  *)
                (* it says that the course is not completed                *)
  record,       (* training_records by <<year, person>>: the completion,   *)
                (* its evaluation, and the completion that was evaluated   *)
  fulfilment    (* the competence of each person: status and cited year    *)

trainingVars == <<portal, record, fulfilment>>

CourseRow(y)      == <<"trainings", y>>
RecordRow(k)      == <<"training_records", k>>
FulfilmentRow(u)  == <<"competency_fulfillments", u>>

Evaluations == {"effective", "review", "excluded"}
Levels == {"fulfilled", "developing", "unfulfilled"}

fiscalYear(c) == c[1]

TrainingTypeOK ==
  /\ DOMAIN portal \subseteq People
  /\ \A u \in DOMAIN portal : portal[u] \in Completions \cup {None}
  /\ \A k \in DOMAIN record :
       /\ record[k].completion \in Completions /\ fiscalYear(record[k].completion) = k[1]
       /\ record[k].evaluation \in Evaluations \cup {"none"}
  /\ \A u \in DOMAIN fulfilment :
       /\ fulfilment[u].status \in Levels
       /\ fulfilment[u].year = None \/ <<fulfilment[u].year, u>> \in DOMAIN record

(* Before: what was judged effective was judged as it is, and evidence that *)
(* is cited is there.                                                      *)
ASSUME TrainingAssumption ==
  \A name \in DOMAIN Plans :
    LET tables == Plans[name].tables
    IN  /\ \A k \in DOMAIN tables.record :
             /\ k = <<k[1], k[2]>>
             /\ DOMAIN tables.record[k] = {"completion", "evaluation", "judged"}
             /\ tables.record[k].evaluation = "effective" => tables.record[k].judged = tables.record[k].completion
        /\ \A u \in DOMAIN tables.fulfilment :
             LET year == tables.fulfilment[u].year
             IN  year # None => <<year, u>> \in DOMAIN tables.record

(* People take the course, take it again, or their completion is withdrawn.*)
PortalChanges ==
  /\ "syncElearningCompletions" \in plan.ops
  /\ \E u \in DOMAIN portal, c \in Completions \cup {None} : portal' = [portal EXCEPT ![u] = c]
  /\ UNCHANGED <<plan, active, requestVars, record, fulfilment>>

-----------------------------------------------------------------------------
(* syncElearningCompletions.                                               *)

(* The response is fetched before the transaction starts.                  *)
BeginSync(t) ==
  /\ \E order \in SetToSeqs(DOMAIN portal) :
       Begin(t, "syncElearningCompletions", [order |-> order, rows |-> portal], "matchUsers", <<>>)
  /\ UNCHANGED trainingVars

(* Rows that are completed and whose address is that of one active user;   *)
(* a row that is not completed is deferred: nothing tells which year of    *)
(* the course it takes back (invalidationTarget).                          *)
Imports(t) == SelectSeq(req[t].arg.order, LAMBDA u : req[t].arg.rows[u] # None /\ u \in active)

KeyOf(t, u) == <<fiscalYear(req[t].arg.rows[u]), u>>

(* INSERT ... ON CONFLICT DO UPDATE of the course and then of the record,  *)
(* for one row of the response after the other.                            *)
RowLocks(t, u) ==
  <<Lock(Write, CourseRow(KeyOf(t, u)[1])),
    Lock(IF KeyOf(t, u) \in DOMAIN record THEN Write ELSE Update, RecordRow(KeyOf(t, u)))>>

MatchUsers(t) ==
  /\ At(t, "matchUsers")
  /\ Goto(t, "importRows", FlattenSeq([i \in DOMAIN Imports(t) |-> RowLocks(t, Imports(t)[i])]), Imports(t))
  /\ UNCHANGED <<plan, active, trainingVars>>

(* Variant: the evaluation stays whatever the response says.               *)
Evaluation_Kept(k, c) ==
  IF k \in DOMAIN record THEN [evaluation |-> record[k].evaluation, judged |-> record[k].judged]
                         ELSE [evaluation |-> "none", judged |-> None]

(* The evaluation stays while the hash is the same.                        *)
Evaluation(k, c) ==
  IF k \in DOMAIN record /\ record[k].completion = c
  THEN [evaluation |-> record[k].evaluation, judged |-> record[k].judged]
  ELSE [evaluation |-> "none", judged |-> None]

ImportRows(t) ==
  /\ At(t, "importRows")
  /\ LET rows     == req[t].arg.rows
         imported == {KeyOf(t, u) : u \in ToSet(req[t].saw)}
         Row(k)   == [completion |-> rows[k[2]],
                      evaluation |-> Evaluation(k, rows[k[2]]).evaluation,
                      judged     |-> Evaluation(k, rows[k[2]]).judged]
     IN  record' = [k \in DOMAIN record \cup imported |-> IF k \in imported THEN Row(k) ELSE record[k]]
  /\ Done(t)
  /\ UNCHANGED <<plan, active, portal, fulfilment>>

-----------------------------------------------------------------------------
(* The record is evaluated, whatever it says by then.                      *)
EvaluateTrainingRecord(t) ==
  /\ \E k \in DOMAIN record, e \in Evaluations :
       /\ Once(t, "evaluateTrainingRecord", Lock(Write, RecordRow(k)))
       /\ record' = [record EXCEPT ![k].evaluation = e, ![k].judged = record[k].completion]
  /\ UNCHANGED <<portal, fulfilment>>

(* saveFulfillment reads the evidence without a lock: it has to be judged  *)
(* effective then.                                                         *)
Evidence(u) == {k[1] : k \in {k \in DOMAIN record : k[2] = u /\ record[k].evaluation = "effective"}}

BeginSaveFulfillment(t) ==
  /\ \E u \in DOMAIN fulfilment, s \in Levels : \E y \in Evidence(u) \cup {None} :
       Begin(t, "saveFulfillment", [user |-> u, status |-> s, year |-> y], "saveFulfillment",
             <<Lock(Write, FulfilmentRow(u))>>)
  /\ UNCHANGED trainingVars

SaveFulfillment(t) ==
  /\ At(t, "saveFulfillment")
  /\ fulfilment' = [fulfilment EXCEPT ![req[t].arg.user] =
                      [status |-> req[t].arg.status, year |-> req[t].arg.year]]
  /\ Done(t)
  /\ UNCHANGED <<plan, active, portal, record>>

(* getCompetencyWorkspace shows a competence as fulfilled: evidence that   *)
(* is cited is looked at again.                                            *)
ShownFulfilled(u) ==
  /\ fulfilment[u].status = "fulfilled"
  /\ fulfilment[u].year # None => record[<<fulfilment[u].year, u>>].evaluation = "effective"

-----------------------------------------------------------------------------
TrainingStep(t) ==
  \/ BeginSync(t) \/ MatchUsers(t) \/ ImportRows(t)
  \/ EvaluateTrainingRecord(t)
  \/ BeginSaveFulfillment(t) \/ SaveFulfillment(t)
=============================================================================
