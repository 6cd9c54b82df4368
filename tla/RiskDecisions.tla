---------------------------- MODULE RiskDecisions ----------------------------
(***************************************************************************)
(* What is decided about a risk on its page: its acceptance, bound to the  *)
(* newest evaluations and to a policy in force, and deviations, which are  *)
(* requested, approved and closed.  The forms name no operation, so an     *)
(* operation is what the form says (managementIntent): sent again, it is   *)
(* answered with the receipt of the first time.  Rows are named by the     *)
(* transaction that made them; the risk of a deviation is in uses.         *)
(***************************************************************************)
EXTENDS Incidents, PolicyDrafts

VARIABLES
  today,        (* days are numbered; an evaluation may be of one to come  *)
  acceptances,  (* risk_acceptances, with the operation they were made by  *)
  deviation     (* what was requested and by whom, status, not expired yet *)

decisionVars == <<today, acceptances, deviation>>

DeviationRow(d) == <<"deviation", d>>
OperationLock(op, asked) == Lock(Update, <<"operation", op, asked>>)

(* The unique index on the risk and the number of its evaluations.         *)
AcceptanceLock(r, n) == Lock(Update, <<"risk_acceptances", r, n>>)

Accepts == [risk : Risks, residual : DOMAIN evaluations, inherent : DOMAIN evaluations,
            policy : {<<p, n>> : p \in DOMAIN policy, n \in 1..MaxVersion}]

DecisionsTypeOK ==
  /\ today \in Nat
  /\ \A x \in DOMAIN acceptances :
       /\ acceptances[x].asked \in Accepts
       /\ acceptances[x].version \in Nat /\ acceptances[x].day \in 1..today
  /\ \A d \in DOMAIN deviation :
       deviation[d] \in [asked : [risk : Risks, owner : People], by : People,
                         status : {"requested", "open", "closed"}, live : BOOLEAN]

(* Time: a day that an evaluation was planned for comes, and deviations    *)
(* reach the day they lapse.  Nothing in the repository calls              *)
(* expire_management_deviations, so their status stays.                    *)
DayPasses ==
  /\ \E e \in DOMAIN evaluations : evaluations[e].day > today
  /\ today' = today + 1
  /\ UNCHANGED <<acceptances, deviation>>

DeviationLapses ==
  /\ \E d \in DOMAIN deviation :
       /\ deviation[d].live /\ deviation[d].status # "closed"
       /\ deviation' = [deviation EXCEPT ![d].live = FALSE]
  /\ UNCHANGED <<today, acceptances>>

-----------------------------------------------------------------------------
(* acceptRisk.                                                             *)

ActiveRisks == {r \in Risks : risk[r].status = "active"}

(* The newest residual risk as of a day, with the newest inherent one of   *)
(* the day it was assessed on.                                             *)
ToAccept(r, day) ==
  UNION {{<<e, i>> : i \in NewestEvaluation(r, "inherent", {evaluations[e].day})} :
         e \in NewestEvaluation(r, "after_measure", 1..day)}

(* Policy versions that can be cited: approved, in force, not superseded.  *)
Citable == UNION {{<<p, n>> : n \in Current(p)} : p \in DOMAIN policy}

BeginAcceptRisk(t) ==
  /\ Free(t, "acceptRisk")
  /\ Chiefs \cap active # {}
  /\ \E r \in ActiveRisks : \E pair \in ToAccept(r, today), v \in Citable :
       Begin(t, "acceptRisk", [risk |-> r, residual |-> pair[1], inherent |-> pair[2], policy |-> v],
             "acceptRisk", <<>>)
  /\ UNCHANGED <<batches, registerVars, organisationVars, incident, policy, decisionVars>>

(* The transaction keeps the day it starts on.                             *)
AcceptRisk(t) ==
  /\ At(t, "acceptRisk")
  /\ IF req[t].arg.policy \in Citable
     THEN Goto(t, "acceptOperation", <<OperationLock("acceptRisk", req[t].arg)>>, today)
     ELSE Done(t)
  /\ UNCHANGED <<plan, active, batches, registerVars, organisationVars, incident, policy, decisionVars>>

(* The receipt is returned, or refused to anybody else.                    *)
AcceptOperation(t) ==
  /\ At(t, "acceptOperation")
  /\ IF \E x \in DOMAIN acceptances : acceptances[x].asked = req[t].arg
     THEN Done(t)
     ELSE Goto(t, "approveAcceptance", <<Lock(Frozen, EvaluationTable)>>, req[t].saw)
  /\ UNCHANGED <<plan, active, batches, registerVars, organisationVars, incident, policy, decisionVars>>

AsShown(t) == <<req[t].arg.residual, req[t].arg.inherent>> \in ToAccept(req[t].arg.risk, req[t].saw)

ApproveAcceptance(t) ==
  /\ At(t, "approveAcceptance")
  /\ IF AsShown(t) /\ req[t].arg.policy \in Citable
     THEN Goto(t, "acceptSnapshot",
               <<Lock(Key, RiskRow(req[t].arg.risk)), Lock(Key, VersionRow(req[t].arg.policy[1], req[t].arg.policy[2]))>>,
               req[t].saw)
     ELSE Done(t)
  /\ UNCHANGED <<plan, active, batches, registerVars, organisationVars, incident, policy, decisionVars>>

(* The evaluations are examined again.                                     *)
AcceptSnapshot(t) ==
  /\ At(t, "acceptSnapshot")
  /\ LET asked   == req[t].arg
         version == Cardinality(EvaluationsOf(asked.risk))
     IN  IF AsShown(t) /\ evaluations[asked.residual].level <= evaluations[asked.inherent].level
         THEN Goto(t, "recordAcceptance", <<AcceptanceLock(asked.risk, version)>>, [day |-> req[t].saw, version |-> version])
         ELSE Done(t)
  /\ UNCHANGED <<plan, active, batches, registerVars, organisationVars, incident, policy, decisionVars>>

RecordAcceptance(t) ==
  /\ At(t, "recordAcceptance")
  /\ LET new == Over([asked |-> req[t].arg], req[t].saw)
     IN  acceptances' = IF \E x \in DOMAIN acceptances : /\ acceptances[x].asked.risk = new.asked.risk
                                                         /\ acceptances[x].version = new.version
                        THEN acceptances
                        ELSE WithRow(acceptances, t, new)
  /\ Done(t)
  /\ UNCHANGED <<plan, active, batches, registerVars, organisationVars, incident, policy, today, deviation>>

-----------------------------------------------------------------------------
(* Deviations.                                                             *)

(* Both are examined without a lock: the owner may stop being one.         *)
BeginRequestDeviation(t) ==
  /\ Free(t, "requestDeviation")
  /\ \E r \in ActiveRisks, u, by \in People :
       /\ Eligible(u) /\ Eligible(by)
       /\ Begin(t, "requestDeviation", [asked |-> [risk |-> r, owner |-> u], by |-> by], "requestDeviation", <<>>)
  /\ UNCHANGED <<batches, registerVars, organisationVars, incident, policy, decisionVars>>

RequestDeviation(t) ==
  /\ At(t, "requestDeviation")
  /\ IF Eligible(req[t].arg.by) /\ Eligible(req[t].arg.asked.owner)
     THEN Goto(t, "insertDeviation", <<OperationLock("requestDeviation", req[t].arg.asked)>>, None)
     ELSE Done(t)
  /\ UNCHANGED <<plan, active, batches, registerVars, organisationVars, incident, policy, decisionVars>>

InsertDeviation(t) ==
  /\ At(t, "insertDeviation")
  /\ IF \E d \in DOMAIN deviation : deviation[d].asked = req[t].arg.asked
     THEN Done(t)
     ELSE Goto(t, "linkDeviation",
               <<Lock(Key, UserRow(req[t].arg.asked.owner)), Lock(Key, UserRow(req[t].arg.by)),
                 Lock(Key, RiskRow(req[t].arg.asked.risk))>>, None)
  /\ UNCHANGED <<plan, active, batches, registerVars, organisationVars, incident, policy, decisionVars>>

LinkDeviation(t) ==
  /\ At(t, "linkDeviation")
  /\ Goto(t, "commitDeviation", <<>>, None)
  /\ UNCHANGED <<plan, active, batches, registerVars, organisationVars, incident, policy, decisionVars>>

CommitDeviation(t) ==
  /\ At(t, "commitDeviation")
  /\ deviation' = WithRow(deviation, t,
                       [asked |-> req[t].arg.asked, by |-> req[t].arg.by, status |-> "requested", live |-> TRUE])
  /\ uses' = WithRow(uses, DeviationRow(t), req[t].arg.asked.risk)
  /\ Done(t)
  /\ UNCHANGED <<plan, active, batches, system, asset, risk, evaluations, organisationVars, incident, policy,
                 today, acceptances>>

(* What the page offers: approval to a chief who did not ask for it, then  *)
(* to close it to the owner and the chiefs.                                *)
MayApprove(d, u) ==
  deviation[d].status = "requested" /\ u \in Chiefs \cap active /\ u # deviation[d].by

MayClose(d, u) ==
  deviation[d].status = "open" /\ u \in {deviation[d].asked.owner} \cup (Chiefs \cap active)

(* Whether it has lapsed is told by the time the transaction starts, and   *)
(* who may approve before the locks are waited for.                        *)
BeginDecideDeviation(t) ==
  /\ \E op \in {"approveDeviation", "closeDeviation"}, d \in DOMAIN deviation, u \in active :
       /\ IF op = "approveDeviation" THEN MayApprove(d, u) ELSE MayClose(d, u)
       /\ Begin(t, op, [id |-> d, by |-> u, live |-> deviation[d].live], "decideDeviation",
                <<OperationLock(op, d), Lock(Update, DeviationRow(d))>>)
  /\ UNCHANGED <<batches, registerVars, organisationVars, incident, policy, decisionVars>>

DecideDeviation(t) ==
  /\ At(t, "decideDeviation")
  /\ LET form == req[t].arg
         next == IF req[t].op = "closeDeviation" /\ MayClose(form.id, form.by) THEN "closed"
                 ELSE IF req[t].op = "approveDeviation" /\ deviation[form.id].status = "requested" THEN "open"
                 ELSE deviation[form.id].status
     IN  deviation' = IF form.live THEN [deviation EXCEPT ![form.id].status = next] ELSE deviation
  /\ Done(t)
  /\ UNCHANGED <<plan, active, batches, registerVars, organisationVars, incident, policy, today, acceptances>>

-----------------------------------------------------------------------------
DecisionStep(t) ==
  \/ BeginAcceptRisk(t) \/ AcceptRisk(t) \/ AcceptOperation(t) \/ ApproveAcceptance(t)
  \/ AcceptSnapshot(t) \/ RecordAcceptance(t)
  \/ BeginRequestDeviation(t) \/ RequestDeviation(t) \/ InsertDeviation(t) \/ LinkDeviation(t) \/ CommitDeviation(t)
  \/ BeginDecideDeviation(t) \/ DecideDeviation(t)
=============================================================================
