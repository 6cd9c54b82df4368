------------------------------- MODULE Incidents -------------------------------
(***************************************************************************)
(* Incidents: saveIncident registers one or edits one, with the risk it    *)
(* relates to and the risk owner it is assigned to.  A row is named by the *)
(* transaction that made it.  The risk a row names is in uses, where the   *)
(* undo of an import of risks looks.                                       *)
(***************************************************************************)
EXTENDS RiskRegister, Departments

VARIABLE incident   (* its assignee, and the transaction that resolved it  *)

IncidentRow(i) == <<"incident", i>>

IncidentsTypeOK ==
  /\ DOMAIN incident \subseteq Stamps
  /\ \A i \in DOMAIN incident : /\ incident[i].assignee \in People \cup {None}
                                /\ incident[i].resolved \in Stamps \cup {None}

(* The incidents of a plan are those of earlier transactions; NULL is the  *)
(* id of none.                                                             *)
ASSUME IncidentsAssumption ==
  \A name \in DOMAIN Plans :
    \A i \in DOMAIN Plans[name].tables.incident : i # None /\ i \in Stamps \ Requests

RiskOf(i) == IF IncidentRow(i) \in DOMAIN uses THEN uses[IncidentRow(i)] ELSE None

Ownership(u) == <<u, "risk_owner">>

Eligible(u) == u \in active /\ ~member[Ownership(u)].revoked

(* Variant: the check reads the membership and the user without locks.     *)
OwnerLocks_None(u) == <<>>

(* SELECT ... FOR UPDATE OF mem, u                                         *)
OwnerLocks(u) == <<Lock(Update, MemberRow(Ownership(u))), Lock(Update, UserRow(u))>>

(* What the forms say: nobody or anybody who was offered when the page was *)
(* shown, no risk or one that was active then; an edit keeps the risk.     *)
RisksOffered == {None} \cup {r \in Risks : risk[r].status = "active"}

IncidentForms(i, risks) ==
  [id : {i}, assignee : Plan.owners, risk : risks, closed : BOOLEAN]

(* What is written next: the row is locked when it exists.                 *)
WriteLock(i) == IF i = None THEN <<>> ELSE <<Lock(Write, IncidentRow(i))>>

BeginRegisterIncident(t) ==
  /\ \E form \in IncidentForms(None, RisksOffered) :
       IF form.assignee = None
       THEN Begin(t, "saveIncident", form, "writeIncident", <<>>)
       ELSE Eligible(form.assignee) /\ Begin(t, "saveIncident", form, "checkOwner", OwnerLocks(form.assignee))
  /\ UNCHANGED <<batches, registerVars, organisationVars, incident>>

BeginEditIncident(t) ==
  /\ \E i \in DOMAIN incident : \E form \in IncidentForms(i, RisksOffered \cup {RiskOf(i)}) :
       IF form.assignee = None
       THEN Begin(t, "saveIncident", form, "writeIncident", WriteLock(i))
       ELSE Begin(t, "saveIncident", form, "readIncident", <<Lock(Update, IncidentRow(i))>>)
  /\ UNCHANGED <<batches, registerVars, organisationVars, incident>>

(* The assignee it has already is not examined: somebody who left stays.   *)
ReadIncident(t) ==
  /\ At(t, "readIncident")
  /\ LET form == req[t].arg
     IN  IF incident[form.id].assignee = form.assignee
         THEN Goto(t, "writeIncident", WriteLock(form.id), None)
         ELSE IF Eligible(form.assignee)
              THEN Goto(t, "checkOwner", OwnerLocks(form.assignee), None)
              ELSE Done(t)
  /\ UNCHANGED <<plan, active, batches, registerVars, organisationVars, incident>>

(* The rows are examined again when their locks are granted.               *)
CheckOwner(t) ==
  /\ At(t, "checkOwner")
  /\ IF Eligible(req[t].arg.assignee)
     THEN Goto(t, "writeIncident", WriteLock(req[t].arg.id), None)
     ELSE Done(t)
  /\ UNCHANGED <<plan, active, batches, registerVars, organisationVars, incident>>

(* The foreign key of a risk that is newly named.                          *)
WriteIncident(t) ==
  /\ At(t, "writeIncident")
  /\ LET form == req[t].arg
         old  == IF form.id = None THEN None ELSE RiskOf(form.id)
     IN  IF form.risk \in {None, old}
         THEN Goto(t, "commitIncident", <<>>, None)
         ELSE Goto(t, "referIncident", <<Lock(Key, RiskRow(form.risk))>>, None)
  /\ UNCHANGED <<plan, active, batches, registerVars, organisationVars, incident>>

ReferIncident(t) ==
  /\ At(t, "referIncident")
  /\ Goto(t, "commitIncident", <<>>, None)
  /\ UNCHANGED <<plan, active, batches, registerVars, organisationVars, incident>>

(* The time of the first resolution stays until the incident is reopened.  *)
CommitIncident(t) ==
  /\ At(t, "commitIncident")
  /\ LET form  == req[t].arg
         i     == IF form.id = None THEN t ELSE form.id
         since == IF form.id = None \/ incident[i].resolved = None THEN t ELSE incident[i].resolved
     IN  /\ incident' = WithRow(incident, i, [assignee |-> form.assignee,
                                              resolved |-> IF form.closed THEN since ELSE None])
         /\ uses' = IF form.risk = None THEN Restrict(uses, DOMAIN uses \ {IncidentRow(i)})
                                        ELSE WithRow(uses, IncidentRow(i), form.risk)
  /\ Done(t)
  /\ UNCHANGED <<plan, active, batches, system, asset, risk, evaluations, organisationVars>>

-----------------------------------------------------------------------------
IncidentStep(t) ==
  \/ BeginRegisterIncident(t) \/ BeginEditIncident(t)
  \/ ReadIncident(t) \/ CheckOwner(t) \/ WriteIncident(t) \/ ReferIncident(t) \/ CommitIncident(t)
=============================================================================
