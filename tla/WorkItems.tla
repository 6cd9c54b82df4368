------------------------------ MODULE WorkItems ------------------------------
(***************************************************************************)
(* A work item handed to people: its rows of assignees, the mails that     *)
(* tell them, and the asset it is about.  One item, made by saveAssignment *)
(* or before; people hand out work by name or by department.               *)
(***************************************************************************)
EXTENDS RiskRegister, Departments

CONSTANTS
  Managers    (* people whose role is owner, admin or manager              *)

VARIABLES
  item,       (* the work item's status, "none" before it is made, and the *)
              (* asset it is about                                         *)
  assignee,   (* status of each person's row, "none" without one           *)
  mails       (* work_assignment mails queued to each person               *)

workVars == <<item, assignee, mails>>

ItemRow        == <<"work_items">>
AssigneeRow(u) == <<"work_item_assignees", u>>

Finishing == {"completed", "declined", "cancelled"}
RowStatuses == {"requested", "accepted", "in_progress", "submitted"} \cup Finishing

Open       == item.status \notin {"none", "completed", "cancelled"}
Assignees  == {u \in People : assignee[u] # "none"}
Unfinished == {u \in Assignees : assignee[u] \notin Finishing}

WorkTypeOK ==
  /\ item \in [status : RowStatuses \cup {"none"}, target : Assets \cup {None}]
  /\ assignee \in [People -> RowStatuses \cup {"none"}]
  /\ mails \in [People -> Nat]

(* Nobody has a row of an item that is not made yet.                       *)
ASSUME WorkAssumption ==
  \A name \in DOMAIN Plans :
    LET tables == Plans[name].tables
    IN  /\ DOMAIN tables.item = {"status", "target"}
        /\ DOMAIN tables.assignee = People
        /\ tables.item.status = "none" => \A u \in People : tables.assignee[u] = "none"

(* guard_work_item_resource: every write of the item looks its target up.  *)
TargetUsable(a) == a = None \/ asset[a].status = "active"

(* People named by the form, and active members of the departments named.  *)
InDepartments(ds) == {u \in active : \E m \in MembershipsOf(u) : member[m].dept \in ds}

Quiet == UNCHANGED <<plan, active, batches>>

-----------------------------------------------------------------------------
(* saveAssignment and addAssignees.                                        *)

(* What the form offers: active people but auditors, departments somebody  *)
(* is in, active assets.  The box that asks for a mail stays ticked.       *)
Pickable == {[users |-> us, depts |-> ds] : us \in SUBSET (active \ Auditors),
             ds \in SUBSET {d \in DOMAIN dept : InDepartments({d}) # {}}} \ {[users |-> {}, depts |-> {}]}

TargetsOffered == {None} \cup {a \in Assets : asset[a].status = "active"}

(* One item is made.                                                       *)
BeginSaveAssignment(t) ==
  /\ Free(t, "saveAssignment")
  /\ item.status = "none"
  /\ \A s \in Requests : req[s].op # "saveAssignment"
  /\ \E pick \in Pickable, target \in TargetsOffered :
       Begin(t, "saveAssignment", [pick |-> pick, target |-> target], "saveAssignment", <<>>)
  /\ UNCHANGED <<batches, registerVars, organisationVars, workVars>>

Wanted(t) == req[t].arg.pick.users \cup InDepartments(req[t].arg.pick.depts)

(* The departments are expanded now and never again.                       *)
SaveAssignment(t) ==
  /\ At(t, "saveAssignment")
  /\ IF Wanted(t) = {} \/ ~TargetUsable(req[t].arg.target) \/ ~(Wanted(t) \subseteq active)
     THEN Done(t)
     ELSE Goto(t, "commitAssignment", <<>>, Wanted(t))
  /\ Quiet /\ UNCHANGED <<registerVars, organisationVars, workVars>>

(* A mail to each new row's person.                                        *)
AddRows(users, told) ==
  /\ assignee' = [u \in People |-> IF u \in users THEN "requested" ELSE assignee[u]]
  /\ mails'    = [u \in People |-> IF u \in told THEN mails[u] + 1 ELSE mails[u]]

CommitAssignment(t) ==
  /\ At(t, "commitAssignment")
  /\ item' = [status |-> "requested", target |-> req[t].arg.target]
  /\ AddRows(req[t].saw, req[t].saw)
  /\ Done(t)
  /\ Quiet /\ UNCHANGED <<registerVars, organisationVars>>

(* Variant: the item is read without FOR UPDATE.                           *)
AddLocks_None == <<>>

AddLocks == <<Lock(Update, ItemRow)>>

BeginAddAssignees(t) ==
  /\ Free(t, "addAssignees")
  /\ Open
  /\ \E pick \in Pickable :
       Begin(t, "addAssignees", [pick |-> pick], "addAssignees", AddLocks)
  /\ UNCHANGED <<batches, registerVars, organisationVars, workVars>>

(* People who have a row already keep it; a person stopped since makes the *)
(* trigger of the rows refuse everything.                                  *)
AddAssignees(t) ==
  /\ At(t, "addAssignees")
  /\ IF ~Open \/ Wanted(t) = {} \/ ~(Wanted(t) \subseteq active)
     THEN Done(t)
     ELSE \E order \in SetToSeqs(Wanted(t)) :
            Goto(t, "commitAssignees",
                 [i \in DOMAIN order |-> Lock(Update, AssigneeRow(order[i]))], Wanted(t))
  /\ Quiet /\ UNCHANGED <<registerVars, organisationVars, workVars>>

CommitAssignees(t) ==
  /\ At(t, "commitAssignees")
  /\ AddRows(req[t].saw \ Assignees, req[t].saw \ Assignees)
  /\ Done(t)
  /\ Quiet /\ UNCHANGED <<registerVars, organisationVars, item>>

-----------------------------------------------------------------------------
(* removeAssignee: the others are counted without a lock; there must be    *)
(* one.                                                                    *)

BeginRemoveAssignee(t) ==
  /\ Free(t, "removeAssignee")
  /\ Open
  /\ \E u \in Assignees :
       /\ Assignees # {u}
       /\ Begin(t, "removeAssignee", u, "removeAssignee", <<Lock(Update, AssigneeRow(u))>>)
  /\ UNCHANGED <<batches, registerVars, organisationVars, workVars>>

RemoveAssignee(t) ==
  /\ At(t, "removeAssignee")
  /\ assignee' = [assignee EXCEPT ![req[t].arg] = "none"]
  /\ Done(t)
  /\ Quiet /\ UNCHANGED <<registerVars, organisationVars, item, mails>>

-----------------------------------------------------------------------------
(* cancelAssignment: the item, then the rows that were not finished when   *)
(* the second statement started.                                           *)

BeginCancelAssignment(t) ==
  /\ Open
  /\ Begin(t, "cancelAssignment", None, "cancelAssignment", <<Lock(Write, ItemRow)>>)
  /\ UNCHANGED <<batches, registerVars, organisationVars, workVars>>

CancelAssignment(t) ==
  /\ At(t, "cancelAssignment")
  /\ IF ~Open \/ ~TargetUsable(item.target)
     THEN Done(t)
     ELSE \E order \in SetToSeqs(Unfinished) :
            Goto(t, "cancelRows", [i \in DOMAIN order |-> Lock(Write, AssigneeRow(order[i]))], Unfinished)
  /\ Quiet /\ UNCHANGED <<registerVars, organisationVars, workVars>>

(* A row that got finished while it was waited for is left; a row of a     *)
(* person who was stopped makes the trigger refuse the cancellation.       *)
CancelRows(t) ==
  /\ At(t, "cancelRows")
  /\ LET rows == req[t].saw \cap Unfinished
     IN  IF rows \subseteq active
         THEN /\ item' = [item EXCEPT !.status = "cancelled"]
              /\ assignee' = [u \in People |-> IF u \in rows THEN "cancelled" ELSE assignee[u]]
         ELSE UNCHANGED <<item, assignee>>
  /\ Done(t)
  /\ Quiet /\ UNCHANGED <<registerVars, organisationVars, mails>>

-----------------------------------------------------------------------------
(* updateAssignment: a person reports on the row of their own.             *)

BeginUpdateAssignment(t) ==
  /\ Free(t, "updateAssignment")
  /\ Open
  /\ \E u \in Assignees, status \in RowStatuses :
       Begin(t, "updateAssignment", [user |-> u, status |-> status], "updateAssignment", <<>>)
  /\ UNCHANGED <<batches, registerVars, organisationVars, workVars>>

(* require_work_item_permission('status'), read without a lock.            *)
MayReport(u) ==
  /\ u \in active
  /\ u \in Managers \/ (Open /\ u \in Unfinished)

UpdateAssignment(t) ==
  /\ At(t, "updateAssignment")
  /\ IF MayReport(req[t].arg.user)
     THEN Goto(t, "reportRow", <<Lock(Write, AssigneeRow(req[t].arg.user))>>, None)
     ELSE Done(t)
  /\ Quiet /\ UNCHANGED <<registerVars, organisationVars, workVars>>

(* The row is written.  Whether all rows are finished is decided by what   *)
(* is committed now, before the item's row is waited for.                  *)
ReportRow(t) ==
  /\ At(t, "reportRow")
  /\ LET u == req[t].arg.user
     IN  IF u \in Assignees /\ u \in active
         THEN Goto(t, "reportItem", <<Lock(Write, ItemRow)>>,
                   req[t].arg.status \in Finishing /\ Unfinished \subseteq {u})
         ELSE Done(t)
  /\ Quiet /\ UNCHANGED <<registerVars, organisationVars, workVars>>

ReportItem(t) ==
  /\ At(t, "reportItem")
  /\ LET status == req[t].arg.status
     IN  IF TargetUsable(item.target)
         THEN /\ assignee' = [assignee EXCEPT ![req[t].arg.user] = status]
              /\ item' = [item EXCEPT !.status =
                            CASE req[t].saw -> "completed"
                              [] ~req[t].saw /\ status \in {"in_progress", "submitted"} -> status
                              [] OTHER -> @]
         ELSE UNCHANGED <<item, assignee>>
  /\ Done(t)
  /\ Quiet /\ UNCHANGED <<registerVars, organisationVars, mails>>

-----------------------------------------------------------------------------
WorkStep(t) ==
  \/ BeginSaveAssignment(t) \/ SaveAssignment(t) \/ CommitAssignment(t)
  \/ BeginAddAssignees(t) \/ AddAssignees(t) \/ CommitAssignees(t)
  \/ BeginRemoveAssignee(t) \/ RemoveAssignee(t)
  \/ BeginCancelAssignment(t) \/ CancelAssignment(t) \/ CancelRows(t)
  \/ BeginUpdateAssignment(t) \/ UpdateAssignment(t) \/ ReportRow(t) \/ ReportItem(t)
=============================================================================
