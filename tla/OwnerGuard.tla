------------------------------ MODULE OwnerGuard ------------------------------
(***************************************************************************)
(* Members of a tenant, their management roles, and the requests that      *)
(* change them.                                                            *)
(*                                                                         *)
(* Every request is one READ COMMITTED transaction: each statement sees    *)
(* what is committed when it starts plus the request's own writes, a row   *)
(* that was written or locked stays locked until the end, and the deferred *)
(* constraint triggers run just before the commit.  One request of the web *)
(* writes rows of one member only.                                         *)
(***************************************************************************)
EXTENDS Naturals, FiniteSets

CONSTANTS
  Users,     (* ids of app.users, those not registered yet included        *)
  Requests,  (* server actions that may run, each once                     *)
  Roles,     (* role keys; the code's risk_owner and employee decide alike *)
  WebUser,   (* the user of the session token all web requests share       *)
  Ops        (* the server actions this instance of the model exercises    *)

OpKinds == {"saveMemberRole", "saveMembership", "addMember", "setMemberStatus"}

ASSUME OwnerGuardAssumption ==
  /\ WebUser \in Users
  /\ {"ciso", "secretariat", "auditor"} \subseteq Roles
  /\ Ops \subseteq OpKinds

VARIABLES
  status,   (* users.status; suspended and left are both "stopped"         *)
  roles,    (* role keys of the memberships whose revoked_at is null       *)
  pc,       (* the statement each request executes next                    *)
  req,      (* what each request was asked to do                           *)
  seen,     (* rows the snapshot of its UPDATE ... SET revoked_at found    *)
  revoked,  (* memberships of req.user it has revoked                      *)
  granted,  (* memberships of req.user it has inserted or revived          *)
  newStatus,(* the status it has written, "same" if none                   *)
  queued,   (* requests with a deferred assert_owner_remains               *)
  locks     (* advisory and row locks each request holds                   *)

reqVars == <<req, seen, revoked, granted, newStatus, queued, locks>>
vars    == <<status, roles, pc, req, seen, revoked, granted, newStatus, queued, locks>>

Statuses == {"absent", "active", "stopped"}
Phases   == {"idle", "lock", "count", "lock_user", "scan", "revoke", "insert",
             "status", "deferred", "commit", "done"}

RequestKinds == [op : OpKinds, actor : Users, user : Users,
                 role : Roles, to : {"active", "stopped"}]

GuardLock    == <<"owner_guard">>
UserRow(u)   == <<"users", u>>
MemberRow(u, r) == <<"memberships", u, r>>
Locks == {GuardLock} \cup {UserRow(u) : u \in Users}
                     \cup {MemberRow(u, r) : u \in Users, r \in Roles}

TypeOK ==
  /\ status    \in [Users -> Statuses]
  /\ roles     \in [Users -> SUBSET Roles]
  /\ pc        \in [Requests -> Phases]
  /\ req       \in [Requests -> RequestKinds]
  /\ seen      \in [Requests -> SUBSET Roles]
  /\ revoked   \in [Requests -> SUBSET Roles]
  /\ granted   \in [Requests -> SUBSET Roles]
  /\ newStatus \in [Requests -> {"same", "active", "stopped"}]
  /\ queued    \in SUBSET Requests
  /\ locks     \in [Requests -> SUBSET Locks]

(* A tenant as provision_tenant left it, with members added since: one     *)
(* owner, and members without a role conflict.                             *)
Init ==
  /\ status \in [Users -> {"absent", "active"}]
  /\ roles  \in [Users -> {{}} \cup {{r} : r \in Roles}]
  /\ \A u \in Users : (status[u] = "absent") <=> (roles[u] = {})
  /\ status[WebUser] = "active"
  /\ \E u \in Users : roles[u] = {"ciso"}
  /\ pc        = [t \in Requests |-> "idle"]
  /\ req       \in [Requests -> {[op |-> "saveMemberRole", actor |-> WebUser, user |-> WebUser,
                                  role |-> "ciso", to |-> "active"]}]
  /\ seen      = [t \in Requests |-> {}]
  /\ revoked   = [t \in Requests |-> {}]
  /\ granted   = [t \in Requests |-> {}]
  /\ newStatus = [t \in Requests |-> "same"]
  /\ queued    = {}
  /\ locks     = [t \in Requests |-> {}]

-----------------------------------------------------------------------------
(* What a statement of request t sees.                                     *)

StatusSeen(t, u) ==
  IF u = req[t].user /\ newStatus[t] # "same" THEN newStatus[t] ELSE status[u]

RolesSeen(t, u) ==
  IF u = req[t].user THEN (roles[u] \ revoked[t]) \cup granted[t] ELSE roles[u]

(* current_management_role, as far as these operations ask for it.         *)
HasRole(t, u, r) == StatusSeen(t, u) = "active" /\ r \in RolesSeen(t, u)

RoleManage(t)   == HasRole(t, req[t].actor, "ciso")
MemberManage(t) == RoleManage(t) \/ HasRole(t, req[t].actor, "secretariat")

(* The permission guard_org_membership asks for a row with this role key.  *)
MayWriteRow(t, r) == IF r = "ciso" THEN RoleManage(t) ELSE MemberManage(t)

(* Variant: the advisory lock is taken in shared mode.                     *)
Free_SharedGuard(t, lock) ==
  lock = GuardLock \/ \A s \in Requests \ {t} : lock \notin locks[s]

(* A lock of this kind can be taken: locks are exclusive and kept until    *)
(* the transaction ends.                                                   *)
Free(t, lock) == \A s \in Requests \ {t} : lock \notin locks[s]

Take(t, taken) == locks' = [locks EXCEPT ![t] = @ \cup taken]

(* COMMIT, ROLLBACK or an early return: the transaction ends.              *)
End(t) ==
  /\ pc'        = [pc EXCEPT ![t] = "done"]
  /\ seen'      = [seen EXCEPT ![t] = {}]
  /\ revoked'   = [revoked EXCEPT ![t] = {}]
  /\ granted'   = [granted EXCEPT ![t] = {}]
  /\ newStatus' = [newStatus EXCEPT ![t] = "same"]
  /\ queued'    = queued \ {t}
  /\ locks'     = [locks EXCEPT ![t] = {}]
  /\ UNCHANGED req

Goto(t, phase) == pc' = [pc EXCEPT ![t] = phase]

-----------------------------------------------------------------------------
(* The server actions, statement by statement.                             *)

(* set_tenant_context_for_proxy: the shared session must belong to an      *)
(* active member, and so must the person the proxy names.                  *)
ProxyContext(actor) ==
  \A u \in {WebUser, actor} : status[u] = "active" /\ roles[u] # {}

(* require_management_permission, the first statement of each action.      *)
Permitted(r) ==
  LET owner == status[r.actor] = "active" /\ "ciso" \in roles[r.actor]
      admin == status[r.actor] = "active" /\ "secretariat" \in roles[r.actor]
  IN  CASE r.op \in {"saveMemberRole", "saveMembership"} -> owner
        [] r.op = "addMember"       -> owner \/ (admin /\ r.role # "ciso")
        [] r.op = "setMemberStatus" -> (owner \/ admin) /\ r.actor # r.user

FirstPhase(r) ==
  CASE r.op \in {"saveMembership", "addMember"}                  -> "lock_user"
    [] r.op = "saveMemberRole"  /\ r.role = "ciso"               -> "scan"
    [] r.op = "saveMemberRole"  /\ r.role # "ciso"               -> "lock"
    [] r.op = "setMemberStatus" /\ r.to = "active"               -> "status"
    [] r.op = "setMemberStatus" /\ r.to = "stopped"              -> "lock"

(* A request that is refused here changes nothing and may come again.      *)
Begin(t) ==
  /\ pc[t] = "idle"
  /\ \E r \in RequestKinds :
       /\ r.op \in Ops
       /\ r.op = "setMemberStatus" => r.role = "ciso"
       /\ r.op # "setMemberStatus" => r.to = "active"
       /\ ProxyContext(r.actor)
       /\ Permitted(r)
       /\ req' = [req EXCEPT ![t] = r]
       /\ Goto(t, FirstPhase(r))
  /\ UNCHANGED <<status, roles, seen, revoked, granted, newStatus, queued, locks>>

(* lock_owner_guard, called by the action before it counts.                *)
LockOwnerGuard(t) ==
  /\ pc[t] = "lock"
  /\ Free(t, GuardLock)
  /\ Take(t, {GuardLock})
  /\ Goto(t, "count")
  /\ UNCHANGED <<status, roles, req, seen, revoked, granted, newStatus, queued>>

OtherOwners(t) == {u \in Users \ {req[t].user} : HasRole(t, u, "ciso")}

(* The count that answers last_owner before the trigger has to.            *)
CountOwners(t) ==
  /\ pc[t] = "count"
  /\ \/ /\ OtherOwners(t) = {}
        /\ End(t)
     \/ /\ OtherOwners(t) # {}
        /\ Goto(t, IF req[t].op = "saveMemberRole" THEN "scan" ELSE "status")
        /\ UNCHANGED reqVars
  /\ UNCHANGED <<status, roles>>

(* UPDATE ... SET revoked_at takes its snapshot ...                        *)
ScanRoles(t) ==
  /\ pc[t] = "scan"
  /\ seen' = [seen EXCEPT ![t] = RolesSeen(t, req[t].user)]
  /\ Goto(t, "revoke")
  /\ UNCHANGED <<status, roles, req, revoked, granted, newStatus, queued, locks>>

(* A row changed since is re-read: one revoked meanwhile is left alone.    *)
StillUnrevoked(t) == seen[t] \cap roles[req[t].user]

(* ... and waits for the rows it found.  A row that appeared since then is *)
(* not among them.                                                         *)
RevokeRoles(t) ==
  LET u    == req[t].user
      rows == StillUnrevoked(t)
  IN  /\ pc[t] = "revoke"
      /\ \A r \in seen[t] : Free(t, MemberRow(u, r))
      /\ \/ /\ \E r \in rows : ~MayWriteRow(t, r)
            /\ End(t)
         \/ /\ \A r \in rows : MayWriteRow(t, r)
            /\ revoked' = [revoked EXCEPT ![t] = rows]
            /\ queued'  = IF "ciso" \in rows THEN queued \cup {t} ELSE queued
            /\ Take(t, {MemberRow(u, r) : r \in seen[t]})
            /\ Goto(t, "insert")
            /\ UNCHANGED <<req, seen, granted, newStatus>>
      /\ UNCHANGED <<status, roles>>

(* saveMembership locks an active member with SELECT ... FOR UPDATE;       *)
(* addMember inserts the user, unless the address is taken.                *)
LockUser(t) ==
  LET u == req[t].user IN
  /\ pc[t] = "lock_user"
  /\ Free(t, UserRow(u))
  /\ \/ /\ req[t].op = "saveMembership" /\ status[u] = "active"
        /\ UNCHANGED newStatus
        /\ Take(t, {UserRow(u)})
        /\ Goto(t, "insert")
        /\ UNCHANGED <<req, seen, revoked, granted, queued>>
     \/ /\ req[t].op = "addMember" /\ status[u] = "absent" /\ MemberManage(t)
        /\ newStatus' = [newStatus EXCEPT ![t] = "active"]
        /\ Take(t, {UserRow(u)})
        /\ Goto(t, "insert")
        /\ UNCHANGED <<req, seen, revoked, granted, queued>>
     \/ /\ \/ req[t].op = "saveMembership" /\ status[u] # "active"
           \/ req[t].op = "addMember" /\ (status[u] # "absent" \/ ~MemberManage(t))
        /\ End(t)
  /\ UNCHANGED <<status, roles>>

(* check_auditor_exclusivity: no other unrevoked row on the other side.    *)
AuditorExclusive(t, r) ==
  \A k \in RolesSeen(t, req[t].user) : (k = "auditor") <=> (r = "auditor")

(* check_membership_active_user.                                           *)
MemberActive(t) == StatusSeen(t, req[t].user) = "active"

(* Variant: neither trigger locks the row of the user.                     *)
InsertMembership_NoRowLock(t) ==
  LET u == req[t].user
      r == req[t].role
      accepted == AuditorExclusive(t, r) /\ MayWriteRow(t, r) /\ MemberActive(t)
  IN  /\ pc[t] = "insert"
      /\ Free(t, MemberRow(u, r))
      /\ \/ /\ ~accepted
            /\ End(t)
         \/ /\ accepted
            /\ granted' = [granted EXCEPT ![t] = {r}]
            /\ queued'  = IF r = "ciso" /\ r \in RolesSeen(t, u) THEN queued \cup {t} ELSE queued
            /\ Take(t, {MemberRow(u, r)})
            /\ Goto(t, "deferred")
            /\ UNCHANGED <<req, seen, revoked, newStatus>>
      /\ UNCHANGED <<status, roles>>

(* INSERT ... ON CONFLICT DO UPDATE SET revoked_at = NULL with its         *)
(* triggers, which lock the row of the user before they look.              *)
InsertMembership(t) ==
  LET u == req[t].user
      r == req[t].role
      accepted == AuditorExclusive(t, r) /\ MayWriteRow(t, r) /\ MemberActive(t)
  IN  /\ pc[t] = "insert"
      /\ Free(t, UserRow(u))
      /\ Free(t, MemberRow(u, r))
      /\ \/ /\ ~accepted
            /\ End(t)
         \/ /\ accepted
            /\ granted' = [granted EXCEPT ![t] = {r}]
            /\ queued'  = IF r = "ciso" /\ r \in RolesSeen(t, u) THEN queued \cup {t} ELSE queued
            /\ Take(t, {UserRow(u), MemberRow(u, r)})
            /\ Goto(t, "deferred")
            /\ UNCHANGED <<req, seen, revoked, newStatus>>
      /\ UNCHANGED <<status, roles>>

(* UPDATE app.users SET status: locks the row, then guard_org_user.        *)
SetStatus(t) ==
  LET u == req[t].user IN
  /\ pc[t] = "status"
  /\ Free(t, UserRow(u))
  /\ \/ /\ status[u] = "absent" \/ ~MemberManage(t)
        /\ End(t)
     \/ /\ status[u] # "absent" /\ MemberManage(t)
        /\ newStatus' = [newStatus EXCEPT ![t] = req[t].to]
        /\ queued'    = IF status[u] = "active" /\ req[t].to = "stopped"
                          THEN queued \cup {t} ELSE queued
        /\ Take(t, {UserRow(u)})
        /\ Goto(t, "deferred")
        /\ UNCHANGED <<req, seen, revoked, granted>>
  /\ UNCHANGED <<status, roles>>

-----------------------------------------------------------------------------
(* The end of a transaction.                                               *)

OwnerSeen(t)      == \E u \in Users : HasRole(t, u, "ciso")
MembershipSeen(t) == \E u \in Users : RolesSeen(t, u) # {}

(* assert_owner_remains, for the requests whose rows queued it: a tenant   *)
(* with memberships keeps an active owner.                                 *)
AssertOwnerRemains(t) ==
  /\ pc[t] = "deferred"
  /\ \/ /\ t \notin queued
        /\ Goto(t, "commit")
        /\ UNCHANGED reqVars
     \/ /\ t \in queued
        /\ Free(t, GuardLock)
        /\ MembershipSeen(t) /\ ~OwnerSeen(t)
        /\ End(t)
     \/ /\ t \in queued
        /\ Free(t, GuardLock)
        /\ ~MembershipSeen(t) \/ OwnerSeen(t)
        /\ Take(t, {GuardLock})
        /\ Goto(t, "commit")
        /\ UNCHANGED <<req, seen, revoked, granted, newStatus, queued>>
  /\ UNCHANGED <<status, roles>>

Commit(t) ==
  LET u == req[t].user IN
  /\ pc[t] = "commit"
  /\ status' = [status EXCEPT ![u] = StatusSeen(t, u)]
  /\ roles'  = [roles EXCEPT ![u] = RolesSeen(t, u)]
  /\ End(t)

(* A lost connection, a timeout, or the victim of a deadlock.              *)
Rollback(t) ==
  /\ pc[t] \notin {"idle", "done"}
  /\ End(t)
  /\ UNCHANGED <<status, roles>>

-----------------------------------------------------------------------------
Step(t) ==
  \/ Begin(t)
  \/ LockOwnerGuard(t)
  \/ CountOwners(t)
  \/ ScanRoles(t)
  \/ RevokeRoles(t)
  \/ LockUser(t)
  \/ InsertMembership(t)
  \/ SetStatus(t)
  \/ AssertOwnerRemains(t)
  \/ Commit(t)
  \/ Rollback(t)

Next == \E t \in Requests : Step(t)

Spec == Init /\ [][Next]_vars

-----------------------------------------------------------------------------
(* Properties.                                                             *)

(* However requests interleave, the tenant keeps an active owner: two      *)
(* requests that each remove one owner, seeing the other still there,      *)
(* cannot both commit (assert_owner_remains and lock_owner_guard).         *)
OwnerRemains ==
  \E u \in Users : status[u] = "active" /\ "ciso" \in roles[u]

(* Nobody holds the auditor role together with another one, also when the  *)
(* two were granted by concurrent requests (check_auditor_exclusivity).    *)
AuditorStandsAlone ==
  \A u \in Users : "auditor" \in roles[u] => roles[u] = {"auditor"}

(* A role is never granted to a member who is not active when the grant is *)
(* committed, although the request looked earlier                          *)
(* (check_membership_active_user).                                         *)
GrantsToActiveOnly ==
  [][ \A u \in Users : roles'[u] \ roles[u] # {} => status'[u] = "active" ]_vars

(* saveMemberRole is documented to revoke every management role of the     *)
(* member before it sets exactly one.                                      *)
OneRoleEach ==
  \A u \in Users : Cardinality(roles[u]) <= 1

=============================================================================
