--------------------------- MODULE OwnerGuardProofs ---------------------------
(***************************************************************************)
(* Proofs about the member requests, for any number of users, roles and    *)
(* concurrent requests.                                                    *)
(***************************************************************************)
EXTENDS OwnerGuard, TLAPS

(* No lock has two holders.                                                *)
LocksExclusive ==
  \A s, t \in Requests, l \in Locks : l \in locks[s] /\ l \in locks[t] => s = t

(* Nothing is pending before the statement that writes it.                 *)
Pending ==
  \A t \in Requests :
    /\ pc[t] \notin {"insert", "deferred", "commit"} => revoked[t] = {}
    /\ pc[t] \notin {"deferred", "commit"} => granted[t] = {}
    /\ pc[t] = "idle" => newStatus[t] = "same" /\ t \notin queued

(* A written status, and a granted role, keep the row of the user locked.  *)
UserRowHeld ==
  \A t \in Requests :
    newStatus[t] # "same" \/ granted[t] # {} => UserRow(req[t].user) \in locks[t]

(* Taking an owner away queues the trigger.                                *)
Removes(t) ==
  \/ "ciso" \in revoked[t]
  \/ newStatus[t] = "stopped" /\ status[req[t].user] = "active"

RemovalsQueued == \A t \in Requests : Removes(t) => t \in queued

(* What was revoked is replaced before the end of the transaction.         *)
Replaced ==
  \A t \in Requests :
    pc[t] \in {"deferred", "commit"} /\ revoked[t] # {} => granted[t] # {}

(* A request whose trigger has run holds the advisory lock and still sees  *)
(* an owner.                                                               *)
Checked ==
  \A t \in Requests :
    pc[t] = "commit" /\ t \in queued => GuardLock \in locks[t] /\ OwnerSeen(t)

OwnerInv ==
  /\ TypeOK
  /\ LocksExclusive
  /\ Pending
  /\ UserRowHeld
  /\ RemovalsQueued
  /\ Replaced
  /\ Checked
  /\ OwnerRemains

SameSide(S) == \A k, l \in S : (k = "auditor") <=> (l = "auditor")

(* The roles of a member are on one side of the auditor line, those a      *)
(* request is about to leave included, and a grant still meets an active   *)
(* member.                                                                 *)
GrantInv ==
  /\ \A u \in Users : SameSide(roles[u])
  /\ \A t \in Requests : granted[t] # {} =>
       /\ SameSide(RolesSeen(t, req[t].user))
       /\ StatusSeen(t, req[t].user) = "active"

-----------------------------------------------------------------------------
LEMMA InitTypes == Init => TypeOK
<1> SUFFICES ASSUME Init PROVE TypeOK
  OBVIOUS
<1> USE OwnerGuardAssumption
<1>1. status \in [Users -> Statuses] /\ roles \in [Users -> SUBSET Roles]
  <2>1. {"absent", "active"} \subseteq Statuses
    BY DEF Statuses
  <2>2. {{}} \cup {{r} : r \in Roles} \subseteq SUBSET Roles
    OBVIOUS
  <2>3. /\ status \in [Users -> {"absent", "active"}]
        /\ roles \in [Users -> {{}} \cup {{r} : r \in Roles}]
    BY DEF Init
  <2> QED
    BY <2>1, <2>2, <2>3
<1>2. pc \in [Requests -> Phases]
  BY Zenon DEF Init, Phases
<1>3. req \in [Requests -> RequestKinds]
  <2>1. [op |-> "saveMemberRole", actor |-> WebUser, user |-> WebUser,
         role |-> "ciso", to |-> "active"] \in RequestKinds
    BY DEF RequestKinds, OpKinds
  <2> QED
    BY <2>1, Zenon DEF Init
<1>4. /\ seen \in [Requests -> SUBSET Roles]
      /\ revoked \in [Requests -> SUBSET Roles]
      /\ granted \in [Requests -> SUBSET Roles]
  BY Zenon DEF Init
<1>5. newStatus \in [Requests -> {"same", "active", "stopped"}]
  BY Zenon DEF Init
<1>6. queued \in SUBSET Requests /\ locks \in [Requests -> SUBSET Locks]
  BY Zenon DEF Init
<1> QED
  BY <1>1, <1>2, <1>3, <1>4, <1>5, <1>6 DEF TypeOK

LEMMA LockNames ==
  /\ GuardLock \in Locks
  /\ \A u \in Users : UserRow(u) \in Locks
  /\ \A u \in Users, r \in Roles : MemberRow(u, r) \in Locks
BY DEF Locks

(* What the end of a transaction does to the pending writes.               *)
LEMMA EndTypes ==
  ASSUME TypeOK, NEW t \in Requests, End(t)
  PROVE  /\ pc' \in [Requests -> Phases]
         /\ req' \in [Requests -> RequestKinds]
         /\ seen' \in [Requests -> SUBSET Roles]
         /\ revoked' \in [Requests -> SUBSET Roles]
         /\ granted' \in [Requests -> SUBSET Roles]
         /\ newStatus' \in [Requests -> {"same", "active", "stopped"}]
         /\ queued' \in SUBSET Requests
         /\ locks' \in [Requests -> SUBSET Locks]
<1>1. "done" \in Phases
  BY DEF Phases
<1> QED
  BY <1>1 DEF TypeOK, End

LEMMA RolesSeenType ==
  ASSUME TypeOK, NEW t \in Requests, NEW u \in Users
  PROVE  RolesSeen(t, u) \in SUBSET Roles
BY DEF TypeOK, RolesSeen

LEMMA StatusSeenType ==
  ASSUME TypeOK, NEW t \in Requests, NEW u \in Users
  PROVE  StatusSeen(t, u) \in Statuses
<1>1. newStatus[t] \in {"same", "active", "stopped"} /\ status[u] \in Statuses
  BY DEF TypeOK
<1> QED
  BY <1>1 DEF StatusSeen, Statuses

LEMMA TakeTypes ==
  ASSUME TypeOK, NEW t \in Requests, NEW taken \in SUBSET Locks, Take(t, taken)
  PROVE  locks' \in [Requests -> SUBSET Locks]
BY DEF TypeOK, Take

LEMMA GotoTypes ==
  ASSUME TypeOK, NEW t \in Requests, NEW phase \in Phases, Goto(t, phase)
  PROVE  pc' \in [Requests -> Phases]
BY DEF TypeOK, Goto

-----------------------------------------------------------------------------
(* Type correctness.                                                       *)

LEMMA StepTypes ==
  ASSUME TypeOK, NEW t \in Requests, Step(t)
  PROVE  TypeOK'
<1> DEFINE u == req[t].user
<1>0. req[t] \in RequestKinds /\ u \in Users /\ req[t].role \in Roles
      /\ req[t].to \in {"active", "stopped"}
  BY DEF TypeOK, RequestKinds
<1>p. /\ "count" \in Phases /\ "scan" \in Phases /\ "status" \in Phases
      /\ "revoke" \in Phases /\ "insert" \in Phases /\ "deferred" \in Phases
      /\ "commit" \in Phases /\ "lock" \in Phases /\ "lock_user" \in Phases
  BY DEF Phases
<1> HIDE DEF u
<1>1. CASE Begin(t)
  <2>1. PICK r \in RequestKinds :
          /\ r.op \in Ops
          /\ r.op = "setMemberStatus" => r.role = "ciso"
          /\ r.op # "setMemberStatus" => r.to = "active"
          /\ Permitted(r)
          /\ req' = [req EXCEPT ![t] = r]
          /\ Goto(t, FirstPhase(r))
    BY <1>1 DEF Begin
  <2>2. FirstPhase(r) \in Phases
    <3>1. r.op \in OpKinds /\ r.to \in {"active", "stopped"}
      BY DEF RequestKinds
    <3> QED
      BY <3>1, <1>p DEF FirstPhase, OpKinds
  <2>3. pc' \in [Requests -> Phases]
    BY <2>1, <2>2, GotoTypes
  <2>4. req' \in [Requests -> RequestKinds]
    BY <2>1 DEF TypeOK
  <2> QED
    BY <1>1, <2>3, <2>4 DEF Begin, TypeOK
<1>2. CASE LockOwnerGuard(t)
  <2>1. locks' \in [Requests -> SUBSET Locks]
    BY <1>2, TakeTypes, LockNames DEF LockOwnerGuard
  <2>2. pc' \in [Requests -> Phases]
    BY <1>2, <1>p, GotoTypes DEF LockOwnerGuard
  <2> QED
    BY <1>2, <2>1, <2>2 DEF LockOwnerGuard, TypeOK
<1>3. CASE CountOwners(t)
  <2>1. CASE End(t)
    BY <1>3, <2>1, EndTypes DEF CountOwners, TypeOK
  <2>2. CASE /\ Goto(t, IF req[t].op = "saveMemberRole" THEN "scan" ELSE "status")
             /\ UNCHANGED reqVars
    <3>1. pc' \in [Requests -> Phases]
      BY <2>2, <1>p, GotoTypes
    <3> QED
      BY <1>3, <2>2, <3>1 DEF CountOwners, TypeOK, reqVars
  <2> QED
    BY <1>3, <2>1, <2>2 DEF CountOwners
<1>4. CASE ScanRoles(t)
  <2>1. seen' \in [Requests -> SUBSET Roles]
    BY <1>0, <1>4, RolesSeenType DEF ScanRoles, TypeOK, u
  <2>2. pc' \in [Requests -> Phases]
    BY <1>4, <1>p, GotoTypes DEF ScanRoles
  <2> QED
    BY <1>4, <2>1, <2>2 DEF ScanRoles, TypeOK
<1>5. CASE RevokeRoles(t)
  <2>1. CASE End(t)
    BY <1>5, <2>1, EndTypes DEF RevokeRoles, TypeOK
  <2>2. CASE ~End(t)
    <3>1. /\ revoked' = [revoked EXCEPT ![t] = StillUnrevoked(t)]
          /\ queued'  = IF "ciso" \in StillUnrevoked(t) THEN queued \cup {t} ELSE queued
          /\ Take(t, {MemberRow(u, r) : r \in seen[t]})
          /\ Goto(t, "insert")
          /\ UNCHANGED <<status, roles, req, seen, granted, newStatus>>
      BY <1>5, <2>2 DEF RevokeRoles, u
    <3>2. seen[t] \in SUBSET Roles
      BY DEF TypeOK
    <3>3. StillUnrevoked(t) \in SUBSET Roles
      BY <3>2 DEF StillUnrevoked
    <3>4. {MemberRow(u, r) : r \in seen[t]} \in SUBSET Locks
      BY <1>0, <3>2, LockNames
    <3>5. locks' \in [Requests -> SUBSET Locks]
      BY <3>1, <3>4, TakeTypes
    <3>6. pc' \in [Requests -> Phases]
      BY <3>1, <1>p, GotoTypes
    <3> QED
      BY <3>1, <3>3, <3>5, <3>6 DEF TypeOK
  <2> QED
    BY <2>1, <2>2
<1>6. CASE LockUser(t)
  <2>1. CASE End(t)
    BY <1>6, <2>1, EndTypes DEF LockUser, TypeOK
  <2>2. CASE ~End(t)
    <3>1. /\ newStatus' = newStatus \/ newStatus' = [newStatus EXCEPT ![t] = "active"]
          /\ Take(t, {UserRow(u)})
          /\ Goto(t, "insert")
          /\ UNCHANGED <<status, roles, req, seen, revoked, granted, queued>>
      BY <1>6, <2>2 DEF LockUser, u
    <3>2. newStatus' \in [Requests -> {"same", "active", "stopped"}]
      BY <3>1 DEF TypeOK
    <3>3. {UserRow(u)} \in SUBSET Locks
      BY <1>0, LockNames
    <3>4. locks' \in [Requests -> SUBSET Locks]
      BY <3>1, <3>3, TakeTypes
    <3>5. pc' \in [Requests -> Phases]
      BY <3>1, <1>p, GotoTypes
    <3> QED
      BY <3>1, <3>2, <3>4, <3>5 DEF TypeOK
  <2> QED
    BY <2>1, <2>2
<1>7. CASE InsertMembership(t)
  <2>1. CASE End(t)
    BY <1>7, <2>1, EndTypes DEF InsertMembership, TypeOK
  <2>2. CASE ~End(t)
    <3>1. /\ granted' = [granted EXCEPT ![t] = {req[t].role}]
          /\ queued' = queued \cup {t} \/ queued' = queued
          /\ Take(t, {UserRow(u), MemberRow(u, req[t].role)})
          /\ Goto(t, "deferred")
          /\ UNCHANGED <<status, roles, req, seen, revoked, newStatus>>
      BY <1>7, <2>2 DEF InsertMembership, u
    <3>2. granted' \in [Requests -> SUBSET Roles]
      BY <3>1, <1>0 DEF TypeOK
    <3>3. {UserRow(u), MemberRow(u, req[t].role)} \in SUBSET Locks
      BY <1>0, LockNames
    <3>4. locks' \in [Requests -> SUBSET Locks]
      BY <3>1, <3>3, TakeTypes
    <3>5. pc' \in [Requests -> Phases]
      BY <3>1, <1>p, GotoTypes
    <3> QED
      BY <3>1, <3>2, <3>4, <3>5 DEF TypeOK
  <2> QED
    BY <2>1, <2>2
<1>8. CASE SetStatus(t)
  <2>1. CASE End(t)
    BY <1>8, <2>1, EndTypes DEF SetStatus, TypeOK
  <2>2. CASE ~End(t)
    <3>1. /\ newStatus' = [newStatus EXCEPT ![t] = req[t].to]
          /\ queued' = queued \cup {t} \/ queued' = queued
          /\ Take(t, {UserRow(u)})
          /\ Goto(t, "deferred")
          /\ UNCHANGED <<status, roles, req, seen, revoked, granted>>
      BY <1>8, <2>2 DEF SetStatus, u
    <3>2. newStatus' \in [Requests -> {"same", "active", "stopped"}]
      BY <3>1, <1>0 DEF TypeOK
    <3>3. {UserRow(u)} \in SUBSET Locks
      BY <1>0, LockNames
    <3>4. locks' \in [Requests -> SUBSET Locks]
      BY <3>1, <3>3, TakeTypes
    <3>5. pc' \in [Requests -> Phases]
      BY <3>1, <1>p, GotoTypes
    <3> QED
      BY <3>1, <3>2, <3>4, <3>5 DEF TypeOK
  <2> QED
    BY <2>1, <2>2
<1>9. CASE AssertOwnerRemains(t)
  <2>1. CASE End(t)
    BY <1>9, <2>1, EndTypes DEF AssertOwnerRemains, TypeOK
  <2>2. CASE ~End(t)
    <3>1. /\ Goto(t, "commit")
          /\ locks' = locks \/ Take(t, {GuardLock})
          /\ UNCHANGED <<status, roles, req, seen, revoked, granted, newStatus, queued>>
      BY <1>9, <2>2 DEF AssertOwnerRemains, reqVars
    <3>2. locks' \in [Requests -> SUBSET Locks]
      BY <3>1, TakeTypes, LockNames DEF TypeOK
    <3>3. pc' \in [Requests -> Phases]
      BY <3>1, <1>p, GotoTypes
    <3> QED
      BY <3>1, <3>2, <3>3 DEF TypeOK
  <2> QED
    BY <2>1, <2>2
<1>10. CASE Commit(t)
  <2>1. status' \in [Users -> Statuses]
    BY <1>0, <1>10, StatusSeenType DEF Commit, TypeOK, u
  <2>2. roles' \in [Users -> SUBSET Roles]
    BY <1>0, <1>10, RolesSeenType DEF Commit, TypeOK, u
  <2> QED
    BY <1>10, <2>1, <2>2, EndTypes DEF Commit, TypeOK
<1>11. CASE Rollback(t)
  BY <1>11, EndTypes DEF Rollback, TypeOK
<1> QED
  BY <1>1, <1>2, <1>3, <1>4, <1>5, <1>6, <1>7, <1>8, <1>9, <1>10, <1>11 DEF Step

(* Every member, request and lock keeps the shape the tables give it.      *)
THEOREM TypeCorrect == Spec => []TypeOK
<1>1. Init => TypeOK
  BY InitTypes
<1>2. TypeOK /\ [Next]_vars => TypeOK'
  <2> SUFFICES ASSUME TypeOK, [Next]_vars PROVE TypeOK'
    OBVIOUS
  <2>1. CASE Next
    BY <2>1, StepTypes DEF Next
  <2>2. CASE UNCHANGED vars
    BY <2>2 DEF vars, TypeOK
  <2> QED
    BY <2>1, <2>2
<1> QED
  BY <1>1, <1>2, PTL DEF Spec

-----------------------------------------------------------------------------
(* What one step can and cannot touch.                                     *)

(* A request writes none of the other requests' state.                     *)
LEMMA OthersUntouched ==
  ASSUME TypeOK, NEW t \in Requests, Step(t), NEW s \in Requests, s # t
  PROVE  /\ pc'[s] = pc[s] /\ req'[s] = req[s]
         /\ revoked'[s] = revoked[s] /\ granted'[s] = granted[s]
         /\ newStatus'[s] = newStatus[s] /\ locks'[s] = locks[s]
         /\ s \in queued' <=> s \in queued
<1> USE DEF TypeOK, Goto, Take, reqVars
<1>e. ASSUME End(t)
      PROVE  /\ pc'[s] = pc[s] /\ req'[s] = req[s]
             /\ revoked'[s] = revoked[s] /\ granted'[s] = granted[s]
             /\ newStatus'[s] = newStatus[s] /\ locks'[s] = locks[s]
             /\ s \in queued' <=> s \in queued
  BY <1>e DEF End
<1>1. CASE Begin(t)
  BY <1>1 DEF Begin
<1>2. CASE LockOwnerGuard(t)
  BY <1>2 DEF LockOwnerGuard
<1>3. CASE CountOwners(t)
  BY <1>3, <1>e DEF CountOwners
<1>4. CASE ScanRoles(t)
  BY <1>4 DEF ScanRoles
<1>5. CASE RevokeRoles(t)
  BY <1>5, <1>e DEF RevokeRoles
<1>6. CASE LockUser(t)
  BY <1>6, <1>e DEF LockUser
<1>7. CASE InsertMembership(t)
  BY <1>7, <1>e DEF InsertMembership
<1>8. CASE SetStatus(t)
  BY <1>8, <1>e DEF SetStatus
<1>9. CASE AssertOwnerRemains(t)
  BY <1>9, <1>e DEF AssertOwnerRemains
<1>10. CASE Commit(t)
  BY <1>10, <1>e DEF Commit
<1>11. CASE Rollback(t)
  BY <1>11, <1>e DEF Rollback
<1> QED
  BY <1>1, <1>2, <1>3, <1>4, <1>5, <1>6, <1>7, <1>8, <1>9, <1>10, <1>11 DEF Step

(* Only a commit changes what is committed.                                *)
LEMMA CommittedOnlyByCommit ==
  ASSUME NEW t \in Requests, Step(t), ~Commit(t)
  PROVE  status' = status /\ roles' = roles
BY DEF Step, Begin, LockOwnerGuard, CountOwners, ScanRoles, RevokeRoles, LockUser,
       InsertMembership, SetStatus, AssertOwnerRemains, Rollback

(* A lock is taken only when nobody else has it.                           *)
LEMMA LocksTaken ==
  ASSUME TypeOK, NEW t \in Requests, Step(t), NEW l \in locks'[t], l \notin locks[t]
  PROVE  Free(t, l)
<1> USE DEF TypeOK, Goto, Take, reqVars
<1>e. ASSUME End(t) PROVE FALSE
  BY <1>e DEF End
<1>1. CASE Begin(t)
  BY <1>1 DEF Begin
<1>2. CASE LockOwnerGuard(t)
  BY <1>2 DEF LockOwnerGuard
<1>3. CASE CountOwners(t)
  BY <1>3, <1>e DEF CountOwners
<1>4. CASE ScanRoles(t)
  BY <1>4 DEF ScanRoles
<1>5. CASE RevokeRoles(t)
  BY <1>5, <1>e DEF RevokeRoles
<1>6. CASE LockUser(t)
  BY <1>6, <1>e DEF LockUser
<1>7. CASE InsertMembership(t)
  BY <1>7, <1>e DEF InsertMembership
<1>8. CASE SetStatus(t)
  BY <1>8, <1>e DEF SetStatus
<1>9. CASE AssertOwnerRemains(t)
  BY <1>9, <1>e DEF AssertOwnerRemains
<1>10. CASE Commit(t)
  BY <1>10, <1>e DEF Commit
<1>11. CASE Rollback(t)
  BY <1>11, <1>e DEF Rollback
<1> QED
  BY <1>1, <1>2, <1>3, <1>4, <1>5, <1>6, <1>7, <1>8, <1>9, <1>10, <1>11 DEF Step

LEMMA StepLocksExclusive ==
  ASSUME TypeOK, LocksExclusive, NEW t \in Requests, Step(t)
  PROVE  LocksExclusive'
<1> SUFFICES ASSUME NEW a \in Requests, NEW b \in Requests, NEW l \in Locks,
                    l \in locks'[a], l \in locks'[b], a # b
             PROVE  FALSE
  BY DEF LocksExclusive
<1>1. CASE a # t /\ b # t
  BY <1>1, OthersUntouched DEF LocksExclusive
<1>2. ASSUME NEW s \in Requests, s # t, l \in locks'[s], l \in locks'[t] PROVE FALSE
  <2>1. l \in locks[s]
    BY <1>2, OthersUntouched
  <2>2. l \notin locks[t]
    BY <1>2, <2>1 DEF LocksExclusive
  <2>3. Free(t, l)
    BY <1>2, <2>2, LocksTaken
  <2> QED
    BY <1>2, <2>1, <2>3 DEF Free
<1>3. a # t \/ b # t
  OBVIOUS
<1> QED
  BY <1>1, <1>2, <1>3

(* Nothing pending outside the statements that write it.                   *)
LEMMA StepPending ==
  ASSUME TypeOK, Pending, NEW t \in Requests, Step(t)
  PROVE  Pending'
<1> SUFFICES ASSUME NEW s \in Requests
             PROVE  /\ pc'[s] \notin {"insert", "deferred", "commit"} => revoked'[s] = {}
                    /\ pc'[s] \notin {"deferred", "commit"} => granted'[s] = {}
                    /\ pc'[s] = "idle" => newStatus'[s] = "same" /\ s \notin queued'
  BY DEF Pending
<1>1. CASE s # t
  BY <1>1, OthersUntouched DEF Pending
<1>2. CASE s = t
  <2> USE DEF TypeOK, Goto, Take, reqVars, Pending
  <2>e. CASE End(t)
    BY <1>2, <2>e DEF End
  <2>1. CASE Begin(t)
    <3>1. PICK r \in RequestKinds : r.op \in Ops /\ pc' = [pc EXCEPT ![t] = FirstPhase(r)]
      BY <2>1 DEF Begin
    <3>2. FirstPhase(r) # "idle"
      <4>1. r.op \in OpKinds /\ r.to \in {"active", "stopped"}
        BY DEF RequestKinds
      <4> QED
        BY <4>1 DEF FirstPhase, OpKinds
    <3> QED
      BY <1>2, <2>1, <3>1, <3>2 DEF Begin
  <2>2. CASE LockOwnerGuard(t)
    BY <1>2, <2>2 DEF LockOwnerGuard
  <2>3. CASE CountOwners(t)
    BY <1>2, <2>3, <2>e DEF CountOwners
  <2>4. CASE ScanRoles(t)
    BY <1>2, <2>4 DEF ScanRoles
  <2>5. CASE RevokeRoles(t)
    BY <1>2, <2>5, <2>e DEF RevokeRoles
  <2>6. CASE LockUser(t)
    BY <1>2, <2>6, <2>e DEF LockUser
  <2>7. CASE InsertMembership(t)
    BY <1>2, <2>7, <2>e DEF InsertMembership
  <2>8. CASE SetStatus(t)
    BY <1>2, <2>8, <2>e DEF SetStatus
  <2>9. CASE AssertOwnerRemains(t)
    BY <1>2, <2>9, <2>e DEF AssertOwnerRemains
  <2>10. CASE Commit(t)
    BY <2>10, <2>e DEF Commit
  <2>11. CASE Rollback(t)
    BY <2>11, <2>e DEF Rollback
  <2> QED
    BY <2>1, <2>2, <2>3, <2>4, <2>5, <2>6, <2>7, <2>8, <2>9, <2>10, <2>11 DEF Step
<1> QED
  BY <1>1, <1>2

LEMMA StepUserRowHeld ==
  ASSUME TypeOK, Pending, UserRowHeld, NEW t \in Requests, Step(t)
  PROVE  UserRowHeld'
<1> SUFFICES ASSUME NEW s \in Requests, newStatus'[s] # "same" \/ granted'[s] # {}
             PROVE  UserRow(req'[s].user) \in locks'[s]
  BY DEF UserRowHeld, UserRow
<1>1. CASE s # t
  BY <1>1, OthersUntouched DEF UserRowHeld
<1>2. CASE s = t
  <2> USE DEF TypeOK, Goto, Take, reqVars, UserRowHeld
  <2>e. ASSUME End(t) PROVE FALSE
    BY <1>2, <2>e DEF End
  <2>1. CASE Begin(t)
    BY <1>2, <2>1 DEF Begin, Pending
  <2>2. CASE LockOwnerGuard(t)
    BY <1>2, <2>2 DEF LockOwnerGuard
  <2>3. CASE CountOwners(t)
    BY <1>2, <2>3, <2>e DEF CountOwners
  <2>4. CASE ScanRoles(t)
    BY <1>2, <2>4 DEF ScanRoles
  <2>5. CASE RevokeRoles(t)
    BY <1>2, <2>5, <2>e DEF RevokeRoles
  <2>6. CASE LockUser(t)
    BY <1>2, <2>6, <2>e DEF LockUser
  <2>7. CASE InsertMembership(t)
    BY <1>2, <2>7, <2>e DEF InsertMembership
  <2>8. CASE SetStatus(t)
    BY <1>2, <2>8, <2>e DEF SetStatus
  <2>9. CASE AssertOwnerRemains(t)
    BY <1>2, <2>9, <2>e DEF AssertOwnerRemains
  <2>10. CASE Commit(t)
    BY <2>10, <2>e DEF Commit
  <2>11. CASE Rollback(t)
    BY <2>11, <2>e DEF Rollback
  <2> QED
    BY <2>1, <2>2, <2>3, <2>4, <2>5, <2>6, <2>7, <2>8, <2>9, <2>10, <2>11 DEF Step
<1> QED
  BY <1>1, <1>2

(* Two requests cannot both hold the row of a user.                        *)
LEMMA OneHolderOfUserRow ==
  ASSUME TypeOK, LocksExclusive, NEW s \in Requests, NEW t \in Requests,
         NEW u \in Users, UserRow(u) \in locks[s], UserRow(u) \in locks[t]
  PROVE  s = t
BY LockNames DEF LocksExclusive

LEMMA StepRemovalsQueued ==
  ASSUME TypeOK, LocksExclusive, Pending, UserRowHeld, RemovalsQueued,
         NEW t \in Requests, Step(t)
  PROVE  RemovalsQueued'
<1> SUFFICES ASSUME NEW s \in Requests,
                    \/ "ciso" \in revoked'[s]
                    \/ newStatus'[s] = "stopped" /\ status'[req'[s].user] = "active"
             PROVE  s \in queued'
  BY DEF RemovalsQueued, Removes
<1>1. CASE s # t
  <2>1. CASE "ciso" \in revoked'[s]
    BY <1>1, <2>1, OthersUntouched DEF RemovalsQueued, Removes
  <2>2. CASE newStatus'[s] = "stopped" /\ status'[req'[s].user] = "active"
    <3> DEFINE u == req[s].user
    <3>1. newStatus[s] = "stopped" /\ req'[s] = req[s] /\ (s \in queued' <=> s \in queued)
      BY <1>1, <2>2, OthersUntouched
    <3>2. u \in Users /\ UserRow(u) \in locks[s]
      BY <3>1 DEF TypeOK, RequestKinds, UserRowHeld
    <3>3. status[u] = status'[u]
      <4>1. CASE ~Commit(t)
        BY <4>1, CommittedOnlyByCommit
      <4>2. CASE Commit(t)
        <5>1. CASE req[t].user = u
          <6>1. newStatus[t] = "same"
            BY <1>1, <3>2, <5>1, OneHolderOfUserRow DEF UserRowHeld
          <6> QED
            BY <3>2, <4>2, <5>1, <6>1 DEF Commit, StatusSeen, TypeOK
        <5>2. CASE req[t].user # u
          BY <3>2, <4>2, <5>2 DEF Commit, TypeOK
        <5> QED
          BY <5>1, <5>2
      <4> QED
        BY <4>1, <4>2
    <3> QED
      BY <2>2, <3>1, <3>3 DEF RemovalsQueued, Removes
  <2> QED
    BY <2>1, <2>2
<1>2. CASE s = t
  <2> USE DEF TypeOK, Goto, Take, reqVars
  <2>0. Removes(t) => t \in queued
    BY DEF RemovalsQueued
  <2>e. ASSUME End(t) PROVE FALSE
    BY <1>2, <2>e DEF End
  <2>1. CASE Begin(t)
    <3>1. pc[t] = "idle" /\ revoked' = revoked /\ newStatus' = newStatus
      BY <2>1 DEF Begin
    <3>2. revoked[t] = {} /\ newStatus[t] = "same"
      BY <3>1 DEF Pending
    <3> QED
      BY <1>2, <3>1, <3>2
  <2>2. CASE LockOwnerGuard(t)
    BY <1>2, <2>0, <2>2 DEF LockOwnerGuard, Removes
  <2>3. CASE CountOwners(t)
    BY <1>2, <2>0, <2>3, <2>e DEF CountOwners, Removes
  <2>4. CASE ScanRoles(t)
    BY <1>2, <2>0, <2>4 DEF ScanRoles, Removes
  <2>5. CASE RevokeRoles(t)
    BY <1>2, <2>0, <2>5, <2>e DEF RevokeRoles, Removes
  <2>6. CASE LockUser(t)
    BY <1>2, <2>0, <2>6, <2>e DEF LockUser, Removes
  <2>7. CASE InsertMembership(t)
    BY <1>2, <2>0, <2>7, <2>e DEF InsertMembership, Removes
  <2>8. CASE SetStatus(t)
    <3>1. /\ status' = status /\ revoked' = revoked /\ req' = req
          /\ newStatus' = [newStatus EXCEPT ![t] = req[t].to]
          /\ queued' = IF status[req[t].user] = "active" /\ req[t].to = "stopped"
                         THEN queued \cup {t} ELSE queued
      BY <1>2, <2>8, <2>e DEF SetStatus
    <3>2. newStatus'[t] = req[t].to
      BY <3>1
    <3> QED
      BY <1>2, <2>0, <3>1, <3>2 DEF Removes
  <2>9. CASE AssertOwnerRemains(t)
    BY <1>2, <2>0, <2>9, <2>e DEF AssertOwnerRemains, Removes
  <2>10. CASE Commit(t)
    BY <2>10, <2>e DEF Commit
  <2>11. CASE Rollback(t)
    BY <2>11, <2>e DEF Rollback
  <2> QED
    BY <2>1, <2>2, <2>3, <2>4, <2>5, <2>6, <2>7, <2>8, <2>9, <2>10, <2>11 DEF Step
<1> QED
  BY <1>1, <1>2

LEMMA StepReplaced ==
  ASSUME TypeOK, Pending, Replaced, NEW t \in Requests, Step(t)
  PROVE  Replaced'
<1> SUFFICES ASSUME NEW s \in Requests, pc'[s] \in {"deferred", "commit"}, revoked'[s] # {}
             PROVE  granted'[s] # {}
  BY DEF Replaced
<1>1. CASE s # t
  BY <1>1, OthersUntouched DEF Replaced
<1>2. CASE s = t
  <2> USE DEF TypeOK, Goto, Take, reqVars
  <2>e. ASSUME End(t) PROVE FALSE
    BY <1>2, <2>e DEF End
  <2>1. CASE Begin(t)
    BY <1>2, <2>1 DEF Begin, Pending
  <2>2. CASE LockOwnerGuard(t)
    BY <1>2, <2>2 DEF LockOwnerGuard
  <2>3. CASE CountOwners(t)
    BY <1>2, <2>3, <2>e DEF CountOwners
  <2>4. CASE ScanRoles(t)
    BY <1>2, <2>4 DEF ScanRoles
  <2>5. CASE RevokeRoles(t)
    BY <1>2, <2>5, <2>e DEF RevokeRoles
  <2>6. CASE LockUser(t)
    BY <1>2, <2>6, <2>e DEF LockUser
  <2>7. CASE InsertMembership(t)
    BY <1>2, <2>7, <2>e DEF InsertMembership
  <2>8. CASE SetStatus(t)
    BY <1>2, <2>8, <2>e DEF SetStatus, Pending
  <2>9. CASE AssertOwnerRemains(t)
    BY <1>2, <2>9, <2>e DEF AssertOwnerRemains, Replaced
  <2>10. CASE Commit(t)
    BY <2>10, <2>e DEF Commit
  <2>11. CASE Rollback(t)
    BY <2>11, <2>e DEF Rollback
  <2> QED
    BY <2>1, <2>2, <2>3, <2>4, <2>5, <2>6, <2>7, <2>8, <2>9, <2>10, <2>11 DEF Step
<1> QED
  BY <1>1, <1>2

-----------------------------------------------------------------------------
(* The owner remains.                                                      *)

(* A request without a queued trigger takes no owner away.                 *)
LEMMA UnqueuedKeepsOwners ==
  ASSUME TypeOK, RemovalsQueued, NEW t \in Requests, Step(t), t \notin queued,
         NEW u \in Users, status[u] = "active"
  PROVE  /\ status'[u] = "active"
         /\ "ciso" \in roles[u] => "ciso" \in roles'[u]
<1>1. CASE ~Commit(t)
  BY <1>1, CommittedOnlyByCommit
<1>2. CASE Commit(t)
  <2>1. ~Removes(t)
    BY DEF RemovalsQueued
  <2>2. CASE u # req[t].user
    BY <1>2, <2>2 DEF Commit, TypeOK
  <2>3. CASE u = req[t].user
    <3>1. newStatus[t] \in {"same", "active"} /\ "ciso" \notin revoked[t]
      BY <2>1, <2>3 DEF Removes, TypeOK
    <3>2. status'[u] = StatusSeen(t, u) /\ roles'[u] = RolesSeen(t, u)
      BY <1>2, <2>3 DEF Commit, TypeOK
    <3> QED
      BY <2>3, <3>1, <3>2 DEF StatusSeen, RolesSeen
  <2> QED
    BY <2>2, <2>3
<1> QED
  BY <1>1, <1>2

LEMMA StepChecked ==
  ASSUME OwnerInv, NEW t \in Requests, Step(t)
  PROVE  Checked'
<1> USE DEF OwnerInv
<1> SUFFICES ASSUME NEW s \in Requests, pc'[s] = "commit", s \in queued'
             PROVE  GuardLock \in locks'[s] /\ OwnerSeen(s)'
  BY DEF Checked, GuardLock
<1>1. CASE s # t
  <2>0. /\ pc[s] = "commit" /\ s \in queued /\ req'[s] = req[s]
        /\ revoked'[s] = revoked[s] /\ granted'[s] = granted[s]
        /\ newStatus'[s] = newStatus[s] /\ locks'[s] = locks[s]
    BY <1>1, OthersUntouched
  <2>1. GuardLock \in locks[s] /\ OwnerSeen(s)
    BY <2>0 DEF Checked
  <2>2. PICK u \in Users : HasRole(s, u, "ciso")
    BY <2>1 DEF OwnerSeen
  <2>3. CASE ~Commit(t)
    BY <2>0, <2>1, <2>3, CommittedOnlyByCommit
       DEF OwnerSeen, HasRole, StatusSeen, RolesSeen
  <2>4. CASE Commit(t)
    <3>1. t \notin queued
      <4>1. t \in queued => GuardLock \in locks[t]
        BY <2>4 DEF Commit, Checked
      <4> QED
        BY <1>1, <2>1, <4>1, LockNames DEF LocksExclusive
    <3>2. HasRole(s, u, "ciso")'
      <4>1. StatusSeen(s, u)' = "active"
        <5>1. CASE u = req[s].user /\ newStatus[s] # "same"
          BY <2>0, <2>2, <5>1 DEF HasRole, StatusSeen
        <5>2. CASE ~(u = req[s].user /\ newStatus[s] # "same")
          <6>1. status[u] = "active"
            BY <2>2, <5>2 DEF HasRole, StatusSeen
          <6> QED
            BY <2>0, <3>1, <5>2, <6>1, UnqueuedKeepsOwners DEF StatusSeen
        <5> QED
          BY <5>1, <5>2
      <4>2. "ciso" \in RolesSeen(s, u)'
        <5>1. CASE u = req[s].user /\ "ciso" \in granted[s]
          BY <2>0, <5>1 DEF RolesSeen
        <5>2. CASE ~(u = req[s].user /\ "ciso" \in granted[s])
          <6>1. "ciso" \in roles[u] /\ (u = req[s].user => "ciso" \notin revoked[s])
            BY <2>2, <5>2 DEF HasRole, RolesSeen
          <6>2. "ciso" \in roles'[u]
            <7>1. CASE u # req[t].user
              BY <2>4, <6>1, <7>1 DEF Commit, TypeOK
            <7>2. CASE u = req[t].user
              <8>1. "ciso" \notin revoked[t]
                BY <3>1 DEF RemovalsQueued, Removes
              <8>2. roles'[u] = RolesSeen(t, u)
                BY <2>4, <7>2 DEF Commit, TypeOK
              <8> QED
                BY <6>1, <7>2, <8>1, <8>2 DEF RolesSeen
            <7> QED
              BY <7>1, <7>2
          <6> QED
            BY <2>0, <6>1, <6>2 DEF RolesSeen
        <5> QED
          BY <5>1, <5>2
      <4> QED
        BY <4>1, <4>2 DEF HasRole
    <3> QED
      BY <2>0, <2>1, <3>2 DEF OwnerSeen
  <2> QED
    BY <2>3, <2>4
<1>2. CASE s = t
  <2> USE DEF TypeOK, Goto, reqVars
  <2>e. ASSUME End(t) PROVE FALSE
    BY <1>2, <2>e DEF End
  <2>1. CASE AssertOwnerRemains(t)
    <3>0. pc[t] = "deferred" /\ t \in queued
      BY <1>2, <2>1, <2>e DEF AssertOwnerRemains
    <3>1. /\ ~MembershipSeen(t) \/ OwnerSeen(t)
          /\ Take(t, {GuardLock})
          /\ UNCHANGED <<status, roles, req, revoked, granted, newStatus>>
      BY <1>2, <2>1, <2>e, <3>0 DEF AssertOwnerRemains
    <3>2. MembershipSeen(t)
      <4>1. PICK u \in Users : "ciso" \in roles[u]
        BY DEF OwnerRemains
      <4>2. RolesSeen(t, u) # {}
        <5>1. CASE u = req[t].user /\ revoked[t] # {}
          <6>1. granted[t] # {}
            BY <3>0, <5>1 DEF Replaced
          <6> QED
            BY <5>1, <6>1 DEF RolesSeen
        <5>2. CASE ~(u = req[t].user /\ revoked[t] # {})
          BY <4>1, <5>2 DEF RolesSeen
        <5> QED
          BY <5>1, <5>2
      <4> QED
        BY <4>2 DEF MembershipSeen
    <3>3. OwnerSeen(t)'
      BY <3>1, <3>2 DEF OwnerSeen, HasRole, StatusSeen, RolesSeen
    <3>4. GuardLock \in locks'[t]
      BY <3>1 DEF Take
    <3> QED
      BY <1>2, <3>3, <3>4
  <2>2. CASE ~AssertOwnerRemains(t)
    <3>1. pc'[t] # "commit"
      <4>1. CASE Begin(t)
        <5>1. PICK r \in RequestKinds : pc' = [pc EXCEPT ![t] = FirstPhase(r)]
          BY <4>1 DEF Begin
        <5>2. FirstPhase(r) # "commit"
          <6>1. r.op \in OpKinds /\ r.to \in {"active", "stopped"}
            BY DEF RequestKinds
          <6> QED
            BY <6>1 DEF FirstPhase, OpKinds
        <5> QED
          BY <5>1, <5>2
      <4>2. CASE ~Begin(t)
        BY <1>2, <2>2, <2>e, <4>2 DEF Step, LockOwnerGuard, CountOwners, ScanRoles,
           RevokeRoles, LockUser, InsertMembership, SetStatus, Commit, Rollback
      <4> QED
        BY <4>1, <4>2
    <3> QED
      BY <1>2, <3>1
  <2> QED
    BY <2>1, <2>2
<1> QED
  BY <1>1, <1>2

LEMMA StepOwnerRemains ==
  ASSUME OwnerInv, NEW t \in Requests, Step(t)
  PROVE  OwnerRemains'
<1> USE DEF OwnerInv
<1>1. CASE t \notin queued
  <2>1. PICK u \in Users : status[u] = "active" /\ "ciso" \in roles[u]
    BY DEF OwnerRemains
  <2> QED
    BY <1>1, <2>1, UnqueuedKeepsOwners DEF OwnerRemains
<1>2. CASE ~Commit(t)
  BY <1>2, CommittedOnlyByCommit DEF OwnerRemains
<1>3. CASE t \in queued /\ Commit(t)
  <2>1. PICK u \in Users : HasRole(t, u, "ciso")
    BY <1>3 DEF Checked, OwnerSeen, Commit
  <2>2. status'[u] = StatusSeen(t, u) /\ roles'[u] = RolesSeen(t, u)
    BY <1>3 DEF Commit, StatusSeen, RolesSeen, TypeOK
  <2> QED
    BY <2>1, <2>2 DEF OwnerRemains, HasRole
<1> QED
  BY <1>1, <1>2, <1>3

LEMMA InitOwnerInv == Init => OwnerInv
<1> SUFFICES ASSUME Init PROVE OwnerInv
  OBVIOUS
<1>1. TypeOK
  BY InitTypes
<1>2. /\ \A t \in Requests : /\ pc[t] = "idle" /\ revoked[t] = {} /\ granted[t] = {}
                             /\ newStatus[t] = "same" /\ locks[t] = {}
      /\ queued = {}
  BY Zenon DEF Init
<1>3. OwnerRemains
  <2>1. PICK u \in Users : roles[u] = {"ciso"}
    BY Zenon DEF Init
  <2>2. status[u] # "absent"
    BY <2>1, Zenon DEF Init
  <2>3. status \in [Users -> {"absent", "active"}]
    BY Zenon DEF Init
  <2> QED
    BY <2>1, <2>2, <2>3 DEF OwnerRemains
<1>4. LocksExclusive /\ Pending /\ UserRowHeld
  BY <1>2 DEF LocksExclusive, Pending, UserRowHeld
<1>5. RemovalsQueued /\ Replaced /\ Checked
  BY <1>2 DEF RemovalsQueued, Removes, Replaced, Checked
<1> QED
  BY <1>1, <1>3, <1>4, <1>5 DEF OwnerInv

LEMMA NextOwnerInv == OwnerInv /\ [Next]_vars => OwnerInv'
<1> SUFFICES ASSUME OwnerInv, [Next]_vars PROVE OwnerInv'
  OBVIOUS
<1>1. CASE Next
  <2>1. PICK t \in Requests : Step(t)
    BY <1>1 DEF Next
  <2> QED
    BY <2>1, StepTypes, StepLocksExclusive, StepPending, StepUserRowHeld,
       StepRemovalsQueued, StepReplaced, StepChecked, StepOwnerRemains DEF OwnerInv
<1>2. CASE UNCHANGED vars
  BY <1>2 DEF vars, OwnerInv, TypeOK, LocksExclusive, Pending, UserRowHeld,
     RemovalsQueued, Removes, Replaced, Checked, OwnerSeen, HasRole, StatusSeen,
     RolesSeen, OwnerRemains
<1> QED
  BY <1>1, <1>2

(* However many members and requests there are, and whatever requests run  *)
(* at once, fail or are rolled back, the tenant keeps an active owner.     *)
THEOREM OwnerAlwaysRemains == Spec => []OwnerRemains
<1>1. OwnerInv => OwnerRemains
  BY DEF OwnerInv
<1> QED
  BY <1>1, InitOwnerInv, NextOwnerInv, PTL DEF Spec

-----------------------------------------------------------------------------
(* What a grant relies on still holds when it is committed.                *)

LEMMA StepGrantInv ==
  ASSUME OwnerInv, GrantInv, NEW t \in Requests, Step(t)
  PROVE  GrantInv'
<1> USE DEF OwnerInv
<1>u. \A s \in Requests : req[s].user \in Users
  BY DEF TypeOK, RequestKinds
<1>1. ASSUME NEW u \in Users PROVE SameSide(roles'[u])
  <2>1. CASE ~Commit(t) \/ u # req[t].user
    <3>1. roles'[u] = roles[u]
      BY <2>1, CommittedOnlyByCommit DEF Commit, TypeOK
    <3> QED
      BY <3>1 DEF GrantInv
  <2>2. CASE Commit(t) /\ u = req[t].user
    <3>1. roles'[u] = RolesSeen(t, u)
      BY <2>2 DEF Commit, TypeOK
    <3>2. CASE granted[t] = {}
      BY <2>2, <3>1, <3>2 DEF GrantInv, SameSide, RolesSeen
    <3>3. CASE granted[t] # {}
      BY <2>2, <3>1, <3>3 DEF GrantInv
    <3> QED
      BY <3>2, <3>3
  <2> QED
    BY <2>1, <2>2
<1>2. ASSUME NEW s \in Requests, granted'[s] # {}
      PROVE  /\ SameSide(RolesSeen(s, req[s].user))'
             /\ StatusSeen(s, req[s].user)' = "active"
  <2>1. CASE s # t
    <3> DEFINE u == req[s].user
    <3>0. /\ req'[s] = req[s] /\ revoked'[s] = revoked[s]
          /\ granted'[s] = granted[s] /\ newStatus'[s] = newStatus[s]
      BY <2>1, OthersUntouched
    <3>1. SameSide(RolesSeen(s, u)) /\ StatusSeen(s, u) = "active"
      BY <1>2, <3>0 DEF GrantInv
    <3>2. u \in Users /\ UserRow(u) \in locks[s]
      BY <1>u, <1>2, <3>0 DEF UserRowHeld
    <3>3. status'[u] = status[u] /\ roles'[u] \subseteq roles[u]
      <4>1. CASE ~Commit(t) \/ u # req[t].user
        BY <3>2, <4>1, CommittedOnlyByCommit DEF Commit, TypeOK
      <4>2. CASE Commit(t) /\ u = req[t].user
        <5>1. granted[t] = {} /\ newStatus[t] = "same"
          BY <2>1, <3>2, <4>2, OneHolderOfUserRow DEF UserRowHeld
        <5>2. status'[u] = StatusSeen(t, u) /\ roles'[u] = RolesSeen(t, u)
          BY <3>2, <4>2 DEF Commit, TypeOK
        <5> QED
          BY <4>2, <5>1, <5>2 DEF StatusSeen, RolesSeen
      <4> QED
        BY <4>1, <4>2
    <3>4. RolesSeen(s, u)' \subseteq RolesSeen(s, u)
      BY <3>0, <3>3 DEF RolesSeen
    <3>5. SameSide(RolesSeen(s, u))'
      BY <3>0, <3>1, <3>4 DEF SameSide
    <3> QED
      BY <3>0, <3>1, <3>3, <3>5 DEF StatusSeen
  <2>2. CASE s = t
    <3>0. pc'[t] \in {"deferred", "commit"}
      BY <1>2, <2>2, StepPending DEF Pending
    <3>e. ASSUME End(t) PROVE FALSE
      BY <1>2, <2>2, <3>e DEF End, TypeOK
    <3>1. CASE InsertMembership(t)
      <4> DEFINE u == req[t].user
      <4>1. /\ AuditorExclusive(t, req[t].role) /\ StatusSeen(t, u) = "active"
            /\ granted' = [granted EXCEPT ![t] = {req[t].role}]
            /\ UNCHANGED <<status, roles, req, revoked, newStatus>>
        BY <3>1, <3>e DEF InsertMembership, MemberActive
      <4>2. RolesSeen(t, u)' \subseteq RolesSeen(t, u) \cup {req[t].role}
        BY <4>1 DEF RolesSeen, TypeOK
      <4>3. SameSide(RolesSeen(t, u) \cup {req[t].role})
        BY <4>1 DEF SameSide, AuditorExclusive
      <4>4. SameSide(RolesSeen(t, u))'
        BY <4>1, <4>2, <4>3 DEF SameSide
      <4> QED
        BY <2>2, <4>1, <4>4 DEF StatusSeen
    <3>2. CASE AssertOwnerRemains(t)
      <4>1. UNCHANGED <<status, roles, req, revoked, granted, newStatus>>
        BY <3>2, <3>e DEF AssertOwnerRemains, reqVars
      <4>2. SameSide(RolesSeen(t, req[t].user)) /\ StatusSeen(t, req[t].user) = "active"
        BY <1>2, <2>2, <4>1 DEF GrantInv
      <4> QED
        BY <2>2, <4>1, <4>2 DEF SameSide, RolesSeen, StatusSeen
    <3>3. CASE SetStatus(t)
      <4>1. granted' = granted /\ pc[t] = "status"
        BY <3>3, <3>e DEF SetStatus
      <4> QED
        BY <1>2, <2>2, <4>1 DEF Pending
    <3>4. CASE ~InsertMembership(t) /\ ~AssertOwnerRemains(t) /\ ~SetStatus(t)
      <4>1. granted' = granted /\ pc[t] \notin {"deferred", "commit"}
        BY <3>4, <3>e DEF Step, Begin, LockOwnerGuard, CountOwners, ScanRoles, RevokeRoles,
           LockUser, Commit, Rollback, reqVars
      <4> QED
        BY <1>2, <2>2, <4>1 DEF Pending
    <3> QED
      BY <3>1, <3>2, <3>3, <3>4
  <2> QED
    BY <2>1, <2>2
<1> QED
  BY <1>1, <1>2 DEF GrantInv

LEMMA InitGrantInv == Init => GrantInv
<1> SUFFICES ASSUME Init PROVE GrantInv
  OBVIOUS
<1>1. \A t \in Requests : granted[t] = {}
  BY Zenon DEF Init
<1>2. roles \in [Users -> {{}} \cup {{r} : r \in Roles}]
  BY Zenon DEF Init
<1>3. \A u \in Users : SameSide(roles[u])
  BY <1>2 DEF SameSide
<1> QED
  BY <1>1, <1>3 DEF GrantInv

LEMMA NextGrantInv == OwnerInv /\ GrantInv /\ [Next]_vars => GrantInv'
<1> SUFFICES ASSUME OwnerInv, GrantInv, [Next]_vars PROVE GrantInv'
  OBVIOUS
<1>1. CASE Next
  BY <1>1, StepGrantInv DEF Next
<1>2. CASE UNCHANGED vars
  BY <1>2 DEF vars, GrantInv, SameSide, RolesSeen, StatusSeen
<1> QED
  BY <1>1, <1>2

(* Nobody is auditor and something else, whatever requests ran at once.    *)
THEOREM AuditorAlwaysAlone == Spec => []AuditorStandsAlone
<1>1. TypeOK /\ GrantInv => AuditorStandsAlone
  BY DEF TypeOK, GrantInv, SameSide, AuditorStandsAlone
<1>2. OwnerInv => TypeOK
  BY DEF OwnerInv
<1> QED
  BY <1>1, <1>2, InitOwnerInv, NextOwnerInv, InitGrantInv, NextGrantInv, PTL DEF Spec

(* A grant is committed only while the member is active.                   *)
THEOREM GrantsReachActiveOnly == Spec => GrantsToActiveOnly
<1>1. OwnerInv /\ GrantInv /\ [Next]_vars
        => [\A u \in Users : roles'[u] \ roles[u] # {} => status'[u] = "active"]_vars
  <2> SUFFICES ASSUME OwnerInv, GrantInv, Next,
                      NEW u \in Users, roles'[u] \ roles[u] # {}
               PROVE  status'[u] = "active"
    BY DEF vars
  <2>1. PICK t \in Requests : Step(t)
    BY DEF Next
  <2>2. Commit(t) /\ u = req[t].user
    BY <2>1, CommittedOnlyByCommit DEF Commit, OwnerInv, TypeOK
  <2>3. roles'[u] = RolesSeen(t, u) /\ status'[u] = StatusSeen(t, u)
    BY <2>2 DEF Commit, OwnerInv, TypeOK
  <2>4. granted[t] # {}
    BY <2>2, <2>3 DEF RolesSeen
  <2> QED
    BY <2>2, <2>3, <2>4 DEF GrantInv
<1> QED
  BY <1>1, InitOwnerInv, NextOwnerInv, InitGrantInv, NextGrantInv, PTL
     DEF Spec, GrantsToActiveOnly

=============================================================================
