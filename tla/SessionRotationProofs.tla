------------------------ MODULE SessionRotationProofs ------------------------
(***************************************************************************)
(* Proofs about the session rotation when runs do not overlap, for any     *)
(* number of tokens, any life of a session and any number of faults.       *)
(***************************************************************************)
EXTENDS SessionRotation, TLAPS

OneAtATime == \A r, s \in Rotators : r = s

Issued  == {"write", "restart", "health", "restore", "restart_old", "revoke_new", "revoke_old"}
NewUsed == {"restart", "health", "restore", "revoke_old"}

(* Where a run is tells which token the env file holds, and a token is     *)
(* only revoked when the file and the service have let go of it.           *)
RunHolds ==
  \A r \in Rotators :
    /\ pc[r] # "idle" => ~revoked[old[r]]
    /\ pc[r] \in Issued => ~revoked[new[r]] /\ new[r] # old[r]
    /\ pc[r] \in NewUsed => env = new[r]
    /\ pc[r] \notin NewUsed \cup {"idle"} => env = old[r]
    /\ pc[r] \in {"health", "revoke_old"} => web \in {new[r], Down}
    /\ pc[r] = "revoke_new" => web \in {old[r], Down}

RotationInv == TypeOK /\ RunHolds /\ InUseNotRevoked

-----------------------------------------------------------------------------
LEMMA InitTypes == Init => TypeOK
<1> SUFFICES ASSUME Init PROVE TypeOK
  OBVIOUS
<1>1. PICK t \in Tokens :
        /\ life    = [s \in Tokens |-> IF s = t THEN TTL ELSE 0]
        /\ revoked = [s \in Tokens |-> FALSE]
        /\ env     = t
        /\ web     = t
        /\ pc      = [r \in Rotators |-> "idle"]
        /\ old     = [r \in Rotators |-> t]
        /\ new     = [r \in Rotators |-> t]
        /\ due     = {}
        /\ misses  = 0
        /\ faults  = 0
  BY Zenon DEF Init
<1> QED
  BY <1>1, SessionRotationAssumption DEF TypeOK, Phases

LEMMA FaultType ==
  ASSUME TypeOK, NEW k, Fault(k)
  PROVE  faults' \in 0 .. MaxFaults
BY SessionRotationAssumption DEF Fault, TypeOK

LEMMA GotoType ==
  ASSUME TypeOK, NEW r \in Rotators, NEW phase \in Phases, Goto(r, phase)
  PROVE  /\ pc' \in [Rotators -> Phases]
         /\ pc'[r] = phase
         /\ \A s \in Rotators \ {r} : pc'[s] = pc[s]
BY DEF Goto, TypeOK

LEMMA EndType ==
  ASSUME TypeOK, NEW r \in Rotators, EndWithout(r)
  PROVE  /\ pc' \in [Rotators -> Phases] /\ misses' \in 0 .. TTL
         /\ pc'[r] = "idle"
         /\ \A s \in Rotators \ {r} : pc'[s] = pc[s]
         /\ UNCHANGED <<old, new, due>>
BY SessionRotationAssumption DEF EndWithout, Goto, TypeOK, Phases

LEMMA RestartType ==
  ASSUME TypeOK, NEW ok \in BOOLEAN, RestartService(ok)
  PROVE  /\ web' \in {web, env, Down} /\ faults' \in 0 .. MaxFaults
         /\ ok => web' \in {env, Down}
BY FaultType DEF RestartService, TypeOK

LEMMA RunTypes ==
  ASSUME TypeOK, NEW r \in Rotators, Run(r)
  PROVE  TypeOK'
<1> USE DEF timeVars, runVars
<1>p. Phases = {"idle", "resolve", "unresolved", "issue", "write", "restart", "health",
                "restore", "restart_old", "revoke_new", "revoke_old"}
  BY DEF Phases
<1>1. CASE StartRun(r)
  BY <1>1, <1>p, GotoType DEF StartRun, TypeOK
<1>2. CASE ResolveIdentity(r)
  BY <1>2, <1>p, GotoType DEF ResolveIdentity, TypeOK
<1>3. CASE GiveUp(r)
  BY <1>3, EndType DEF GiveUp, TypeOK
<1>4. CASE IssueToken(r)
  <2>1. CASE \E t \in Tokens : CreateSession(r, t)
             /\ Goto(r, "write")
             /\ UNCHANGED <<env, web, old, timeVars, faults>>
    <3>1. PICK t \in Tokens : CreateSession(r, t)
      BY <2>1
    <3>2. life' \in [Tokens -> 0 .. TTL] /\ revoked' \in [Tokens -> BOOLEAN]
          /\ new' \in [Rotators -> Tokens]
      BY <3>1, SessionRotationAssumption DEF CreateSession, TypeOK
    <3> QED
      BY <2>1, <3>2, <1>p, GotoType DEF TypeOK
  <2>2. CASE Fault("issue") /\ EndWithout(r) /\ UNCHANGED <<life, revoked, env, web>>
    BY <2>2, FaultType, EndType DEF TypeOK
  <2> QED
    BY <1>4, <2>1, <2>2 DEF IssueToken
<1>5. CASE WriteEnv(r)
  <2>1. CASE env' = new[r] /\ Goto(r, "restart")
             /\ UNCHANGED <<life, revoked, web, old, new, timeVars, faults>>
    BY <2>1, <1>p, GotoType DEF TypeOK
  <2>2. CASE Fault("write") /\ EndWithout(r) /\ UNCHANGED <<life, revoked, env, web>>
    BY <2>2, FaultType, EndType DEF TypeOK
  <2> QED
    BY <1>5, <2>1, <2>2 DEF WriteEnv
<1>6. CASE RestartWeb(r)
  <2>1. PICK ok \in BOOLEAN :
          RestartService(ok) /\ Goto(r, IF ok THEN "health" ELSE "restore")
    BY <1>6 DEF RestartWeb
  <2>2. pc' \in [Rotators -> Phases]
    BY <2>1, <1>p, GotoType
  <2> QED
    BY <1>6, <2>1, <2>2, RestartType DEF RestartWeb, TypeOK
<1>7. CASE WaitUntilHealthy(r)
  <2>1. pc' \in [Rotators -> Phases] /\ faults' \in 0 .. MaxFaults
    BY <1>7, <1>p, GotoType, FaultType DEF WaitUntilHealthy, TypeOK
  <2> QED
    BY <1>7, <2>1 DEF WaitUntilHealthy, TypeOK
<1>8. CASE RestoreEnv(r)
  <2>1. CASE env' = old[r] /\ Goto(r, "restart_old")
             /\ UNCHANGED <<life, revoked, web, old, new, timeVars, faults>>
    BY <2>1, <1>p, GotoType DEF TypeOK
  <2>2. CASE Fault("write") /\ EndWithout(r) /\ UNCHANGED <<life, revoked, env, web>>
    BY <2>2, FaultType, EndType DEF TypeOK
  <2> QED
    BY <1>8, <2>1, <2>2 DEF RestoreEnv
<1>9. CASE RestartOld(r)
  <2>1. PICK ok \in BOOLEAN :
          /\ RestartService(ok)
          /\ IF ok THEN Goto(r, "revoke_new") /\ UNCHANGED <<old, new, timeVars>>
                   ELSE EndWithout(r)
    BY <1>9 DEF RestartOld
  <2>2. pc' \in [Rotators -> Phases] /\ misses' \in 0 .. TTL /\ UNCHANGED <<old, new, due>>
    BY <2>1, <1>p, GotoType, EndType DEF TypeOK
  <2> QED
    BY <1>9, <2>1, <2>2, RestartType DEF RestartOld, TypeOK
<1>10. CASE RevokeNew(r)
  <2>1. revoked' \in [Tokens -> BOOLEAN] /\ faults' \in 0 .. MaxFaults
    BY <1>10, FaultType DEF RevokeNew, TypeOK
  <2> QED
    BY <1>10, <2>1, EndType DEF RevokeNew, TypeOK
<1>11. CASE RevokeOld(r)
  <2>1. revoked' \in [Tokens -> BOOLEAN] /\ faults' \in 0 .. MaxFaults
    BY <1>11, FaultType DEF RevokeOld, TypeOK
  <2> QED
    BY <1>11, <2>1, <1>p, GotoType, SessionRotationAssumption DEF RevokeOld, TypeOK
<1> QED
  BY <1>1, <1>2, <1>3, <1>4, <1>5, <1>6, <1>7, <1>8, <1>9, <1>10, <1>11 DEF Run

LEMMA NextTypes ==
  ASSUME TypeOK, [Next]_vars
  PROVE  TypeOK'
<1> USE DEF runVars, timeVars
<1>1. CASE Tick
  <2>1. life' \in [Tokens -> 0 .. TTL]
    BY <1>1, SessionRotationAssumption DEF Tick, TypeOK
  <2> QED
    BY <1>1, <2>1 DEF Tick, TypeOK
<1>2. CASE ServiceDies
  BY <1>2, FaultType DEF ServiceDies, TypeOK
<1>3. ASSUME NEW r \in Rotators, Crash(r) PROVE TypeOK'
  BY <1>3, FaultType, EndType DEF Crash, TypeOK
<1>4. CASE UNCHANGED vars
  BY <1>4 DEF vars, TypeOK
<1> QED
  BY <1>1, <1>2, <1>3, <1>4, RunTypes DEF Next

-----------------------------------------------------------------------------
(* Nothing in use is revoked.                                              *)

LEMMA InitHolds == Init => RunHolds /\ InUseNotRevoked
<1> SUFFICES ASSUME Init PROVE RunHolds /\ InUseNotRevoked
  OBVIOUS
<1>1. PICK t \in Tokens :
        /\ revoked = [s \in Tokens |-> FALSE]
        /\ env     = t
        /\ web     = t
        /\ pc      = [r \in Rotators |-> "idle"]
  BY Zenon DEF Init
<1>2. InUseNotRevoked
  BY <1>1 DEF InUseNotRevoked
<1>3. RunHolds
  BY <1>1 DEF RunHolds, Issued, NewUsed
<1> QED
  BY <1>2, <1>3

(* Once a run has ended only the file and the service matter.              *)
LEMMA EndHolds ==
  ASSUME OneAtATime, TypeOK, NEW r \in Rotators, EndWithout(r)
  PROVE  RunHolds'
<1>1. \A s \in Rotators : pc'[s] = "idle"
  BY EndType DEF OneAtATime
<1> QED
  BY <1>1 DEF RunHolds, Issued, NewUsed

LEMMA RunKeeps ==
  ASSUME OneAtATime, RotationInv, TypeOK', NEW r \in Rotators, Run(r)
  PROVE  RunHolds' /\ InUseNotRevoked'
<1> USE DEF RotationInv, runVars, timeVars
<1>r. \A s \in Rotators : s = r
  BY DEF OneAtATime
<1>p. Phases = {"idle", "resolve", "unresolved", "issue", "write", "restart", "health",
                "restore", "restart_old", "revoke_new", "revoke_old"}
  BY DEF Phases
<1>h. /\ pc[r] # "idle" => ~revoked[old[r]]
      /\ pc[r] \in Issued => ~revoked[new[r]] /\ new[r] # old[r]
      /\ pc[r] \in NewUsed => env = new[r]
      /\ pc[r] \notin NewUsed \cup {"idle"} => env = old[r]
      /\ pc[r] \in {"health", "revoke_old"} => web \in {new[r], Down}
      /\ pc[r] = "revoke_new" => web \in {old[r], Down}
  BY DEF RunHolds
<1>u. ~revoked[env] /\ (web # Down => ~revoked[web])
  BY DEF InUseNotRevoked
<1> USE DEF Issued, NewUsed
<1>1. CASE StartRun(r)
  <2>1. pc'[r] = "resolve" /\ old'[r] = env /\ UNCHANGED <<revoked, env, web>>
    BY <1>1, <1>p, GotoType DEF StartRun, TypeOK
  <2> QED
    BY <1>r, <1>u, <2>1 DEF RunHolds, InUseNotRevoked
<1>2. CASE ResolveIdentity(r)
  <2>1. pc'[r] \in {"issue", "unresolved"} /\ pc[r] = "resolve"
        /\ UNCHANGED <<revoked, env, web, old, new>>
    BY <1>2, <1>p, GotoType DEF ResolveIdentity
  <2> QED
    BY <1>r, <1>h, <1>u, <2>1 DEF RunHolds, InUseNotRevoked
<1>3. CASE GiveUp(r)
  BY <1>3, <1>u, EndHolds DEF GiveUp, InUseNotRevoked
<1>4. CASE IssueToken(r)
  <2>1. CASE \E t \in Tokens : CreateSession(r, t)
             /\ Goto(r, "write")
             /\ UNCHANGED <<env, web, old, timeVars, faults>>
    <3>1. PICK t \in Tokens : CreateSession(r, t)
      BY <2>1
    <3>2. pc[r] = "issue" /\ pc'[r] = "write"
      BY <1>4, <2>1, <1>p, GotoType DEF IssueToken
    <3>3. t \notin {env, web, old[r]}
      BY <3>1, <3>2 DEF CreateSession, Forgotten
    <3>4. new'[r] = t /\ ~revoked'[t] /\ \A s \in Tokens \ {t} : revoked'[s] = revoked[s]
      BY <3>1 DEF CreateSession, TypeOK
    <3>5. env \in Tokens /\ old[r] \in Tokens /\ (web # Down => web \in Tokens)
      BY DEF TypeOK
    <3>6. UNCHANGED <<env, web, old>>
      BY <2>1
    <3> QED
      BY <1>r, <1>h, <1>u, <3>2, <3>3, <3>4, <3>5, <3>6 DEF RunHolds, InUseNotRevoked
  <2>2. CASE EndWithout(r) /\ UNCHANGED <<life, revoked, env, web>>
    BY <2>2, <1>u, EndHolds DEF InUseNotRevoked
  <2> QED
    BY <1>4, <2>1, <2>2 DEF IssueToken
<1>5. CASE WriteEnv(r)
  <2>1. CASE env' = new[r] /\ Goto(r, "restart")
             /\ UNCHANGED <<life, revoked, web, old, new, timeVars, faults>>
    <3>1. pc[r] = "write" /\ pc'[r] = "restart"
      BY <1>5, <2>1, <1>p, GotoType DEF WriteEnv
    <3> QED
      BY <1>r, <1>h, <1>u, <2>1, <3>1 DEF RunHolds, InUseNotRevoked
  <2>2. CASE EndWithout(r) /\ UNCHANGED <<life, revoked, env, web>>
    BY <2>2, <1>u, EndHolds DEF InUseNotRevoked
  <2> QED
    BY <1>5, <2>1, <2>2 DEF WriteEnv
<1>6. CASE RestartWeb(r)
  <2>1. PICK ok \in BOOLEAN :
          RestartService(ok) /\ Goto(r, IF ok THEN "health" ELSE "restore")
    BY <1>6 DEF RestartWeb
  <2>2. pc[r] = "restart" /\ pc'[r] = (IF ok THEN "health" ELSE "restore")
        /\ UNCHANGED <<revoked, env, old, new>>
    BY <1>6, <2>1, <1>p, GotoType DEF RestartWeb
  <2>3. web' \in {web, env, Down} /\ (ok => web' \in {env, Down})
    BY <2>1, RestartType
  <2> QED
    BY <1>r, <1>h, <1>u, <2>2, <2>3 DEF RunHolds, InUseNotRevoked
<1>7. CASE WaitUntilHealthy(r)
  <2>1. pc[r] = "health" /\ pc'[r] \in {"revoke_old", "restore"}
        /\ UNCHANGED <<revoked, env, web, old, new>>
    BY <1>7, <1>p, GotoType DEF WaitUntilHealthy
  <2> QED
    BY <1>r, <1>h, <1>u, <2>1 DEF RunHolds, InUseNotRevoked
<1>8. CASE RestoreEnv(r)
  <2>1. CASE env' = old[r] /\ Goto(r, "restart_old")
             /\ UNCHANGED <<life, revoked, web, old, new, timeVars, faults>>
    <3>1. pc[r] = "restore" /\ pc'[r] = "restart_old"
      BY <1>8, <2>1, <1>p, GotoType DEF RestoreEnv
    <3> QED
      BY <1>r, <1>h, <1>u, <2>1, <3>1 DEF RunHolds, InUseNotRevoked
  <2>2. CASE EndWithout(r) /\ UNCHANGED <<life, revoked, env, web>>
    BY <2>2, <1>u, EndHolds DEF InUseNotRevoked
  <2> QED
    BY <1>8, <2>1, <2>2 DEF RestoreEnv
<1>9. CASE RestartOld(r)
  <2>1. PICK ok \in BOOLEAN :
          /\ RestartService(ok)
          /\ IF ok THEN Goto(r, "revoke_new") /\ UNCHANGED <<old, new, timeVars>>
                   ELSE EndWithout(r)
    BY <1>9 DEF RestartOld
  <2>2. web' \in {web, env, Down} /\ (ok => web' \in {env, Down}) /\ UNCHANGED <<revoked, env>>
    BY <1>9, <2>1, RestartType DEF RestartOld
  <2>3. InUseNotRevoked'
    BY <1>u, <2>2 DEF InUseNotRevoked
  <2>4. CASE ok
    <3>1. pc[r] = "restart_old" /\ pc'[r] = "revoke_new" /\ UNCHANGED <<old, new>>
      BY <1>9, <2>1, <2>4, <1>p, GotoType DEF RestartOld
    <3> QED
      BY <1>r, <1>h, <2>2, <2>3, <2>4, <3>1 DEF RunHolds
  <2>5. CASE ~ok
    BY <2>1, <2>3, <2>5, EndHolds
  <2> QED
    BY <2>4, <2>5
<1>10. CASE RevokeNew(r)
  <2>1. pc[r] = "revoke_new" /\ UNCHANGED <<env, web>>
        /\ revoked' \in {revoked, [revoked EXCEPT ![new[r]] = TRUE]}
    BY <1>10 DEF RevokeNew
  <2>2. env # new[r] /\ web # new[r]
    BY <1>h, <2>1, SessionRotationAssumption DEF TypeOK
  <2>3. InUseNotRevoked'
    BY <1>u, <2>1, <2>2 DEF InUseNotRevoked, TypeOK
  <2> QED
    BY <1>10, <2>3, EndHolds DEF RevokeNew
<1>11. CASE RevokeOld(r)
  <2>1. pc[r] = "revoke_old" /\ pc'[r] = "idle" /\ UNCHANGED <<env, web>>
        /\ revoked' \in {revoked, [revoked EXCEPT ![old[r]] = TRUE]}
    BY <1>11, <1>p, GotoType DEF RevokeOld
  <2>2. env # old[r] /\ web # old[r]
    BY <1>h, <2>1, SessionRotationAssumption DEF TypeOK
  <2>3. InUseNotRevoked'
    BY <1>u, <2>1, <2>2 DEF InUseNotRevoked, TypeOK
  <2> QED
    BY <1>r, <2>1, <2>3 DEF RunHolds
<1> QED
  BY <1>1, <1>2, <1>3, <1>4, <1>5, <1>6, <1>7, <1>8, <1>9, <1>10, <1>11 DEF Run

LEMMA NextKeeps ==
  ASSUME OneAtATime, RotationInv, [Next]_vars
  PROVE  RotationInv'
<1> USE DEF RotationInv, runVars, timeVars
<1>t. TypeOK'
  BY NextTypes
<1>1. CASE Tick
  BY <1>t, <1>1 DEF Tick, RunHolds, InUseNotRevoked, Issued, NewUsed
<1>2. CASE ServiceDies
  <2>1. web' \in {Down, env} /\ UNCHANGED <<revoked, env, pc, old, new>>
    BY <1>2 DEF ServiceDies
  <2> QED
    BY <1>t, <2>1 DEF RunHolds, InUseNotRevoked, Issued, NewUsed
<1>3. ASSUME NEW r \in Rotators, Crash(r) PROVE RotationInv'
  <2>1. web' \in {web, env} /\ UNCHANGED <<revoked, env>>
    BY <1>3 DEF Crash
  <2> QED
    BY <1>t, <1>3, <2>1, EndHolds DEF Crash, InUseNotRevoked
<1>4. CASE UNCHANGED vars
  BY <1>t, <1>4 DEF vars, RunHolds, InUseNotRevoked, Issued, NewUsed
<1> QED
  BY <1>t, <1>1, <1>2, <1>3, <1>4, RunKeeps DEF Next

LEMMA InvAlways == OneAtATime /\ Spec => []RotationInv
<1>1. OneAtATime /\ RotationInv /\ [Next]_vars => RotationInv'
  BY NextKeeps
<1>2. Init => RotationInv
  BY InitTypes, InitHolds DEF RotationInv
<1>3. OneAtATime => []OneAtATime
  <2>1. OneAtATime => OneAtATime'
    BY DEF OneAtATime
  <2> QED
    BY <2>1, PTL
<1> QED
  BY <1>1, <1>2, <1>3, PTL DEF Spec

-----------------------------------------------------------------------------
(* The session in use is renewed in time.                                  *)

OnlyTheTimer == \E r : Rotators = {r}

(* The run of this interval has not ended yet.                             *)
RunIsDue == due # {} \/ \E r \in Rotators : pc[r] # "idle"

(* A token has lost an interval for each miss since it was issued, and one *)
(* more while the run is due.                                              *)
Lasts(t) == life[t] + misses + (IF RunIsDue THEN 1 ELSE 0) >= TTL

(* What is in use, or may be put back, lasts; a new token is of this       *)
(* interval.                                                               *)
TimeInv ==
  /\ RotationInv
  /\ Lasts(env)
  /\ web # Down => Lasts(web)
  /\ \A r \in Rotators : /\ pc[r] # "idle" => Lasts(old[r])
                         /\ pc[r] \in Issued => life[new[r]] = TTL

(* A run that ends without a new token is a miss.                          *)
LEMMA EndLasts ==
  ASSUME OneAtATime, TimeInv, TypeOK', NEW r \in Rotators, pc[r] # "idle", EndWithout(r), life' = life
  PROVE  /\ \A t \in Tokens : Lasts(t) => Lasts(t)'
         /\ \A s \in Rotators : pc'[s] = "idle"
<1>1. misses' = (IF misses < TTL THEN misses + 1 ELSE TTL) /\ misses \in 0 .. TTL /\ TTL \in Nat
  BY SessionRotationAssumption DEF EndWithout, TimeInv, RotationInv, TypeOK
<1>2. \A s \in Rotators : pc'[s] = "idle"
  BY EndType DEF OneAtATime, TimeInv, RotationInv
<1>3. RunIsDue
  BY DEF RunIsDue
<1>4. ASSUME NEW t \in Tokens, Lasts(t) PROVE Lasts(t)'
  <2>1. life[t] + misses + 1 >= TTL /\ life[t] \in Nat
    BY <1>3, <1>4 DEF Lasts, TimeInv, RotationInv, TypeOK
  <2>2. life[t] + misses' >= TTL
    BY <1>1, <2>1
  <2>3. (IF RunIsDue THEN 1 ELSE 0)' \in {0, 1}
    OBVIOUS
  <2> QED
    BY <1>1, <2>1, <2>2, <2>3 DEF Lasts
<1> QED
  BY <1>2, <1>4

(* A run that goes on lets no time pass.                                   *)
LEMMA StaysDue ==
  ASSUME TypeOK, NEW r \in Rotators, pc[r] # "idle" \/ r \in due, pc'[r] # "idle", misses' = misses,
         NEW t \in Tokens, Lasts(t), life'[t] = life[t]
  PROVE  Lasts(t)'
<1>1. RunIsDue /\ RunIsDue'
  BY DEF RunIsDue
<1> QED
  BY <1>1 DEF Lasts

LEMMA RunLasts ==
  ASSUME OneAtATime, TimeInv, RotationInv', NEW r \in Rotators, Run(r)
  PROVE  TimeInv'
<1> USE DEF runVars, timeVars
<1>t. TypeOK /\ TypeOK' /\ RotationInv
  BY DEF TimeInv, RotationInv
<1>r. \A s \in Rotators : s = r
  BY DEF OneAtATime
<1>p. Phases = {"idle", "resolve", "unresolved", "issue", "write", "restart", "health",
                "restore", "restart_old", "revoke_new", "revoke_old"}
  BY DEF Phases
<1>h. /\ env \in Tokens /\ old[r] \in Tokens /\ new[r] \in Tokens /\ web \in Tokens \cup {Down}
      /\ Lasts(env) /\ (web # Down => Lasts(web)) /\ (pc[r] # "idle" => Lasts(old[r]))
      /\ pc[r] \in Issued => life[new[r]] = TTL
  BY <1>t DEF TimeInv, TypeOK
<1>n. ASSUME pc[r] \in Issued PROVE Lasts(new[r])
  BY <1>t, <1>h, <1>n, SessionRotationAssumption DEF Lasts, TypeOK
<1>e. ASSUME pc[r] # "idle", EndWithout(r), life' = life, env' = env, web' \in {web, env, Down} PROVE TimeInv'
  <2>1. \A t \in Tokens : Lasts(t) => Lasts(t)'
    BY <1>t, <1>e, EndLasts
  <2>2. \A s \in Rotators : pc'[s] = "idle"
    BY <1>t, <1>e, EndLasts
  <2> QED
    BY <1>t, <1>h, <1>e, <2>1, <2>2 DEF TimeInv, Issued
<1>g. ASSUME pc[r] # "idle" \/ r \in due, pc'[r] # "idle", misses' = misses,
             env' \in Tokens, old'[r] \in Tokens, web' \in Tokens \cup {Down},
             life'[env'] = life[env'], Lasts(env'), life'[old'[r]] = life[old'[r]], Lasts(old'[r]),
             web' # Down => life'[web'] = life[web'] /\ Lasts(web'),
             pc'[r] \in Issued => life'[new'[r]] = TTL
      PROVE  TimeInv'
  <2>1. PICK e, o, w : e = env' /\ o = old'[r] /\ w = web'
    OBVIOUS
  <2>2. Lasts(e)' /\ Lasts(o)' /\ (w # Down => Lasts(w)')
    BY <1>t, <1>g, <2>1, StaysDue
  <2>3. Lasts(env)' /\ Lasts(old[r])' /\ (web' # Down => Lasts(web)')
    BY <2>1, <2>2 DEF Lasts
  <2> QED
    BY <1>r, <1>g, <2>3 DEF TimeInv
<1>1. CASE StartRun(r)
  <2>1. pc'[r] = "resolve" /\ r \in due /\ old'[r] = env /\ UNCHANGED <<life, env, web, misses>>
    BY <1>t, <1>1, <1>p, GotoType DEF StartRun, TypeOK
  <2> QED
    BY <1>h, <1>g, <2>1 DEF Issued
<1>2. CASE ResolveIdentity(r)
  <2>1. pc[r] = "resolve" /\ pc'[r] \in {"issue", "unresolved"} /\ UNCHANGED <<life, env, web, old, misses>>
    BY <1>t, <1>2, <1>p, GotoType DEF ResolveIdentity
  <2> QED
    BY <1>h, <1>g, <2>1 DEF Issued
<1>3. CASE GiveUp(r)
  BY <1>e, <1>3 DEF GiveUp
<1>4. CASE IssueToken(r)
  <2>1. CASE \E t \in Tokens : CreateSession(r, t)
             /\ Goto(r, "write")
             /\ UNCHANGED <<env, web, old, timeVars, faults>>
    <3>1. PICK t \in Tokens : CreateSession(r, t)
      BY <2>1
    <3>2. pc[r] = "issue" /\ pc'[r] = "write" /\ UNCHANGED <<env, web, old, misses>>
      BY <1>t, <1>4, <2>1, <1>p, GotoType DEF IssueToken
    <3>3. t \notin {env, web, old[r]}
      BY <3>1, <3>2 DEF CreateSession, Forgotten
    <3>4. new'[r] = t /\ life'[t] = TTL /\ \A s \in Tokens \ {t} : life'[s] = life[s]
      BY <1>t, <3>1 DEF CreateSession, TypeOK
    <3> QED
      BY <1>h, <1>g, <3>2, <3>3, <3>4
  <2>2. CASE EndWithout(r) /\ UNCHANGED <<life, revoked, env, web>>
    BY <1>e, <1>4, <2>2 DEF IssueToken
  <2> QED
    BY <1>4, <2>1, <2>2 DEF IssueToken
<1>5. CASE WriteEnv(r)
  <2>1. CASE env' = new[r] /\ Goto(r, "restart")
             /\ UNCHANGED <<life, revoked, web, old, new, timeVars, faults>>
    <3>1. pc[r] = "write" /\ pc'[r] = "restart"
      BY <1>t, <1>5, <2>1, <1>p, GotoType DEF WriteEnv
    <3> QED
      BY <1>h, <1>n, <1>g, <2>1, <3>1 DEF Issued
  <2>2. CASE EndWithout(r) /\ UNCHANGED <<life, revoked, env, web>>
    BY <1>e, <1>5, <2>2 DEF WriteEnv
  <2> QED
    BY <1>5, <2>1, <2>2 DEF WriteEnv
<1>6. CASE RestartWeb(r)
  <2>1. PICK ok \in BOOLEAN :
          RestartService(ok) /\ Goto(r, IF ok THEN "health" ELSE "restore")
    BY <1>6 DEF RestartWeb
  <2>2. pc[r] = "restart" /\ pc'[r] \in {"health", "restore"} /\ UNCHANGED <<life, env, old, new, misses>>
    BY <1>t, <1>6, <2>1, <1>p, GotoType DEF RestartWeb
  <2>3. web' \in {web, env, Down}
    BY <1>t, <2>1, RestartType
  <2> QED
    BY <1>h, <1>g, <2>2, <2>3 DEF Issued
<1>7. CASE WaitUntilHealthy(r)
  <2>1. pc[r] = "health" /\ pc'[r] \in {"revoke_old", "restore"}
        /\ UNCHANGED <<life, env, web, old, new, misses>>
    BY <1>t, <1>7, <1>p, GotoType DEF WaitUntilHealthy
  <2> QED
    BY <1>h, <1>g, <2>1 DEF Issued
<1>8. CASE RestoreEnv(r)
  <2>1. CASE env' = old[r] /\ Goto(r, "restart_old")
             /\ UNCHANGED <<life, revoked, web, old, new, timeVars, faults>>
    <3>1. pc[r] = "restore" /\ pc'[r] = "restart_old"
      BY <1>t, <1>8, <2>1, <1>p, GotoType DEF RestoreEnv
    <3> QED
      BY <1>h, <1>g, <2>1, <3>1 DEF Issued
  <2>2. CASE EndWithout(r) /\ UNCHANGED <<life, revoked, env, web>>
    BY <1>e, <1>8, <2>2 DEF RestoreEnv
  <2> QED
    BY <1>8, <2>1, <2>2 DEF RestoreEnv
<1>9. CASE RestartOld(r)
  <2>1. PICK ok \in BOOLEAN :
          /\ RestartService(ok)
          /\ IF ok THEN Goto(r, "revoke_new") /\ UNCHANGED <<old, new, timeVars>>
                   ELSE EndWithout(r)
    BY <1>9 DEF RestartOld
  <2>2. pc[r] = "restart_old" /\ web' \in {web, env, Down} /\ UNCHANGED <<life, env>>
    BY <1>t, <1>9, <2>1, RestartType DEF RestartOld
  <2>3. CASE ok
    <3>1. pc'[r] = "revoke_new" /\ UNCHANGED <<old, new, misses>>
      BY <1>t, <2>1, <2>3, <1>p, GotoType
    <3> QED
      BY <1>h, <1>g, <2>2, <3>1 DEF Issued
  <2>4. CASE ~ok
    BY <1>e, <2>1, <2>2, <2>4
  <2> QED
    BY <2>3, <2>4
<1>10. CASE RevokeNew(r)
  BY <1>e, <1>10 DEF RevokeNew
<1>11. CASE RevokeOld(r)
  <2>1. /\ pc[r] = "revoke_old" /\ pc'[r] = "idle" /\ misses' = 0 /\ UNCHANGED <<life, env, web>>
    BY <1>t, <1>11, <1>p, GotoType DEF RevokeOld
  <2>2. env = new[r] /\ web \in {new[r], Down} /\ life[new[r]] = TTL
    BY <1>t, <1>h, <2>1 DEF RotationInv, RunHolds, NewUsed, Issued
  <2>3. (IF RunIsDue THEN 1 ELSE 0)' \in {0, 1} /\ TTL \in Nat
    BY SessionRotationAssumption
  <2>4. Lasts(env)' /\ (web' # Down => Lasts(web)')
    BY <2>1, <2>2, <2>3 DEF Lasts
  <2> QED
    BY <1>r, <2>1, <2>4 DEF TimeInv, Issued
<1> QED
  BY <1>1, <1>2, <1>3, <1>4, <1>5, <1>6, <1>7, <1>8, <1>9, <1>10, <1>11 DEF Run

LEMMA NextLasts ==
  ASSUME OnlyTheTimer, TimeInv, [Next]_vars
  PROVE  TimeInv'
<1> USE DEF runVars, timeVars
<1>o. OneAtATime /\ Rotators # {}
  BY DEF OneAtATime, OnlyTheTimer
<1>t. TypeOK /\ RotationInv /\ RotationInv' /\ TypeOK'
  BY <1>o, NextKeeps DEF TimeInv, RotationInv
<1>1. CASE Tick
  <2>1. ~RunIsDue /\ RunIsDue' /\ UNCHANGED <<env, web, pc, misses>> /\ \A r \in Rotators : pc'[r] = "idle"
    BY <1>o, <1>1 DEF Tick, RunIsDue
  <2>2. ASSUME NEW t \in Tokens, Lasts(t) PROVE Lasts(t)'
    <3>1. /\ life'[t] = (IF life[t] = 0 THEN 0 ELSE life[t] - 1) /\ life[t] \in Nat
          /\ misses \in Nat /\ TTL \in Nat /\ life[t] + misses >= TTL
      BY <1>t, <1>1, <2>1, <2>2, SessionRotationAssumption DEF Tick, Lasts, TypeOK
    <3> QED
      BY <2>1, <3>1 DEF Lasts
  <2> QED
    BY <1>t, <2>1, <2>2 DEF TimeInv, TypeOK, Issued
<1>2. CASE ServiceDies
  BY <1>t, <1>2 DEF ServiceDies, TimeInv, Lasts, RunIsDue
<1>3. ASSUME NEW r \in Rotators, Crash(r) PROVE TimeInv'
  <2>1. \A t \in Tokens : Lasts(t) => Lasts(t)'
    BY <1>o, <1>t, <1>3, EndLasts DEF Crash
  <2>2. \A s \in Rotators : pc'[s] = "idle"
    BY <1>o, <1>t, <1>3, EndLasts DEF Crash
  <2> QED
    BY <1>t, <1>3, <2>1, <2>2 DEF Crash, TimeInv, TypeOK, Issued
<1>4. CASE UNCHANGED vars
  BY <1>t, <1>4 DEF vars, TimeInv, Lasts, RunIsDue
<1> QED
  BY <1>o, <1>t, <1>1, <1>2, <1>3, <1>4, RunLasts DEF Next

-----------------------------------------------------------------------------
(* The results.                                                            *)

(* The state of every run, overlapping ones included, keeps its type.      *)
THEOREM TypeCorrect == Spec => []TypeOK
<1>1. TypeOK /\ [Next]_vars => TypeOK'
  BY NextTypes
<1> QED
  BY <1>1, InitTypes, PTL DEF Spec

(* As long as runs do not overlap, nothing that is in use is ever revoked, *)
(* however many steps fail and wherever a run stops.                       *)
THEOREM NothingInUseRevoked == OneAtATime /\ Spec => []InUseNotRevoked
<1>1. RotationInv => InUseNotRevoked
  BY DEF RotationInv
<1> QED
  BY <1>1, InvAlways, PTL

(* With the timer's run alone, the token in use is replaced before it      *)
(* expires as long as the misses leave an interval to spare.               *)
THEOREM RenewedInTime == OnlyTheTimer /\ Spec => []ServedInTime
<1>1. Init => TimeInv
  <2> SUFFICES ASSUME Init PROVE TimeInv
    OBVIOUS
  <2>1. TypeOK /\ RotationInv
    BY InitTypes, InitHolds DEF RotationInv
  <2>2. /\ life[env] = TTL /\ web = env /\ misses = 0
        /\ \A r \in Rotators : pc[r] = "idle"
    BY Zenon DEF Init
  <2>3. (IF RunIsDue THEN 1 ELSE 0) \in {0, 1} /\ TTL \in Nat
    BY SessionRotationAssumption
  <2>4. Lasts(env)
    BY <2>2, <2>3 DEF Lasts
  <2> QED
    BY <2>1, <2>2, <2>4 DEF TimeInv, Issued
<1>2. OnlyTheTimer /\ TimeInv /\ [Next]_vars => TimeInv'
  BY NextLasts
<1>3. TimeInv => ServedInTime
  <2> SUFFICES ASSUME TimeInv, misses + 1 < TTL, NEW t \in Tokens, Lasts(t)
               PROVE  life[t] > 0
    BY DEF ServedInTime, TimeInv, RotationInv, TypeOK
  <2>1. life[t] \in Nat /\ misses \in Nat /\ TTL \in Nat
    BY SessionRotationAssumption DEF TimeInv, RotationInv, TypeOK
  <2>2. (IF RunIsDue THEN 1 ELSE 0) \in {0, 1}
    OBVIOUS
  <2> QED
    BY <2>1, <2>2 DEF Lasts
<1>4. OnlyTheTimer => []OnlyTheTimer
  <2>1. OnlyTheTimer => OnlyTheTimer'
    BY DEF OnlyTheTimer
  <2> QED
    BY <2>1, PTL
<1> QED
  BY <1>1, <1>2, <1>3, <1>4, PTL DEF Spec

=============================================================================
