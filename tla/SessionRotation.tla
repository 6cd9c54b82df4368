--------------------------- MODULE SessionRotation ---------------------------
(***************************************************************************)
(* scripts/rotate_web_session.py and the web service whose token it        *)
(* renews.                                                                 *)
(*                                                                         *)
(* A run reads the token in the env file, issues a new one, writes it,     *)
(* restarts the service, waits until the settings page is healthy and only *)
(* then revokes the old token; when it cannot, it puts the old one back.   *)
(* One unit of time is the interval of the timer, TTL of them the life of  *)
(* a session.                                                              *)
(***************************************************************************)
EXTENDS Naturals

CONSTANTS
  Rotators,      (* runs that may be under way together: the timer's, and  *)
                 (* one an operator starts by hand                         *)
  Tokens,        (* tokens; one that nobody holds any more is used again   *)
  TTL,           (* life of a session in intervals of the timer            *)
  IdentityGiven, (* ISMS_SESSION_TENANT_ID and ISMS_SESSION_USER_ID are set *)
  Faults,        (* what may go wrong                                      *)
  MaxFaults      (* bound of the model on how often                        *)

Down == "down"

FaultKinds == {"issue", "write", "restart", "service", "health", "revoke", "crash"}

ASSUME SessionRotationAssumption ==
  /\ TTL \in Nat \ {0}
  /\ MaxFaults \in Nat
  /\ IdentityGiven \in BOOLEAN
  /\ Faults \subseteq FaultKinds
  /\ Down \notin Tokens
  /\ Tokens # {}

VARIABLES
  life,     (* intervals until app.sessions.expires_at, per token          *)
  revoked,  (* app.sessions.revoked_at is set                              *)
  env,      (* the token in the env file                                   *)
  web,      (* the token the web process was started with, or Down         *)
  pc,       (* the statement of main a run executes next                   *)
  old, new, (* old_token and new_token of a run                            *)
  due,      (* the runs that have not started in this interval             *)
  misses,   (* history: runs in a row that replaced nothing, up to TTL       *)
  faults    (* faults so far                                               *)

runVars  == <<pc, old, new>>
timeVars == <<due, misses>>
vars     == <<life, revoked, env, web, runVars, timeVars, faults>>

Phases == {"idle", "resolve", "unresolved", "issue", "write", "restart", "health",
           "restore", "restart_old", "revoke_new", "revoke_old"}

TypeOK ==
  /\ life    \in [Tokens -> 0 .. TTL]
  /\ revoked \in [Tokens -> BOOLEAN]
  /\ env     \in Tokens
  /\ web     \in Tokens \cup {Down}
  /\ pc      \in [Rotators -> Phases]
  /\ old     \in [Rotators -> Tokens]
  /\ new     \in [Rotators -> Tokens]
  /\ due     \in SUBSET Rotators
  /\ misses  \in 0 .. TTL
  /\ faults  \in 0 .. MaxFaults

(* A first token has been issued and put into the env file by hand.        *)
Init ==
  \E t \in Tokens :
    /\ life    = [s \in Tokens |-> IF s = t THEN TTL ELSE 0]
    /\ revoked = [s \in Tokens |-> FALSE]
    /\ env     = t
    /\ web     = t
    /\ pc      = [r \in Rotators |-> "idle"]
    /\ old     = [r \in Rotators |-> t]
    /\ new     = [r \in Rotators |-> t]
    /\ due     = {}
    /\ misses  = 0
    /\ faults  = 0

-----------------------------------------------------------------------------
(* app.set_tenant_context accepts the token.                               *)
Valid(t) == life[t] > 0 /\ ~revoked[t]

Served == web # Down /\ Valid(web)

Fault(kind) ==
  /\ kind \in Faults
  /\ faults < MaxFaults
  /\ faults' = faults + 1

Goto(r, phase) == pc' = [pc EXCEPT ![r] = phase]

(* A run that ends without having replaced the token.                      *)
EndWithout(r) ==
  /\ Goto(r, "idle")
  /\ misses' = IF misses < TTL THEN misses + 1 ELSE TTL
  /\ UNCHANGED <<old, new, due>>

(* Nobody holds the token any more, whether or not its session is alive.   *)
Forgotten(t) ==
  /\ t \notin {env, web}
  /\ \A r \in Rotators : pc[r] # "idle" => t \notin {old[r], new[r]}

-----------------------------------------------------------------------------
(* Time, the timer and the web service.                                    *)

(* The runs of an interval have ended before the next one begins.          *)
Tick ==
  /\ due = {} /\ \A r \in Rotators : pc[r] = "idle"
  /\ life' = [t \in Tokens |-> IF life[t] = 0 THEN 0 ELSE life[t] - 1]
  /\ due'  = Rotators
  /\ UNCHANGED <<revoked, env, web, runVars, misses, faults>>

(* The service dies; whoever starts it again starts it from the env file.  *)
ServiceDies ==
  /\ Fault("service")
  /\ web # Down
  /\ web' \in {Down, env}
  /\ UNCHANGED <<life, revoked, env, runVars, timeVars>>

(* The process of a run stops, or its machine does.                        *)
Crash(r) ==
  /\ Fault("crash")
  /\ pc[r] # "idle"
  /\ web' \in {web, env}
  /\ EndWithout(r)
  /\ UNCHANGED <<life, revoked, env>>

-----------------------------------------------------------------------------
(* main.                                                                   *)

StartRun(r) ==
  /\ r \in due /\ pc[r] = "idle"
  /\ due' = due \ {r}
  /\ old' = [old EXCEPT ![r] = env]
  /\ Goto(r, "resolve")
  /\ UNCHANGED <<life, revoked, env, web, new, misses, faults>>

ResolveIdentity(r) ==
  /\ pc[r] = "resolve"
  /\ Goto(r, IF IdentityGiven \/ Valid(old[r]) THEN "issue" ELSE "unresolved")
  /\ UNCHANGED <<life, revoked, env, web, old, new, timeVars, faults>>

(* RuntimeError: the run exits before it has changed anything.             *)
GiveUp(r) ==
  /\ pc[r] = "unresolved"
  /\ EndWithout(r)
  /\ UNCHANGED <<life, revoked, env, web, faults>>

CreateSession(r, t) ==
  /\ Forgotten(t)
  /\ life'    = [life EXCEPT ![t] = TTL]
  /\ revoked' = [revoked EXCEPT ![t] = FALSE]
  /\ new'     = [new EXCEPT ![r] = t]

(* Variant: the new session lasts half as long (the default of             *)
(* create_session is 12 hours).                                            *)
IssueToken_DefaultTtl(r) ==
  /\ pc[r] = "issue"
  /\ \E t \in Tokens :
       /\ Forgotten(t)
       /\ life'    = [life EXCEPT ![t] = TTL \div 2]
       /\ revoked' = [revoked EXCEPT ![t] = FALSE]
       /\ new'     = [new EXCEPT ![r] = t]
  /\ Goto(r, "write")
  /\ UNCHANGED <<env, web, old, timeVars, faults>>

IssueToken(r) ==
  /\ pc[r] = "issue"
  /\ \/ /\ \E t \in Tokens : CreateSession(r, t)
        /\ Goto(r, "write")
        /\ UNCHANGED <<env, web, old, timeVars, faults>>
     \/ /\ Fault("issue")
        /\ EndWithout(r)
        /\ UNCHANGED <<life, revoked, env, web>>

(* The file is replaced in one step; a failure leaves the new token behind. *)
WriteEnv(r) ==
  /\ pc[r] = "write"
  /\ \/ /\ env' = new[r]
        /\ Goto(r, "restart")
        /\ UNCHANGED <<life, revoked, web, old, new, timeVars, faults>>
     \/ /\ Fault("write")
        /\ EndWithout(r)
        /\ UNCHANGED <<life, revoked, env, web>>

(* The restart command: it succeeds, or fails at any point of stopping and *)
(* starting the service.                                                   *)
RestartService(ok) ==
  \/ /\ ok
     /\ web' = env
     /\ UNCHANGED faults
  \/ /\ ok
     /\ Fault("service")
     /\ web' = Down
  \/ /\ ~ok
     /\ Fault("restart")
     /\ web' \in {web, env, Down}

(* Variant: the old token is revoked before the restart.                   *)
RestartWeb_RevokeFirst(r) ==
  /\ pc[r] = "restart"
  /\ \E ok \in BOOLEAN :
       /\ RestartService(ok)
       /\ Goto(r, IF ok THEN "health" ELSE "restore")
  /\ revoked' = [revoked EXCEPT ![old[r]] = TRUE]
  /\ UNCHANGED <<life, env, old, new, timeVars>>

RestartWeb(r) ==
  /\ pc[r] = "restart"
  /\ \E ok \in BOOLEAN :
       /\ RestartService(ok)
       /\ Goto(r, IF ok THEN "health" ELSE "restore")
  /\ UNCHANGED <<life, revoked, env, old, new, timeVars>>

(* Variant: the check has no deadline, it asks again until it is served.   *)
WaitUntilHealthy_NoDeadline(r) ==
  /\ pc[r] = "health"
  /\ Goto(r, IF Served THEN "revoke_old" ELSE "health")
  /\ UNCHANGED <<life, revoked, env, web, old, new, timeVars, faults>>

(* The page shows a tenant, or no such answer comes within the timeout.    *)
WaitUntilHealthy(r) ==
  /\ pc[r] = "health"
  /\ \/ Served /\ Goto(r, "revoke_old") /\ UNCHANGED faults
     \/ ~Served /\ Goto(r, "restore") /\ UNCHANGED faults
     \/ Fault("health") /\ Goto(r, "restore")
  /\ UNCHANGED <<life, revoked, env, web, old, new, timeVars>>

(* write_env in the except clause: an error there ends the run.            *)
RestoreEnv(r) ==
  /\ pc[r] = "restore"
  /\ \/ /\ env' = old[r]
        /\ Goto(r, "restart_old")
        /\ UNCHANGED <<life, revoked, web, old, new, timeVars, faults>>
     \/ /\ Fault("write")
        /\ EndWithout(r)
        /\ UNCHANGED <<life, revoked, env, web>>

(* A failure here ends the run with status 70 and revokes nothing.         *)
RestartOld(r) ==
  /\ pc[r] = "restart_old"
  /\ \E ok \in BOOLEAN :
       /\ RestartService(ok)
       /\ IF ok THEN Goto(r, "revoke_new") /\ UNCHANGED <<old, new, timeVars>>
                ELSE EndWithout(r)
  /\ UNCHANGED <<life, revoked, env>>

(* An error of this call is swallowed.                                     *)
RevokeNew(r) ==
  /\ pc[r] = "revoke_new"
  /\ \/ revoked' = [revoked EXCEPT ![new[r]] = TRUE] /\ UNCHANGED faults
     \/ Fault("revoke") /\ UNCHANGED revoked
  /\ EndWithout(r)
  /\ UNCHANGED <<life, env, web>>

RevokeOld(r) ==
  /\ pc[r] = "revoke_old"
  /\ \/ revoked' = [revoked EXCEPT ![old[r]] = TRUE] /\ UNCHANGED faults
     \/ Fault("revoke") /\ UNCHANGED revoked
  /\ Goto(r, "idle")
  /\ misses' = 0
  /\ UNCHANGED <<life, env, web, old, new, due>>

-----------------------------------------------------------------------------
Run(r) ==
  \/ StartRun(r)
  \/ ResolveIdentity(r)
  \/ GiveUp(r)
  \/ IssueToken(r)
  \/ WriteEnv(r)
  \/ RestartWeb(r)
  \/ WaitUntilHealthy(r)
  \/ RestoreEnv(r)
  \/ RestartOld(r)
  \/ RevokeNew(r)
  \/ RevokeOld(r)

Next ==
  \/ Tick
  \/ ServiceDies
  \/ \E r \in Rotators : Run(r) \/ Crash(r)

Spec == Init /\ [][Next]_vars

(* The timer fires and every process it starts runs to its end.            *)
Fairness ==
  /\ WF_vars(Tick)
  /\ \A r \in Rotators : WF_vars(Run(r))

FairSpec == Spec /\ Fairness

-----------------------------------------------------------------------------
(* Properties.                                                             *)

(* Whatever fails, and wherever a run stops, neither the running service   *)
(* nor the env file it would be started from holds a revoked token.        *)
InUseNotRevoked ==
  /\ ~revoked[env]
  /\ web # Down => ~revoked[web]

(* As the timer's comment says, one or two failed rotations in a row are   *)
(* made up for before the session expires: the token in use is renewed in  *)
(* time as long as the misses leave an interval to spare.                  *)
ServedInTime ==
  misses + 1 < TTL =>
    /\ life[env] > 0
    /\ web # Down => life[web] > 0

(* As long as the misses leave that interval to spare, the page ends up    *)
(* being served and stays served: the next run repairs whatever a failed   *)
(* or interrupted one has left behind.                                     *)
ServedAgain == [](misses + 1 < TTL) => <>[]Served

=============================================================================
