--------------------------- MODULE DeviceEnrollment ---------------------------
(***************************************************************************)
(* How a machine becomes a device: an administrator issues an invitation,  *)
(* the installer script behind its link downloads the agent and enrols the *)
(* machine, by the code in the link or by a login request that somebody    *)
(* approves, and the invitation's row records how far this has come.       *)
(*                                                                         *)
(* Each database call of the web's handlers is a transaction of its own,   *)
(* hence an action.  A machine runs one installer at a time; the location  *)
(* of its script, and of the handler that serves it, is pc.                *)
(***************************************************************************)
EXTENDS Integers

CONSTANTS
  Invitations, (* rows of app.agent_installations                          *)
  CodeAuth,    (* those with auth_method code; the others are gws          *)
  Machines,    (* hardware ids, the external_id of the devices             *)
  Windows,     (* the machines that run the PowerShell installer           *)
  ForWindows,  (* the invitations with os_family windows                   *)
  MaxKeys,     (* bound of the model on the key pairs each machine makes   *)
  MayStop      (* scripts, handlers and replies may be lost half way       *)

None   == "none"
NoRow  == 0        (* no row in app.devices                                *)
KeyOut == -1       (* a row without public_key: the device is detached     *)
Keys(m) == 1 .. MaxKeys[m]

ASSUME DeviceEnrollmentAssumption ==
  /\ CodeAuth \subseteq Invitations
  /\ Windows \subseteq Machines
  /\ ForWindows \subseteq Invitations
  /\ None \notin Machines \cup Invitations
  /\ MaxKeys \in [Machines -> Nat]
  /\ MayStop \in BOOLEAN

VARIABLES
  (* app.agent_installations                                               *)
  status,    (* status, or None before the invitation is issued            *)
  live,      (* expires_at is in the future                                *)
  hardware,  (* hardware_id                                                *)
  linked,    (* device_id, named by the machine                            *)
  (* app.device_enrollment_tokens                                          *)
  token,     (* None, or whether used_at is set                            *)
  tokenLive, (* expires_at is in the future                                *)
  (* app.devices                                                           *)
  key,       (* public_key of the machine's row, NoRow, or KeyOut          *)
  (* app.device_login_requests: the last request of each machine           *)
  request,   (* status while it is pending or approved and not expired     *)
  newer,     (* pairs of open requests: the first was created later        *)
  (* the machines                                                          *)
  pc,        (* what the installer of a machine does next                  *)
  inv,       (* the invitation it was downloaded with                      *)
  made,      (* the key pairs it has generated                             *)
  (* history                                                               *)
  enrolled,  (* pairs <<i, m>>: i has made m a device, or given it a key   *)
  revoked    (* the invitations an administrator has revoked               *)

ledger   == <<status, live, hardware, linked>>
tokens   == <<token, tokenLive>>
requests == <<request, newer>>
machine  == <<pc, inv, made>>
history  == <<enrolled, revoked>>
vars     == <<ledger, tokens, key, requests, machine, history>>

Statuses == {None, "issued", "sent", "downloaded", "installed",
             "activation_pending", "active", "expired"}
RequestStatuses == {None, "pending", "approved"}
Locations == {"idle", "downloaded", "stage", "enroll", "lookup", "poll",
              "redeem", "mark", "reply", "schedule"}

TypeOK ==
  /\ status    \in [Invitations -> Statuses]
  /\ live      \in [Invitations -> BOOLEAN]
  /\ hardware  \in [Invitations -> Machines \cup {None}]
  /\ linked    \in [Invitations -> Machines \cup {None}]
  /\ token     \in [Invitations -> {None, "unused", "used"}]
  /\ tokenLive \in [Invitations -> BOOLEAN]
  /\ \A m \in Machines : key[m] \in {NoRow, KeyOut} \cup Keys(m)
  /\ DOMAIN key = Machines
  /\ request   \in [Machines -> RequestStatuses]
  /\ newer     \in SUBSET (Machines \X Machines)
  /\ pc        \in [Machines -> Locations]
  /\ inv       \in [Machines -> Invitations \cup {None}]
  /\ made      \in [Machines -> Nat]
  /\ enrolled  \in SUBSET (Invitations \X Machines)
  /\ revoked   \in SUBSET Invitations

Init ==
  /\ status    = [i \in Invitations |-> None]
  /\ live      = [i \in Invitations |-> FALSE]
  /\ hardware  = [i \in Invitations |-> None]
  /\ linked    = [i \in Invitations |-> None]
  /\ token     = [i \in Invitations |-> None]
  /\ tokenLive = [i \in Invitations |-> FALSE]
  /\ key       = [m \in Machines |-> NoRow]
  /\ request   = [m \in Machines |-> None]
  /\ newer     = {}
  /\ pc        = [m \in Machines |-> "idle"]
  /\ inv       = [m \in Machines |-> None]
  /\ made      = [m \in Machines |-> 0]
  /\ enrolled  = {}
  /\ revoked   = {}

-----------------------------------------------------------------------------
(* The ledger of invitations.  Nothing in the repository reports the stage *)
(* failed, so that status is left out.                                     *)

(* lookup_agent_installation finds it.                                     *)
Usable(i) == live[i] /\ status[i] \notin {None, "active", "expired"}

(* mark_agent_installation answers ok.                                     *)
MarkAccepts(i, stage) ==
  /\ live[i] \/ status[i] = "active"
  /\ status[i] = "active" => stage = "active"

Given(value, old) == IF value = None THEN old ELSE value

(* Variant: the row is changed whether or not it has expired.              *)
Mark_IgnoresExpiry(i, stage, machineId, device) ==
  /\ IF status[i] = "active" /\ stage # "active"
     THEN UNCHANGED <<status, hardware, linked>>
     ELSE /\ status'   = [status EXCEPT ![i] = stage]
          /\ hardware' = [hardware EXCEPT ![i] = Given(machineId, @)]
          /\ linked'   = [linked EXCEPT ![i] = Given(device, @)]
  /\ UNCHANGED live

Mark(i, stage, machineId, device) ==
  /\ \/ /\ MarkAccepts(i, stage)
        /\ status'   = [status EXCEPT ![i] = stage]
        /\ hardware' = [hardware EXCEPT ![i] = Given(machineId, @)]
        /\ linked'   = [linked EXCEPT ![i] = Given(device, @)]
     \/ /\ ~MarkAccepts(i, stage)
        /\ status'   = [status EXCEPT ![i] = IF @ = "active" THEN @ ELSE "expired"]
        /\ UNCHANGED <<hardware, linked>>
  /\ UNCHANGED live

-----------------------------------------------------------------------------
(* Administrators, the mail worker, the invited person, and time.          *)

(* The invitation and, with it, the code it may contain.                   *)
IssueAgentInstallation(i) ==
  /\ status[i] = None
  /\ status' = [status EXCEPT ![i] = "issued"]
  /\ live'   = [live EXCEPT ![i] = TRUE]
  /\ IF i \in CodeAuth
     THEN /\ token'     = [token EXCEPT ![i] = "unused"]
          /\ tokenLive' = [tokenLive EXCEPT ![i] = TRUE]
     ELSE UNCHANGED tokens
  /\ UNCHANGED <<hardware, linked, key, requests, machine, history>>

MailSent(i) ==
  /\ status[i] = "issued"
  /\ status' = [status EXCEPT ![i] = "sent"]
  /\ UNCHANGED <<live, hardware, linked, tokens, key, requests, machine, history>>

RevokeAgentInstallation(i) ==
  /\ status[i] \notin {None, "active"}
  /\ i \notin revoked
  /\ status'  = [status EXCEPT ![i] = "expired"]
  /\ live'    = [live EXCEPT ![i] = FALSE]
  /\ revoked' = revoked \cup {i}
  /\ UNCHANGED <<hardware, linked, tokens, key, requests, machine, enrolled>>

DetachDevice(m) ==
  LET ends == {i \in Invitations : linked[i] = m /\ status[i] = "active"} IN
  /\ key[m] \in Keys(m)
  /\ key'    = [key EXCEPT ![m] = KeyOut]
  /\ status' = [i \in Invitations |-> IF i \in ends THEN "expired" ELSE status[i]]
  /\ live'   = [i \in Invitations |-> live[i] /\ i \notin ends]
  /\ UNCHANGED <<hardware, linked, tokens, requests, machine, history>>

(* The request is denied, redeemed, failed or expired.  An installer that  *)
(* still asks ends in each case.                                           *)
Close(m) ==
  /\ request' = [request EXCEPT ![m] = None]
  /\ newer'   = {p \in newer : m \notin {p[1], p[2]}}

Open(m) == request[m] # None

(* An approved request can still be denied until it is redeemed.           *)
DecideDeviceLogin(m, approve) ==
  /\ \/ /\ approve /\ request[m] = "pending"
        /\ request' = [request EXCEPT ![m] = "approved"]
        /\ UNCHANGED newer
     \/ ~approve /\ Open(m) /\ Close(m)
  /\ UNCHANGED <<ledger, tokens, key, machine, history>>

OpenRequests(i) == {m \in Machines : inv[m] = i /\ Open(m)}

(* The person the invitation is addressed to approves its newest request.  *)
ActivateForTarget(i) ==
  /\ i \notin CodeAuth /\ Usable(i)
  /\ \E m \in OpenRequests(i) :
       /\ \A n \in OpenRequests(i) \ {m} : <<m, n>> \in newer
       /\ request[m] = "pending"
       /\ request' = [request EXCEPT ![m] = "approved"]
  /\ UNCHANGED <<ledger, tokens, key, newer, machine, history>>

(* 24 hours after it was issued.                                           *)
InvitationExpires(i) ==
  /\ live[i] \/ tokenLive[i]
  /\ live'      = [live EXCEPT ![i] = FALSE]
  /\ tokenLive' = [tokenLive EXCEPT ![i] = FALSE]
  /\ UNCHANGED <<status, hardware, linked, token, key, requests, machine, history>>

(* 10 minutes after it was started.                                        *)
RequestExpires(m) ==
  /\ Open(m)
  /\ Close(m)
  /\ UNCHANGED <<ledger, tokens, key, machine, history>>

-----------------------------------------------------------------------------
(* The installer, the agent's enrol command, and the handlers they call.   *)

Goto(m, location) == pc' = [pc EXCEPT ![m] = location]

(* The binary is only served for a usable link, and for its system.        *)
Download(m, i) ==
  /\ pc[m] = "idle" /\ made[m] < MaxKeys[m]
  /\ Usable(i) /\ (i \in ForWindows <=> m \in Windows)
  /\ inv'     = [inv EXCEPT ![m] = i]
  /\ Close(m)
  /\ Goto(m, "downloaded")
  /\ UNCHANGED <<ledger, tokens, key, made, history>>

(* The answer of the ledger is ignored here.                               *)
MarkDownloaded(m) ==
  /\ pc[m] = "downloaded"
  /\ Mark(inv[m], "downloaded", None, None)
  /\ Goto(m, IF m \in Windows THEN "enroll" ELSE "stage")
  /\ UNCHANGED <<tokens, key, requests, inv, made, history>>

(* The shell script reports this before it enrols, the PowerShell script   *)
(* afterwards; both stop at a refusal.                                     *)
ReportInstalled(m) ==
  /\ pc[m] = "stage"
  /\ Mark(inv[m], "installed", m, None)
  /\ Goto(m, IF ~MarkAccepts(inv[m], "installed") THEN "idle"
             ELSE IF m \in Windows THEN "schedule" ELSE "enroll")
  /\ UNCHANGED <<tokens, key, requests, inv, made, history>>

(* The machine has become a device, or got its new key.                    *)
Enrolled(m) ==
  /\ enrolled' = enrolled \cup {<<inv[m], m>>}
  /\ UNCHANGED revoked

NewKeyPair(m) == made' = [made EXCEPT ![m] = @ + 1]

(* Variant: the code is not checked for having been used.                  *)
EnrollDevice_ChecksExpiryOnly(m) ==
  LET i == inv[m] IN
  /\ pc[m] = "enroll" /\ i \in CodeAuth
  /\ NewKeyPair(m)
  /\ IF tokenLive[i]
     THEN /\ token' = [token EXCEPT ![i] = "used"]
          /\ key'   = [key EXCEPT ![m] = made[m] + 1]
          /\ Enrolled(m)
          /\ Goto(m, "lookup")
     ELSE Goto(m, "idle") /\ UNCHANGED <<token, key, history>>
  /\ UNCHANGED <<ledger, tokenLive, requests, inv>>

(* enroll_device: an existing row of the machine gets the new key.         *)
EnrollDevice(m) ==
  LET i == inv[m] IN
  /\ pc[m] = "enroll" /\ i \in CodeAuth
  /\ NewKeyPair(m)
  /\ IF token[i] = "unused" /\ tokenLive[i]
     THEN /\ token' = [token EXCEPT ![i] = "used"]
          /\ key'   = [key EXCEPT ![m] = made[m] + 1]
          /\ Enrolled(m)
          /\ Goto(m, "lookup")
     ELSE Goto(m, "idle") /\ UNCHANGED <<token, key, history>>
  /\ UNCHANGED <<ledger, tokenLive, requests, inv>>

(* A code without a usable invitation is accepted: it may have been issued *)
(* on its own.                                                             *)
LookupAfterEnrollment(m) ==
  /\ pc[m] = "lookup"
  /\ Goto(m, IF Usable(inv[m]) THEN "mark" ELSE "reply")
  /\ UNCHANGED <<ledger, tokens, key, requests, inv, made, history>>

(* start_device_login_enrollment with the link's token: the invitation is  *)
(* bound to the machine.                                                   *)
StartLogin(m) ==
  LET i == inv[m] IN
  /\ pc[m] = "enroll" /\ i \notin CodeAuth
  /\ NewKeyPair(m)
  /\ IF Usable(i) /\ hardware[i] \in {None, m}
     THEN /\ status'   = [status EXCEPT ![i] = "activation_pending"]
          /\ hardware' = [hardware EXCEPT ![i] = m]
          /\ request'  = [request EXCEPT ![m] = "pending"]
          /\ newer'    = newer \cup ({m} \X {n \in Machines \ {m} : Open(n)})
          /\ Goto(m, "poll")
     ELSE Goto(m, "idle") /\ UNCHANGED <<status, hardware, requests>>
  /\ UNCHANGED <<live, linked, tokens, key, inv, history>>

(* Variant: every refusal is taken for "not yet".                          *)
PollLookup_RetriesRefusal(m) ==
  /\ pc[m] = "poll"
  /\ Goto(m, IF Usable(inv[m]) THEN "redeem" ELSE "poll")
  /\ UNCHANGED <<ledger, tokens, key, requests, inv, made, history>>

(* The redeem handler looks the invitation up before anything else.        *)
PollLookup(m) ==
  /\ pc[m] = "poll"
  /\ Goto(m, IF Usable(inv[m]) THEN "redeem" ELSE "idle")
  /\ UNCHANGED <<ledger, tokens, key, requests, inv, made, history>>

(* Variant: a machine that is a device already is answered like a new one. *)
Redeem_ExistingIsSuccess(m) ==
  /\ pc[m] = "redeem"
  /\ \/ /\ request[m] = "pending"
        /\ Goto(m, "poll")
        /\ UNCHANGED <<key, requests, history>>
     \/ /\ ~Open(m)
        /\ Goto(m, "idle")
        /\ UNCHANGED <<key, requests, history>>
     \/ /\ request[m] = "approved"
        /\ Close(m)
        /\ Goto(m, "mark")
        /\ IF key[m] = NoRow
           THEN key' = [key EXCEPT ![m] = made[m]] /\ Enrolled(m)
           ELSE UNCHANGED <<key, history>>
  /\ UNCHANGED <<ledger, tokens, inv, made>>

(* Variant: a machine that is a device already gets the new key.           *)
Redeem_Replaces(m) ==
  /\ pc[m] = "redeem"
  /\ \/ /\ request[m] = "pending"
        /\ Goto(m, "poll")
        /\ UNCHANGED <<key, requests, history>>
     \/ /\ ~Open(m)
        /\ Goto(m, "idle")
        /\ UNCHANGED <<key, requests, history>>
     \/ /\ request[m] = "approved"
        /\ Close(m)
        /\ Goto(m, "mark")
        /\ key' = [key EXCEPT ![m] = made[m]]
        /\ Enrolled(m)
  /\ UNCHANGED <<ledger, tokens, inv, made>>

(* redeem_device_login_enrollment.  The machine asks with a key pair made  *)
(* for this request, so a row of it is never the one the request made.     *)
Redeem(m) ==
  /\ pc[m] = "redeem"
  /\ \/ /\ request[m] = "pending"
        /\ Goto(m, "poll")
        /\ UNCHANGED <<key, requests, history>>
     \/ /\ ~Open(m)
        /\ Goto(m, "idle")
        /\ UNCHANGED <<key, requests, history>>
     \/ /\ request[m] = "approved" /\ key[m] # NoRow
        /\ Close(m)
        /\ Goto(m, "idle")
        /\ UNCHANGED <<key, history>>
     \/ /\ request[m] = "approved" /\ key[m] = NoRow
        /\ Close(m)
        /\ key'     = [key EXCEPT ![m] = made[m]]
        /\ Enrolled(m)
        /\ Goto(m, "mark")
  /\ UNCHANGED <<ledger, tokens, inv, made>>

(* Both handlers end with it; a refusal is answered with an error although *)
(* the machine has been enrolled, and the agent drops its key.             *)
MarkActive(m) ==
  LET i == inv[m] IN
  /\ pc[m] = "mark"
  /\ Mark(i, "active", IF i \in CodeAuth THEN m ELSE None, m)
  /\ Goto(m, IF MarkAccepts(i, "active") THEN "reply" ELSE "idle")
  /\ UNCHANGED <<tokens, key, requests, inv, made, history>>

(* The agent writes its key and its config.                                *)
Reply(m) ==
  /\ pc[m] = "reply"
  /\ Goto(m, IF m \in Windows THEN "stage" ELSE "schedule")
  /\ UNCHANGED <<ledger, tokens, key, requests, inv, made, history>>

(* launchd, cron or the task scheduler.                                    *)
Schedule(m) ==
  /\ pc[m] = "schedule"
  /\ Goto(m, "idle")
  /\ UNCHANGED <<ledger, tokens, key, requests, inv, made, history>>

(* The script, the handler or a reply is lost, or the call is refused for  *)
(* a reason outside the model (too many requests, malformed input).        *)
Stop(m) ==
  /\ MayStop
  /\ pc[m] # "idle"
  /\ Goto(m, "idle")
  /\ UNCHANGED <<ledger, tokens, key, requests, inv, made, history>>

-----------------------------------------------------------------------------
Installer(m) ==
  \/ MarkDownloaded(m)
  \/ ReportInstalled(m)
  \/ EnrollDevice(m)
  \/ LookupAfterEnrollment(m)
  \/ StartLogin(m)
  \/ PollLookup(m)
  \/ Redeem(m)
  \/ MarkActive(m)
  \/ Reply(m)
  \/ Schedule(m)

Next ==
  \/ \E i \in Invitations :
       \/ IssueAgentInstallation(i)
       \/ MailSent(i)
       \/ RevokeAgentInstallation(i)
       \/ ActivateForTarget(i)
       \/ InvitationExpires(i)
       \/ \E m \in Machines : Download(m, i)
  \/ \E m \in Machines :
       \/ DetachDevice(m)
       \/ \E approve \in BOOLEAN : DecideDeviceLogin(m, approve)
       \/ RequestExpires(m)
       \/ Installer(m)
       \/ Stop(m)

Spec == Init /\ [][Next]_vars

(* Scripts and handlers run, and time passes.                              *)
FairSpec ==
  /\ Spec
  /\ \A m \in Machines : WF_vars(Installer(m)) /\ WF_vars(RequestExpires(m))

-----------------------------------------------------------------------------
(* Properties.                                                             *)

(* The code of an invitation makes one device at most, however many        *)
(* machines open the link and however often a lost call is repeated.       *)
CodeServesOnce ==
  [][ \A m \in Machines, n \in Machines :
        key'[m] # key[m] /\ key'[m] \in Keys(m) /\ inv[m] \in CodeAuth
        => <<inv[m], n>> \notin enrolled ]_vars

(* An invitation that was revoked never comes back to life: a stage that   *)
(* was under way, a mail recorded late or an approval leave it expired.    *)
RevokedStaysExpired == \A i \in revoked : status[i] = "expired" /\ ~live[i]

(* The ledger only shows an invitation as active for a machine that this   *)
(* very invitation has enrolled.                                           *)
ActiveWasEnrolled ==
  \A i \in Invitations : status[i] = "active" => <<i, linked[i]>> \in enrolled

(* Only an unused code gives a known machine a new key: an approved login  *)
(* request never takes over the row of an existing device.                 *)
LoginNeverTakesOver ==
  [][ \A m \in Machines :
        key[m] # NoRow /\ key'[m] \in Keys(m) /\ key'[m] # key[m] =>
          /\ inv[m] \in CodeAuth
          /\ token[inv[m]] = "unused" /\ token'[inv[m]] = "used" ]_vars

(* An installer ends: the agent does not wait for an approval for ever.    *)
InstallerEnds == \A m \in Machines : pc[m] # "idle" ~> pc[m] = "idle"

(* A revoked invitation enrols nothing any more: the install page and the  *)
(* code are both refused as expired.                                       *)
RevokedEnrollsNothing ==
  [][ \A m \in Machines :
        key'[m] # key[m] /\ key'[m] \in Keys(m) => inv[m] \notin revoked ]_vars

(* An installer that has enrolled its machine and is still supported by    *)
(* its invitation goes on to schedule the agent: it reports installation   *)
(* and enrolment as completed.                                             *)
EnrolledIsScheduled ==
  [][ \A m \in Machines :
        pc[m] = "stage" /\ live[inv[m]] /\ <<inv[m], m>> \in enrolled
        => pc'[m] # "idle" ]_vars

===============================================================================
