------------------------ MODULE DeviceEnrollmentProofs ------------------------
(***************************************************************************)
(* Proofs about the device enrolment, for any invitations, machines and    *)
(* numbers of key pairs, and with scripts and replies lost anywhere.       *)
(***************************************************************************)
EXTENDS DeviceEnrollment, TLAPS

(* Before its key pair exists, the installer still has one to make.        *)
Keyless(m) == pc[m] \in {"downloaded", "enroll"} \/ (pc[m] = "stage" /\ m \notin Windows)

(* What the place of an installer says about its invitation and its key.   *)
Located ==
  \A m \in Machines :
    /\ pc[m] # "idle" => inv[m] \in Invitations
    /\ Keyless(m) => made[m] < MaxKeys[m]
    /\ pc[m] \in {"poll", "redeem"} => made[m] \in Keys(m) /\ inv[m] \notin CodeAuth
    /\ pc[m] \in {"lookup", "mark"} => <<inv[m], m>> \in enrolled

(* A code that is not used has enrolled nothing.                           *)
Unspent ==
  \A i \in Invitations :
    /\ status[i] = None => token[i] = None
    /\ i \in CodeAuth /\ token[i] # "used" => \A n \in Machines : <<i, n>> \notin enrolled

DeviceInv == TypeOK /\ Located /\ Unspent /\ RevokedStaysExpired /\ ActiveWasEnrolled

-----------------------------------------------------------------------------
LEMMA InitInv == Init => DeviceInv
<1> SUFFICES ASSUME Init PROVE DeviceInv
  OBVIOUS
<1> USE DeviceEnrollmentAssumption
<1>1. TypeOK
  BY DEF Init, TypeOK, Statuses, RequestStatuses, Locations, None, NoRow, KeyOut
<1>2. Located /\ Unspent
  BY DEF Init, Located, Unspent, Keyless
<1>3. RevokedStaysExpired /\ ActiveWasEnrolled
  BY DEF Init, RevokedStaysExpired, ActiveWasEnrolled, None
<1> QED
  BY <1>1, <1>2, <1>3 DEF DeviceInv

-----------------------------------------------------------------------------
(* The ledger.                                                             *)

Stages == {"downloaded", "installed", "active"}

LEMMA MarkTypes ==
  ASSUME TypeOK, NEW i \in Invitations, NEW stage \in Stages,
         NEW h \in Machines \cup {None}, NEW d \in Machines \cup {None},
         Mark(i, stage, h, d)
  PROVE  /\ status'   \in [Invitations -> Statuses]
         /\ live'     \in [Invitations -> BOOLEAN]
         /\ hardware' \in [Invitations -> Machines \cup {None}]
         /\ linked'   \in [Invitations -> Machines \cup {None}]
         /\ \A j \in Invitations : status'[j] = None => status[j] = None
BY DEF Mark, Given, TypeOK, Statuses, Stages, None

LEMMA MarkKeeps ==
  ASSUME TypeOK, RevokedStaysExpired, ActiveWasEnrolled,
         NEW i \in Invitations, NEW stage \in Stages,
         NEW h \in Machines \cup {None}, NEW d \in Machines \cup {None},
         stage = "active" => d \in Machines /\ <<i, d>> \in enrolled,
         Mark(i, stage, h, d), UNCHANGED history
  PROVE  RevokedStaysExpired' /\ ActiveWasEnrolled'
<1>1. RevokedStaysExpired'
  BY DEF Mark, MarkAccepts, TypeOK, RevokedStaysExpired, history
<1>2. ASSUME NEW j \in Invitations, status'[j] = "active"
      PROVE  <<j, linked'[j]>> \in enrolled
  <2>1. CASE j # i
    <3>1. status'[j] = status[j] /\ linked'[j] = linked[j]
      BY <2>1 DEF Mark, TypeOK
    <3> QED
      BY <1>2, <3>1 DEF ActiveWasEnrolled
  <2>2. CASE j = i /\ MarkAccepts(i, stage)
    <3>1. stage = "active"
      BY <1>2, <2>2 DEF Mark, TypeOK
    <3>2. linked'[i] = d
      BY <2>2, <3>1, DeviceEnrollmentAssumption DEF Mark, Given, TypeOK
    <3> QED
      BY <2>2, <3>1, <3>2
  <2>3. CASE j = i /\ ~MarkAccepts(i, stage)
    <3>1. status[i] = "active" /\ linked'[i] = linked[i]
      BY <1>2, <2>3 DEF Mark, TypeOK
    <3> QED
      BY <2>3, <3>1 DEF ActiveWasEnrolled
  <2> QED
    BY <2>1, <2>2, <2>3
<1>3. ActiveWasEnrolled'
  BY <1>2 DEF ActiveWasEnrolled, history
<1> QED
  BY <1>1, <1>3

LEMMA GotoTypes ==
  ASSUME TypeOK, NEW m \in Machines, NEW location \in Locations, Goto(m, location)
  PROVE  /\ pc' \in [Machines -> Locations]
         /\ pc'[m] = location
         /\ \A n \in Machines \ {m} : pc'[n] = pc[n]
BY DEF Goto, TypeOK

LEMMA CloseTypes ==
  ASSUME TypeOK, NEW m \in Machines, Close(m)
  PROVE  request' \in [Machines -> RequestStatuses] /\ newer' \in SUBSET (Machines \X Machines)
BY DEF Close, TypeOK, RequestStatuses

-----------------------------------------------------------------------------
(* Administrators, the mail worker, the invited person, and time.  They    *)
(* leave the installers alone.                                             *)

Office ==
  \/ \E i \in Invitations :
       IssueAgentInstallation(i) \/ MailSent(i) \/ RevokeAgentInstallation(i)
       \/ ActivateForTarget(i) \/ InvitationExpires(i)
  \/ \E m \in Machines :
       \/ DetachDevice(m) \/ RequestExpires(m)
       \/ \E approve \in BOOLEAN : DecideDeviceLogin(m, approve)

LEMMA LocatedUndisturbed ==
  ASSUME Located, UNCHANGED machine, enrolled' = enrolled
  PROVE  Located'
BY DEF Located, Keyless, machine

LEMMA OfficeKeeps ==
  ASSUME DeviceInv, Office
  PROVE  DeviceInv'
<1> USE DEF DeviceInv
<1>1. ASSUME NEW i \in Invitations, IssueAgentInstallation(i) PROVE DeviceInv'
  <2>1. TypeOK'
    BY <1>1 DEF IssueAgentInstallation, TypeOK, Statuses, tokens, requests, machine, history
  <2>2. Located'
    BY <1>1, LocatedUndisturbed DEF IssueAgentInstallation, history
  <2>3. Unspent'
    BY <1>1 DEF IssueAgentInstallation, Unspent, TypeOK, None, tokens, history
  <2>4. RevokedStaysExpired' /\ ActiveWasEnrolled'
    BY <1>1 DEF IssueAgentInstallation, RevokedStaysExpired, ActiveWasEnrolled, TypeOK, None, history
  <2> QED
    BY <2>1, <2>2, <2>3, <2>4
<1>2. ASSUME NEW i \in Invitations, MailSent(i) PROVE DeviceInv'
  <2>1. TypeOK'
    BY <1>2 DEF MailSent, TypeOK, Statuses, tokens, requests, machine, history
  <2>2. Located'
    BY <1>2, LocatedUndisturbed DEF MailSent, history
  <2>3. Unspent'
    BY <1>2 DEF MailSent, Unspent, TypeOK, None, tokens, history
  <2>4. RevokedStaysExpired' /\ ActiveWasEnrolled'
    BY <1>2 DEF MailSent, RevokedStaysExpired, ActiveWasEnrolled, TypeOK, history
  <2> QED
    BY <2>1, <2>2, <2>3, <2>4
<1>3. ASSUME NEW i \in Invitations, RevokeAgentInstallation(i) PROVE DeviceInv'
  <2>1. TypeOK'
    BY <1>3 DEF RevokeAgentInstallation, TypeOK, Statuses, tokens, requests, machine
  <2>2. Located'
    BY <1>3, LocatedUndisturbed DEF RevokeAgentInstallation
  <2>3. Unspent'
    BY <1>3 DEF RevokeAgentInstallation, Unspent, TypeOK, None, tokens
  <2>4. RevokedStaysExpired' /\ ActiveWasEnrolled'
    BY <1>3 DEF RevokeAgentInstallation, RevokedStaysExpired, ActiveWasEnrolled, TypeOK
  <2> QED
    BY <2>1, <2>2, <2>3, <2>4
<1>4. ASSUME NEW i \in Invitations, InvitationExpires(i) PROVE DeviceInv'
  <2>1. TypeOK'
    BY <1>4 DEF InvitationExpires, TypeOK, requests, machine, history
  <2>2. Located'
    BY <1>4, LocatedUndisturbed DEF InvitationExpires, history
  <2>3. Unspent' /\ RevokedStaysExpired' /\ ActiveWasEnrolled'
    BY <1>4 DEF InvitationExpires, Unspent, RevokedStaysExpired, ActiveWasEnrolled, TypeOK, history
  <2> QED
    BY <2>1, <2>2, <2>3
<1>5. ASSUME NEW i \in Invitations, ActivateForTarget(i) PROVE DeviceInv'
  <2>1. PICK m \in Machines :
          request' = [request EXCEPT ![m] = "approved"]
    BY <1>5 DEF ActivateForTarget, OpenRequests
  <2>2. TypeOK'
    BY <1>5, <2>1 DEF ActivateForTarget, TypeOK, RequestStatuses, ledger, tokens, machine, history
  <2>3. Located'
    BY <1>5, LocatedUndisturbed DEF ActivateForTarget, history
  <2>4. Unspent' /\ RevokedStaysExpired' /\ ActiveWasEnrolled'
    BY <1>5 DEF ActivateForTarget, Unspent, RevokedStaysExpired, ActiveWasEnrolled, ledger, tokens, history
  <2> QED
    BY <2>2, <2>3, <2>4
<1>6. ASSUME NEW m \in Machines, DetachDevice(m) PROVE DeviceInv'
  <2>1. TypeOK'
    BY <1>6 DEF DetachDevice, TypeOK, Statuses, KeyOut, tokens, requests, machine, history
  <2>2. Located'
    BY <1>6, LocatedUndisturbed DEF DetachDevice, history
  <2>3. Unspent'
    BY <1>6 DEF DetachDevice, Unspent, None, tokens, history
  <2>4. RevokedStaysExpired' /\ ActiveWasEnrolled'
    BY <1>6 DEF DetachDevice, RevokedStaysExpired, ActiveWasEnrolled, TypeOK, history
  <2> QED
    BY <2>1, <2>2, <2>3, <2>4
<1>7. ASSUME NEW m \in Machines, RequestExpires(m) PROVE DeviceInv'
  <2>1. TypeOK'
    BY <1>7, CloseTypes DEF RequestExpires, TypeOK, ledger, tokens, machine, history
  <2>2. Located'
    BY <1>7, LocatedUndisturbed DEF RequestExpires, history
  <2>3. Unspent' /\ RevokedStaysExpired' /\ ActiveWasEnrolled'
    BY <1>7 DEF RequestExpires, Unspent, RevokedStaysExpired, ActiveWasEnrolled, ledger, tokens, history
  <2> QED
    BY <2>1, <2>2, <2>3
<1>8. ASSUME NEW m \in Machines, NEW approve \in BOOLEAN, DecideDeviceLogin(m, approve)
      PROVE  DeviceInv'
  <2>1. request' \in [Machines -> RequestStatuses] /\ newer' \in SUBSET (Machines \X Machines)
    BY <1>8, CloseTypes DEF DecideDeviceLogin, TypeOK, RequestStatuses
  <2>2. TypeOK'
    BY <1>8, <2>1 DEF DecideDeviceLogin, TypeOK, ledger, tokens, machine, history
  <2>3. Located'
    BY <1>8, LocatedUndisturbed DEF DecideDeviceLogin, history
  <2>4. Unspent' /\ RevokedStaysExpired' /\ ActiveWasEnrolled'
    BY <1>8 DEF DecideDeviceLogin, Unspent, RevokedStaysExpired, ActiveWasEnrolled, ledger, tokens, history
  <2> QED
    BY <2>2, <2>3, <2>4
<1> QED
  BY <1>1, <1>2, <1>3, <1>4, <1>5, <1>6, <1>7, <1>8 DEF Office

-----------------------------------------------------------------------------
(* The installer.  A step of one leaves the others where they are.         *)

LEMMA OthersLocated ==
  ASSUME DeviceInv, NEW m \in Machines, NEW location \in Locations, Goto(m, location),
         NEW n \in Machines \ {m},
         inv'[n] = inv[n], made'[n] = made[n], enrolled \subseteq enrolled'
  PROVE  /\ pc'[n] # "idle" => inv'[n] \in Invitations
         /\ Keyless(n)' => made'[n] < MaxKeys[n]
         /\ pc'[n] \in {"poll", "redeem"} => made'[n] \in Keys(n) /\ inv'[n] \notin CodeAuth
         /\ pc'[n] \in {"lookup", "mark"} => <<inv'[n], n>> \in enrolled'
<1>1. pc'[n] = pc[n]
  BY GotoTypes DEF DeviceInv
<1> QED
  BY <1>1 DEF DeviceInv, Located, Keyless

(* A step that only moves the installer on.                                *)
LEMMA GotoKeeps ==
  ASSUME DeviceInv, NEW m \in Machines, NEW location \in Locations, Goto(m, location),
         UNCHANGED <<ledger, tokens, key, requests, inv, made, history>>,
         location # "idle" => inv[m] \in Invitations,
         location \in {"downloaded", "enroll"} \/ (location = "stage" /\ m \notin Windows)
           => made[m] < MaxKeys[m],
         location \in {"poll", "redeem"} => made[m] \in Keys(m) /\ inv[m] \notin CodeAuth,
         location \in {"lookup", "mark"} => <<inv[m], m>> \in enrolled
  PROVE  DeviceInv'
<1> USE DEF DeviceInv
<1>1. pc' \in [Machines -> Locations] /\ pc'[m] = location
  BY GotoTypes
<1>2. TypeOK'
  BY <1>1 DEF TypeOK, ledger, tokens, requests, history
<1>3. Located'
  <2>1. ASSUME NEW n \in Machines
        PROVE  /\ pc'[n] # "idle" => inv'[n] \in Invitations
               /\ Keyless(n)' => made'[n] < MaxKeys[n]
               /\ pc'[n] \in {"poll", "redeem"} => made'[n] \in Keys(n) /\ inv'[n] \notin CodeAuth
               /\ pc'[n] \in {"lookup", "mark"} => <<inv'[n], n>> \in enrolled'
    <3>1. CASE n = m
      BY <1>1, <3>1 DEF Keyless, history
    <3>2. CASE n # m
      BY <3>2, OthersLocated DEF history
    <3> QED
      BY <3>1, <3>2
  <2> QED
    BY <2>1 DEF Located
<1>4. Unspent' /\ RevokedStaysExpired' /\ ActiveWasEnrolled'
  BY DEF Unspent, RevokedStaysExpired, ActiveWasEnrolled, ledger, tokens, history
<1> QED
  BY <1>2, <1>3, <1>4

LEMMA MovesKeep ==
  ASSUME DeviceInv, NEW m \in Machines,
         LookupAfterEnrollment(m) \/ PollLookup(m) \/ Reply(m) \/ Schedule(m) \/ Stop(m)
  PROVE  DeviceInv'
<1>1. UNCHANGED <<ledger, tokens, key, requests, inv, made, history>> /\ pc[m] # "idle"
  BY DEF LookupAfterEnrollment, PollLookup, Reply, Schedule, Stop
<1>2. inv[m] \in Invitations
  BY <1>1 DEF DeviceInv, Located
<1>3. CASE LookupAfterEnrollment(m)
  <2>1. PICK location \in {"mark", "reply"} : Goto(m, location)
    BY <1>3 DEF LookupAfterEnrollment
  <2>2. <<inv[m], m>> \in enrolled
    BY <1>3 DEF LookupAfterEnrollment, DeviceInv, Located
  <2> QED
    BY <1>1, <1>2, <2>1, <2>2, GotoKeeps DEF Locations
<1>4. CASE PollLookup(m)
  <2>1. PICK location \in {"redeem", "idle"} : Goto(m, location)
    BY <1>4 DEF PollLookup
  <2>2. made[m] \in Keys(m) /\ inv[m] \notin CodeAuth
    BY <1>4 DEF PollLookup, DeviceInv, Located
  <2> QED
    BY <1>1, <1>2, <2>1, <2>2, GotoKeeps DEF Locations
<1>5. CASE Reply(m)
  <2>1. PICK location \in {"stage", "schedule"} :
          Goto(m, location) /\ (location = "stage" => m \in Windows)
    BY <1>5 DEF Reply
  <2> QED
    BY <1>1, <1>2, <2>1, GotoKeeps DEF Locations
<1>6. CASE Schedule(m) \/ Stop(m)
  <2>1. Goto(m, "idle")
    BY <1>6 DEF Schedule, Stop
  <2> QED
    BY <1>1, <2>1, GotoKeeps DEF Locations
<1> QED
  BY <1>3, <1>4, <1>5, <1>6

-----------------------------------------------------------------------------
(* Steps that write the ledger, the code or the device.                    *)

LEMMA LocatedFrom ==
  ASSUME DeviceInv, NEW m \in Machines, NEW location \in Locations, Goto(m, location),
         \A n \in Machines \ {m} : inv'[n] = inv[n] /\ made'[n] = made[n],
         enrolled \subseteq enrolled',
         location # "idle" => inv'[m] \in Invitations,
         location \in {"downloaded", "enroll"} \/ (location = "stage" /\ m \notin Windows)
           => made'[m] < MaxKeys[m],
         location \in {"poll", "redeem"} => made'[m] \in Keys(m) /\ inv'[m] \notin CodeAuth,
         location \in {"lookup", "mark"} => <<inv'[m], m>> \in enrolled'
  PROVE  Located'
<1>1. pc'[m] = location
  BY GotoTypes DEF DeviceInv
<1>2. ASSUME NEW n \in Machines
      PROVE  /\ pc'[n] # "idle" => inv'[n] \in Invitations
             /\ Keyless(n)' => made'[n] < MaxKeys[n]
             /\ pc'[n] \in {"poll", "redeem"} => made'[n] \in Keys(n) /\ inv'[n] \notin CodeAuth
             /\ pc'[n] \in {"lookup", "mark"} => <<inv'[n], n>> \in enrolled'
  <2>1. CASE n = m
    BY <1>1, <2>1 DEF Keyless
  <2>2. CASE n # m
    BY <2>2, OthersLocated
  <2> QED
    BY <2>1, <2>2
<1> QED
  BY <1>2 DEF Located

LEMMA DownloadKeeps ==
  ASSUME DeviceInv, NEW m \in Machines, NEW i \in Invitations, Download(m, i)
  PROVE  DeviceInv'
<1> USE DEF DeviceInv
<1>1. Goto(m, "downloaded") /\ "downloaded" \in Locations
  BY DEF Download, Locations
<1>2. TypeOK'
  BY <1>1, GotoTypes, CloseTypes DEF Download, TypeOK, ledger, tokens, history
<1>3. Located'
  <2>1. inv'[m] = i /\ made' = made /\ made[m] < MaxKeys[m] /\ enrolled' = enrolled
    BY DEF Download, TypeOK, history
  <2>2. \A n \in Machines \ {m} : inv'[n] = inv[n]
    BY DEF Download, TypeOK
  <2> QED
    BY <1>1, <2>1, <2>2, LocatedFrom
<1>4. Unspent' /\ RevokedStaysExpired' /\ ActiveWasEnrolled'
  BY DEF Download, Unspent, RevokedStaysExpired, ActiveWasEnrolled, ledger, tokens, history
<1> QED
  BY <1>2, <1>3, <1>4

(* The three reports of a stage.                                           *)
LEMMA ReportKeeps ==
  ASSUME DeviceInv, NEW m \in Machines, NEW location \in Locations,
         NEW stage \in Stages, NEW h \in Machines \cup {None}, NEW d \in Machines \cup {None},
         pc[m] # "idle", Mark(inv[m], stage, h, d), Goto(m, location),
         stage = "active" => d \in Machines /\ <<inv[m], d>> \in enrolled,
         location \in {"downloaded", "enroll"} \/ (location = "stage" /\ m \notin Windows)
           => made[m] < MaxKeys[m],
         location \notin {"poll", "redeem", "lookup", "mark"},
         UNCHANGED <<tokens, key, requests, inv, made, history>>
  PROVE  DeviceInv'
<1> USE DEF DeviceInv
<1>1. inv[m] \in Invitations
  BY DEF Located
<1>2. TypeOK'
  BY <1>1, MarkTypes, GotoTypes DEF TypeOK, tokens, requests, history
<1>3. Located'
  BY <1>1, LocatedFrom DEF history
<1>4. Unspent'
  BY <1>1, MarkTypes DEF Unspent, tokens, history
<1>5. RevokedStaysExpired' /\ ActiveWasEnrolled'
  BY <1>1, MarkKeeps
<1> QED
  BY <1>2, <1>3, <1>4, <1>5

LEMMA ReportsKeep ==
  ASSUME DeviceInv, NEW m \in Machines,
         MarkDownloaded(m) \/ ReportInstalled(m) \/ MarkActive(m)
  PROVE  DeviceInv'
<1>1. CASE MarkDownloaded(m)
  <2>1. PICK location \in {"enroll", "stage"} : Goto(m, location)
    BY <1>1 DEF MarkDownloaded
  <2>2. made[m] < MaxKeys[m]
    BY <1>1 DEF MarkDownloaded, DeviceInv, Located, Keyless
  <2> QED
    BY <1>1, <2>1, <2>2, ReportKeeps DEF MarkDownloaded, Stages, Locations
<1>2. CASE ReportInstalled(m)
  <2>1. PICK location \in {"idle", "schedule", "enroll"} :
          Goto(m, location) /\ (location = "enroll" => m \notin Windows)
    BY <1>2 DEF ReportInstalled
  <2>2. m \notin Windows => made[m] < MaxKeys[m]
    BY <1>2 DEF ReportInstalled, DeviceInv, Located, Keyless
  <2> QED
    BY <1>2, <2>1, <2>2, ReportKeeps DEF ReportInstalled, Stages, Locations
<1>3. CASE MarkActive(m)
  <2>1. PICK location \in {"idle", "reply"} : Goto(m, location)
    BY <1>3 DEF MarkActive
  <2>2. <<inv[m], m>> \in enrolled
    BY <1>3 DEF MarkActive, DeviceInv, Located
  <2>3. PICK h \in Machines \cup {None} : Mark(inv[m], "active", h, m)
    BY <1>3 DEF MarkActive
  <2> QED
    BY <1>3, <2>1, <2>2, <2>3, ReportKeeps DEF MarkActive, Stages, Locations
<1> QED
  BY <1>1, <1>2, <1>3

LEMMA EnrollKeeps ==
  ASSUME DeviceInv, NEW m \in Machines, EnrollDevice(m)
  PROVE  DeviceInv'
<1> USE DEF DeviceInv
<1>1. inv[m] \in Invitations /\ made[m] < MaxKeys[m] /\ made[m] \in Nat /\ MaxKeys[m] \in Nat
  BY DeviceEnrollmentAssumption DEF EnrollDevice, Located, Keyless, TypeOK
<1>2. made' \in [Machines -> Nat] /\ made'[m] = made[m] + 1 /\ made[m] + 1 \in Keys(m)
  BY <1>1 DEF EnrollDevice, NewKeyPair, TypeOK, Keys
<1>3. PICK location \in {"lookup", "idle"} :
        Goto(m, location) /\ (location = "lookup" => Enrolled(m))
  BY DEF EnrollDevice
<1>4. enrolled \subseteq enrolled' /\ enrolled' \in SUBSET (Invitations \X Machines)
  BY <1>1 DEF EnrollDevice, Enrolled, history, TypeOK
<1>5. TypeOK'
  <2>1. token' \in [Invitations -> {None, "unused", "used"}] /\ revoked' = revoked
    BY DEF EnrollDevice, Enrolled, history, TypeOK
  <2>2. DOMAIN key' = Machines /\ \A n \in Machines : key'[n] \in {NoRow, KeyOut} \cup Keys(n)
    BY <1>2 DEF EnrollDevice, TypeOK
  <2> QED
    BY <1>2, <1>3, <1>4, <2>1, <2>2, GotoTypes DEF EnrollDevice, TypeOK, ledger, requests, Locations
<1>6. Located'
  <2>1. \A n \in Machines \ {m} : inv'[n] = inv[n] /\ made'[n] = made[n]
    BY DEF EnrollDevice, NewKeyPair, TypeOK
  <2>2. location = "lookup" => <<inv'[m], m>> \in enrolled'
    BY <1>3 DEF EnrollDevice, Enrolled
  <2> QED
    BY <1>1, <1>3, <1>4, <2>1, <2>2, LocatedFrom DEF EnrollDevice, Locations
<1>7. Unspent'
  BY <1>1 DEF EnrollDevice, Enrolled, Unspent, TypeOK, None, ledger, history
<1>8. RevokedStaysExpired' /\ ActiveWasEnrolled'
  BY <1>4 DEF EnrollDevice, Enrolled, RevokedStaysExpired, ActiveWasEnrolled, ledger, history
<1> QED
  BY <1>5, <1>6, <1>7, <1>8

LEMMA StartKeeps ==
  ASSUME DeviceInv, NEW m \in Machines, StartLogin(m)
  PROVE  DeviceInv'
<1> USE DEF DeviceInv
<1>1. inv[m] \in Invitations /\ made[m] < MaxKeys[m] /\ made[m] \in Nat /\ MaxKeys[m] \in Nat
  BY DeviceEnrollmentAssumption DEF StartLogin, Located, Keyless, TypeOK
<1>2. made' \in [Machines -> Nat] /\ made'[m] = made[m] + 1 /\ made[m] + 1 \in Keys(m)
  BY <1>1 DEF StartLogin, NewKeyPair, TypeOK, Keys
<1>3. PICK location \in {"poll", "idle"} : Goto(m, location)
  BY DEF StartLogin
<1>4. TypeOK'
  <2>1. status' \in [Invitations -> Statuses] /\ hardware' \in [Invitations -> Machines \cup {None}]
    BY DEF StartLogin, Statuses, TypeOK
  <2>2. request' \in [Machines -> RequestStatuses] /\ newer' \in SUBSET (Machines \X Machines)
    BY DEF StartLogin, RequestStatuses, requests, TypeOK
  <2> QED
    BY <1>2, <1>3, <2>1, <2>2, GotoTypes DEF StartLogin, TypeOK, tokens, history, Locations
<1>5. Located'
  <2>1. \A n \in Machines \ {m} : inv'[n] = inv[n] /\ made'[n] = made[n]
    BY DEF StartLogin, NewKeyPair, TypeOK
  <2> QED
    BY <1>1, <1>2, <1>3, <2>1, LocatedFrom DEF StartLogin, Locations, history
<1>6. Unspent'
  BY DEF StartLogin, Usable, Unspent, TypeOK, None, tokens, history
<1>7. RevokedStaysExpired' /\ ActiveWasEnrolled'
  BY DEF StartLogin, Usable, RevokedStaysExpired, ActiveWasEnrolled, TypeOK, history
<1> QED
  BY <1>4, <1>5, <1>6, <1>7

LEMMA RedeemKeeps ==
  ASSUME DeviceInv, NEW m \in Machines, Redeem(m)
  PROVE  DeviceInv'
<1> USE DEF DeviceInv
<1>1. inv[m] \in Invitations \ CodeAuth /\ made[m] \in Keys(m)
  BY DEF Redeem, Located
<1>2. PICK location \in {"poll", "idle", "mark"} :
        Goto(m, location) /\ (location = "mark" => Enrolled(m))
  BY DEF Redeem
<1>3. enrolled \subseteq enrolled' /\ enrolled' \in SUBSET (Invitations \X Machines)
  BY <1>1 DEF Redeem, Enrolled, history, TypeOK
<1>4. TypeOK'
  <2>1. request' \in [Machines -> RequestStatuses] /\ newer' \in SUBSET (Machines \X Machines)
    BY CloseTypes DEF Redeem, requests, TypeOK
  <2>2. DOMAIN key' = Machines /\ \A n \in Machines : key'[n] \in {NoRow, KeyOut} \cup Keys(n)
    BY <1>1 DEF Redeem, TypeOK
  <2>3. revoked' = revoked
    BY DEF Redeem, Enrolled, history
  <2> QED
    BY <1>2, <1>3, <2>1, <2>2, <2>3, GotoTypes DEF Redeem, TypeOK, ledger, tokens, Locations
<1>5. Located'
  <2>1. location = "mark" => <<inv'[m], m>> \in enrolled'
    BY <1>2 DEF Redeem, Enrolled
  <2> QED
    BY <1>1, <1>2, <1>3, <2>1, LocatedFrom DEF Redeem, Locations
<1>6. Unspent'
  BY <1>1 DEF Redeem, Enrolled, Unspent, ledger, tokens, history
<1>7. RevokedStaysExpired' /\ ActiveWasEnrolled'
  BY <1>3 DEF Redeem, Enrolled, RevokedStaysExpired, ActiveWasEnrolled, ledger, history
<1> QED
  BY <1>4, <1>5, <1>6, <1>7

-----------------------------------------------------------------------------
LEMMA NextKeeps == DeviceInv /\ [Next]_vars => DeviceInv'
<1> SUFFICES ASSUME DeviceInv, [Next]_vars PROVE DeviceInv'
  OBVIOUS
<1>1. CASE UNCHANGED vars
  <2>1. TypeOK'
    BY <1>1 DEF DeviceInv, TypeOK, vars, ledger, tokens, requests, machine, history
  <2>2. Located'
    BY <1>1, LocatedUndisturbed DEF DeviceInv, vars, history
  <2>3. Unspent' /\ RevokedStaysExpired' /\ ActiveWasEnrolled'
    BY <1>1 DEF DeviceInv, Unspent, RevokedStaysExpired, ActiveWasEnrolled,
                vars, ledger, tokens, history
  <2> QED
    BY <2>1, <2>2, <2>3 DEF DeviceInv
<1>2. CASE Office
  BY <1>2, OfficeKeeps
<1>3. CASE \E i \in Invitations, m \in Machines : Download(m, i)
  BY <1>3, DownloadKeeps
<1>4. CASE \E m \in Machines : Installer(m) \/ Stop(m)
  BY <1>4, MovesKeep, ReportsKeep, EnrollKeeps, StartKeeps, RedeemKeeps DEF Installer
<1> QED
  BY <1>1, <1>2, <1>3, <1>4 DEF Next, Office

LEMMA InvAlways == Spec => []DeviceInv
<1> QED
  BY InitInv, NextKeeps, PTL DEF Spec

(* The columns and the places of the installers keep their types.          *)
THEOREM TypeCorrect == Spec => []TypeOK
<1>1. DeviceInv => TypeOK
  BY DEF DeviceInv
<1> QED
  BY InvAlways, <1>1, PTL

(* An invitation that was revoked stays expired, whatever the installers   *)
(* and the mail worker still report.                                       *)
THEOREM RevokedNeverRevives == Spec => []RevokedStaysExpired
<1>1. DeviceInv => RevokedStaysExpired
  BY DEF DeviceInv
<1> QED
  BY InvAlways, <1>1, PTL

(* An active invitation names a machine that it has enrolled.              *)
THEOREM ActiveMeansEnrolled == Spec => []ActiveWasEnrolled
<1>1. DeviceInv => ActiveWasEnrolled
  BY DEF DeviceInv
<1> QED
  BY InvAlways, <1>1, PTL

-----------------------------------------------------------------------------
(* Only two steps give a machine a key, and each of them to the machine    *)
(* whose installer takes it.                                               *)
LEMMA KeyGivers ==
  ASSUME DeviceInv, [Next]_vars, NEW m \in Machines, key'[m] # key[m], key'[m] \in Keys(m)
  PROVE  \/ /\ EnrollDevice(m) /\ inv[m] \in CodeAuth
            /\ token[inv[m]] = "unused" /\ token'[inv[m]] = "used"
         \/ /\ Redeem(m) /\ inv[m] \notin CodeAuth /\ key[m] = NoRow
<1>1. CASE UNCHANGED vars
  BY <1>1 DEF vars
<1>2. CASE Office
  <2>1. key' = key \/ \E n \in Machines : DetachDevice(n)
    BY <1>2 DEF Office, IssueAgentInstallation, MailSent, RevokeAgentInstallation,
                ActivateForTarget, InvitationExpires, RequestExpires, DecideDeviceLogin
  <2>2. PICK n \in Machines : DetachDevice(n)
    BY <2>1
  <2>3. key'[m] = KeyOut
    BY <2>2 DEF DetachDevice, DeviceInv, TypeOK
  <2>4. KeyOut \notin Keys(m)
    BY DeviceEnrollmentAssumption DEF KeyOut, Keys
  <2> QED
    BY <2>3, <2>4
<1>3. CASE \E i \in Invitations, n \in Machines : Download(n, i)
  BY <1>3 DEF Download
<1>4. CASE \E n \in Machines : Installer(n) \/ Stop(n)
  <2>1. PICK n \in Machines : EnrollDevice(n) \/ Redeem(n)
    BY <1>4 DEF Installer, Stop, MarkDownloaded, ReportInstalled, LookupAfterEnrollment,
                StartLogin, PollLookup, MarkActive, Reply, Schedule
  <2>2. n = m
    BY <2>1 DEF EnrollDevice, Redeem, DeviceInv, TypeOK
  <2>3. CASE EnrollDevice(m)
    <3>1. inv[m] \in Invitations
      BY <2>3 DEF EnrollDevice, DeviceInv, Located
    <3> QED
      BY <2>3, <3>1 DEF EnrollDevice, DeviceInv, TypeOK
  <2>4. CASE Redeem(m)
    BY <2>4 DEF Redeem, DeviceInv, Located
  <2> QED
    BY <2>1, <2>2, <2>3, <2>4
<1> QED
  BY <1>1, <1>2, <1>3, <1>4 DEF Next, Office

(* The code of an invitation makes one device at most.                     *)
THEOREM CodeIsSpentOnce == Spec => CodeServesOnce
<1>1. ASSUME DeviceInv, [Next]_vars, NEW m \in Machines, NEW n \in Machines,
             key'[m] # key[m], key'[m] \in Keys(m), inv[m] \in CodeAuth
      PROVE  <<inv[m], n>> \notin enrolled
  <2>1. token[inv[m]] = "unused"
    BY <1>1, KeyGivers
  <2> QED
    BY <1>1, <2>1, DeviceEnrollmentAssumption DEF DeviceInv, Unspent
<1>2. DeviceInv /\ [Next]_vars =>
        [ \A m \in Machines, n \in Machines :
            key'[m] # key[m] /\ key'[m] \in Keys(m) /\ inv[m] \in CodeAuth
            => <<inv[m], n>> \notin enrolled ]_vars
  BY <1>1
<1> QED
  BY InvAlways, <1>2, PTL DEF Spec, CodeServesOnce

(* A known machine only gets a new key for an unused code.                 *)
THEOREM NoTakeover == Spec => LoginNeverTakesOver
<1>1. ASSUME DeviceInv, [Next]_vars, NEW m \in Machines,
             key[m] # NoRow, key'[m] \in Keys(m), key'[m] # key[m]
      PROVE  /\ inv[m] \in CodeAuth
             /\ token[inv[m]] = "unused" /\ token'[inv[m]] = "used"
  BY <1>1, KeyGivers
<1>2. DeviceInv /\ [Next]_vars =>
        [ \A m \in Machines :
            key[m] # NoRow /\ key'[m] \in Keys(m) /\ key'[m] # key[m] =>
              /\ inv[m] \in CodeAuth
              /\ token[inv[m]] = "unused" /\ token'[inv[m]] = "used" ]_vars
  BY <1>1
<1> QED
  BY InvAlways, <1>2, PTL DEF Spec, LoginNeverTakesOver

===============================================================================
