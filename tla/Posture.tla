-------------------------------- MODULE Posture --------------------------------
(***************************************************************************)
(* Posture reports of one enrolled machine.  The agent signs a report and  *)
(* posts it, again when the answer is lost; the handler checks it against  *)
(* the key of the device and stores it in a transaction of its own, while  *)
(* the device is detached or enrolled again.                               *)
(*                                                                         *)
(* A report is [at, host, key, os, version, shape]: when it was collected, *)
(* the host name it says, the generation of the key it is signed with, the *)
(* operating system, the version of the definition and the system whose    *)
(* protection it describes.  Reports are within the seven days and the ten *)
(* minutes that the database allows; definitions do not change.            *)
(***************************************************************************)
EXTENDS Requests

CONSTANTS
  Definitions   (* <<os, version>> of the active definitions               *)

VARIABLES
  device,       (* its row: os, key generation (None when detached), host  *)
                (* name and last_seen_at (0: never)                        *)
  snapshots     (* device_snapshots: the reports stored                    *)

postureVars == <<device, snapshots>>

DeviceRow == <<"devices">>
SnapshotRow(report) == <<"device_snapshots", report>>

PostureTypeOK ==
  /\ device.key \in Nat \cup {None} /\ device.lastSeen \in Nat
  /\ snapshots \subseteq Plan.reports

(* Reports are collected at a time, and a device that has reported before  *)
(* was last seen when the newest of its reports was collected.             *)
ASSUME PostureAssumption ==
  \A name \in DOMAIN Plans :
    LET tables == Plans[name].tables
    IN  /\ None \notin Plans[name].reports
        /\ \A report \in Plans[name].reports : report.at \in Nat
        /\ tables.snapshots \subseteq Plans[name].reports
        /\ DOMAIN tables.device = {"os", "key", "host", "lastSeen"}
        /\ tables.device.lastSeen \in Nat
        /\ \A report \in tables.snapshots : report.at <= tables.device.lastSeen
        /\ tables.device.lastSeen \in {report.at : report \in tables.snapshots}
                                     \cup {n \in {0} : tables.snapshots = {}}

(* validateAgentPayload: version 1 is for macOS only and says nothing of   *)
(* the protection; version 2 describes the protection of its own system.   *)
ValidPayload(report) ==
  \/ report.version = 1 /\ report.os = "macos"
  \/ report.version = 2 /\ report.os \in {"macos", "windows"} /\ report.shape = report.os

Newest == IF snapshots = {} THEN 0
          ELSE CHOOSE n \in {r.at : r \in snapshots} : \A r \in snapshots : r.at <= n

-----------------------------------------------------------------------------
(* The handler reads the key and the definition, each for itself; whatever *)
(* is not right is answered with 400, 401 or 409 and leaves nothing.       *)
BeginPosture(t) ==
  /\ \E report \in Plan.reports :
       /\ ValidPayload(report)
       /\ device.key = report.key
       /\ Begin(t, "posture", report, "readDefinition", <<>>)
  /\ UNCHANGED postureVars

ReadDefinition(t) ==
  /\ At(t, "readDefinition")
  /\ IF <<req[t].arg.os, req[t].arg.version>> \in Definitions
     THEN Goto(t, "examineReport", <<>>, None)
     ELSE Done(t)
  /\ UNCHANGED <<plan, active, postureVars>>

(* ingest_device_snapshot: a report that is stored already is a retry; one *)
(* older than the newest one stored is refused; the key is not looked at.  *)
ExamineReport(t) ==
  /\ At(t, "examineReport")
  /\ LET report == req[t].arg
     IN  IF device.os = report.os /\ report \notin snapshots /\ report.at >= Newest
         THEN Goto(t, "insertReport", <<Lock(Update, SnapshotRow(report))>>, None)
         ELSE Done(t)
  /\ UNCHANGED <<plan, active, postureVars>>

(* The unique index: the row may have come meanwhile.  The transaction     *)
(* goes on to the device in both cases.                                    *)
InsertReport(t) ==
  /\ At(t, "insertReport")
  /\ Goto(t, "touchDevice", <<Lock(Write, DeviceRow)>>, None)
  /\ UNCHANGED <<plan, active, postureVars>>

(* Variant: the device was last seen when its last report was collected.   *)
LastSeen_Plain(report) == report.at

(* greatest(coalesce(last_seen_at, ...), ...) of the row as it is now.     *)
LastSeen(report) == IF device.lastSeen > report.at THEN device.lastSeen ELSE report.at

TouchDevice(t) ==
  /\ At(t, "touchDevice")
  /\ snapshots' = snapshots \cup {req[t].arg}
  /\ device' = [device EXCEPT !.lastSeen = LastSeen(req[t].arg),
                              !.host = req[t].arg.host, !.os = req[t].arg.os]
  /\ Done(t)
  /\ UNCHANGED <<plan, active>>

-----------------------------------------------------------------------------
(* detach_device takes the key away.                                       *)
DetachDevice(t) ==
  /\ Once(t, "detachDevice", Lock(Write, DeviceRow))
  /\ device' = [device EXCEPT !.key = None]
  /\ UNCHANGED snapshots

(* enroll_device of the same machine: a new key, the host name it has now. *)
EnrollAgain(t) ==
  /\ \E report \in Plan.reports :
       /\ Once(t, "enroll", Lock(Write, DeviceRow))
       /\ device.key # report.key
       /\ device' = [device EXCEPT !.key = report.key, !.host = report.host, !.os = report.os]
  /\ UNCHANGED snapshots

-----------------------------------------------------------------------------
(* getDeviceBasics: a device that is enrolled, with the latest of its      *)
(* reports (any of those, if several were collected at the same time).     *)
LatestReports(reports) == {r \in reports : \A s \in reports : s.at <= r.at}

Basics ==
  IF device.key = None THEN {}
  ELSE {[host |-> device.host, lastSeen |-> device.lastSeen, report |-> r] :
          r \in IF snapshots = {} THEN {None} ELSE LatestReports(snapshots)}

-----------------------------------------------------------------------------
PostureStep(t) ==
  \/ BeginPosture(t) \/ ReadDefinition(t) \/ ExamineReport(t) \/ InsertReport(t) \/ TouchDevice(t)
  \/ DetachDevice(t) \/ EnrollAgain(t)
=============================================================================
