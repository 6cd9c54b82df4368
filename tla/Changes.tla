------------------------------- MODULE Changes -------------------------------
(***************************************************************************)
(* Vulnerabilities and change requests: records that may name an asset.    *)
(* A row is named by the transaction that made it.  The asset a row names  *)
(* is in uses, where the undo of an import looks.                          *)
(***************************************************************************)
EXTENDS RiskRegister

CONSTANTS
  Texts       (* what a change request may say                             *)

VARIABLES
  vulnerability,  (* status of each row                                    *)
  change          (* change requests: status, text, who asked, who decided *)
                  (* and the content that app.approvals remembers          *)

changeVars == <<vulnerability, change>>

VulnRow(v)   == <<"vulnerability", v>>
ChangeRow(c) == <<"change", c>>

AssetOf(row) == IF row \in DOMAIN uses THEN uses[row] ELSE None
Naming(row, a) == IF a = None THEN Restrict(uses, DOMAIN uses \ {row}) ELSE WithRow(uses, row, a)

(* The content an approval is about; the planned date is not part of it.   *)
Content(c) == <<change[c].text, AssetOf(ChangeRow(c))>>

ChangesTypeOK ==
  /\ DOMAIN vulnerability \subseteq Stamps
  /\ \A v \in DOMAIN vulnerability :
       vulnerability[v] \in {"open", "in_progress", "mitigated", "false_positive"}
  /\ DOMAIN change \subseteq Stamps
  /\ \A c \in DOMAIN change :
       /\ change[c].status \in {"requested", "approved", "rejected", "implemented", "cancelled"}
       /\ change[c].by \in People /\ change[c].decider \in People \cup {None}

(* The change requests of before were made by none of the requests, and    *)
(* decided as they say.                                                    *)
ASSUME ChangesAssumption ==
  \A name \in DOMAIN Plans :
    LET tables == Plans[name].tables
    IN  /\ Requests \cap DOMAIN tables.change = {}
        /\ \A c \in DOMAIN tables.change :
             LET row  == tables.change[c]
                 link == <<"change", c>>
             IN  /\ DOMAIN row = {"status", "text", "by", "decider", "approval"}
                 /\ row.status \in {"approved", "implemented"} =>
                      /\ row.approval = <<row.text, IF link \in DOMAIN tables.uses THEN tables.uses[link] ELSE None>>
                      /\ row.decider \in Chiefs \ {row.by}

(* What the forms offer: no asset, or one of the active ones.              *)
AssetsOffered == {None} \cup {a \in Assets : asset[a].status = "active"}

(* assetUsable reads the asset FOR SHARE.                                  *)
AssetLock(a) == IF a = None THEN <<>> ELSE <<Lock(Share, AssetRow(a))>>

AssetUsable(a) == a = None \/ asset[a].status = "active"

-----------------------------------------------------------------------------
(* Vulnerabilities.                                                        *)

BeginSaveVulnerability(t) ==
  /\ \E a \in AssetsOffered : Begin(t, "saveVulnerability", a, "saveVulnerability", AssetLock(a))
  /\ UNCHANGED <<batches, registerVars, changeVars>>

(* One identifier is enough: an open record of it on the same asset makes  *)
(* the unique index refuse another.                                        *)
SaveVulnerability(t) ==
  /\ At(t, "saveVulnerability")
  /\ IF AssetUsable(req[t].arg)
     THEN Goto(t, "insertVulnerability", <<Lock(Update, <<"vulnerability_open", req[t].arg>>)>>, None)
     ELSE Done(t)
  /\ UNCHANGED <<plan, active, batches, registerVars, changeVars>>

OpenOn(a) == {v \in DOMAIN vulnerability : /\ vulnerability[v] \in {"open", "in_progress"}
                                           /\ AssetOf(VulnRow(v)) = a}

InsertVulnerability(t) ==
  /\ At(t, "insertVulnerability")
  /\ IF OpenOn(req[t].arg) = {}
     THEN /\ vulnerability' = WithRow(vulnerability, t, "open")
          /\ uses' = Naming(VulnRow(t), req[t].arg)
     ELSE UNCHANGED <<vulnerability, uses>>
  /\ Done(t)
  /\ UNCHANGED <<plan, active, batches, system, asset, risk, evaluations, change>>

(* A record that is closed stays closed.                                   *)
MayProgress(v, to) ==
  vulnerability[v] = "open" \/ (vulnerability[v] = "in_progress" /\ to # "in_progress")

ProgressVulnerability(t) ==
  /\ \E v \in DOMAIN vulnerability, to \in {"in_progress", "mitigated", "false_positive"} :
       /\ Once(t, "progressVulnerability", Lock(Write, VulnRow(v)))
       /\ vulnerability' = IF MayProgress(v, to) THEN [vulnerability EXCEPT ![v] = to] ELSE vulnerability
  /\ UNCHANGED <<batches, registerVars, change>>

-----------------------------------------------------------------------------
(* Change requests: asked for and edited.                                  *)

BeginRequestChange(t) ==
  /\ Free(t, "requestChange")
  /\ \E text \in Texts, a \in AssetsOffered, u \in People :
       Begin(t, "requestChange", [text |-> text, asset |-> a, by |-> u], "requestChange", AssetLock(a))
  /\ UNCHANGED <<batches, registerVars, changeVars>>

RequestChange(t) ==
  /\ At(t, "requestChange")
  /\ IF AssetUsable(req[t].arg.asset) THEN Goto(t, "commitChange", <<>>, None) ELSE Done(t)
  /\ UNCHANGED <<plan, active, batches, registerVars, changeVars>>

CommitChange(t) ==
  /\ At(t, "commitChange")
  /\ change' = WithRow(change, t, [status |-> "requested", text |-> req[t].arg.text, by |-> req[t].arg.by,
                                   decider |-> None, approval |-> None])
  /\ uses' = Naming(ChangeRow(t), req[t].arg.asset)
  /\ Done(t)
  /\ UNCHANGED <<plan, active, batches, system, asset, risk, evaluations, vulnerability>>

(* Which rows have which buttons on the records screen.                    *)
Pending  == {c \in DOMAIN change : change[c].status = "requested"}
Approved == {c \in DOMAIN change : change[c].status = "approved"}

(* The form of a row keeps the asset it names although that was retired.   *)
BeginUpdateChangeRequest(t) ==
  /\ Free(t, "updateChangeRequest")
  /\ \E c \in Pending, text \in Texts : \E a \in AssetsOffered \cup {AssetOf(ChangeRow(c))} :
       Begin(t, "updateChangeRequest", [id |-> c, text |-> text, asset |-> a], "updateChangeRequest",
             <<Lock(Update, ChangeRow(c))>>)
  /\ UNCHANGED <<batches, registerVars, changeVars>>

(* An asset that stays is not examined again.                              *)
UpdateChangeRequest(t) ==
  /\ At(t, "updateChangeRequest")
  /\ LET c == req[t].arg.id
         a == req[t].arg.asset
     IN  IF c \in Pending
         THEN Goto(t, "linkChange", IF a = AssetOf(ChangeRow(c)) THEN <<>> ELSE AssetLock(a),
                   a # AssetOf(ChangeRow(c)))
         ELSE Done(t)
  /\ UNCHANGED <<plan, active, batches, registerVars, changeVars>>

LinkChange(t) ==
  /\ At(t, "linkChange")
  /\ IF req[t].saw /\ ~AssetUsable(req[t].arg.asset) THEN Done(t) ELSE Goto(t, "writeChange", <<>>, None)
  /\ UNCHANGED <<plan, active, batches, registerVars, changeVars>>

WriteChange(t) ==
  /\ At(t, "writeChange")
  /\ change' = [change EXCEPT ![req[t].arg.id].text = req[t].arg.text]
  /\ uses' = Naming(ChangeRow(req[t].arg.id), req[t].arg.asset)
  /\ Done(t)
  /\ UNCHANGED <<plan, active, batches, system, asset, risk, evaluations, vulnerability>>

-----------------------------------------------------------------------------
(* Change requests: decided, implemented, given up.                        *)

(* Variant: app.decide_change_request reads the row without FOR UPDATE.    *)
DecisionLocks_None(c) == <<>>

DecisionLocks(c) == <<Lock(Update, ChangeRow(c))>>

MayDecide(c, u) == u \in Chiefs /\ change[c].status = "requested" /\ change[c].by # u

(* decideChangeRequest looks at the row first, without a lock.             *)
BeginDecideChangeRequest(t) ==
  /\ Free(t, "decideChangeRequest")
  /\ \E c \in DOMAIN change, u \in Chiefs, approve \in BOOLEAN :
       /\ MayDecide(c, u)
       /\ Begin(t, "decideChangeRequest", [id |-> c, by |-> u, approve |-> approve],
                "decideChangeRequest", DecisionLocks(c))
  /\ UNCHANGED <<batches, registerVars, changeVars>>

(* app.decide_change_request reads the row again.                          *)
DecideChangeRequest(t) ==
  /\ At(t, "decideChangeRequest")
  /\ LET c == req[t].arg.id
     IN  IF MayDecide(c, req[t].arg.by)
         THEN Goto(t, "recordDecision", <<Lock(Write, ChangeRow(c))>>, Content(c))
         ELSE Done(t)
  /\ UNCHANGED <<plan, active, batches, registerVars, changeVars>>

(* The trigger of the table refuses a decision of a row already decided.   *)
RecordDecision(t) ==
  /\ At(t, "recordDecision")
  /\ LET arg == req[t].arg
     IN  change' = IF arg.id \in Pending
                   THEN [change EXCEPT ![arg.id] =
                           [@ EXCEPT !.status   = IF arg.approve THEN "approved" ELSE "rejected",
                                     !.decider  = arg.by,
                                     !.approval = IF arg.approve THEN req[t].saw ELSE None]]
                   ELSE change
  /\ Done(t)
  /\ UNCHANGED <<plan, active, batches, registerVars, vulnerability>>

ImplementChange(t) ==
  /\ \E c \in DOMAIN change :
       /\ Once(t, "implementChange", Lock(Write, ChangeRow(c)))
       /\ change' = IF c \in Approved THEN [change EXCEPT ![c].status = "implemented"] ELSE change
  /\ UNCHANGED <<batches, registerVars, vulnerability>>

CancelChange(t) ==
  /\ \E c \in DOMAIN change :
       /\ Once(t, "cancelChange", Lock(Write, ChangeRow(c)))
       /\ change' = IF c \in Pending \cup Approved THEN [change EXCEPT ![c].status = "cancelled"] ELSE change
  /\ UNCHANGED <<batches, registerVars, vulnerability>>

-----------------------------------------------------------------------------
ChangeStep(t) ==
  \/ BeginSaveVulnerability(t) \/ SaveVulnerability(t) \/ InsertVulnerability(t)
  \/ ProgressVulnerability(t)
  \/ BeginRequestChange(t) \/ RequestChange(t) \/ CommitChange(t)
  \/ BeginUpdateChangeRequest(t) \/ UpdateChangeRequest(t) \/ LinkChange(t) \/ WriteChange(t)
  \/ BeginDecideChangeRequest(t) \/ DecideChangeRequest(t) \/ RecordDecision(t)
  \/ ImplementChange(t) \/ CancelChange(t)
=============================================================================
