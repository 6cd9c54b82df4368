---------------------------- MODULE RiskRegister ----------------------------
(***************************************************************************)
(* Assets and risks: their import from a file, the undo of an import, and  *)
(* the screens that edit them or refer to them meanwhile.  Keys are unique *)
(* and rows are never deleted, so a row is named by its key.               *)
(***************************************************************************)
EXTENDS ImportBatches

CONSTANTS
  Assets,     (* asset keys                                                *)
  Risks       (* risk keys                                                 *)

VARIABLES
  system,     (* application_catalog: the status of each system            *)
  asset,      (* status and stamp of each key, "none" if not registered, and *)
              (* the system it is located in                               *)
  risk,       (* the same, with the linked assets                          *)
  evaluations,  (* risk_evaluation_snapshots: never changed, never deleted *)
  uses        (* the asset or the risk a row of another register names     *)

registerVars == <<system, asset, risk, evaluations, uses>>

AssetRow(a) == <<"assets", a>>
RiskRow(r)  == <<"risk_scenarios", r>>

Registered(row) == row.status # "none"
NoAsset == [status |-> "none", stamp |-> Before, system |-> None]
NoRisk  == [status |-> "none", stamp |-> Before, assets |-> {}]

Stages == {"inherent", "before_measure", "after_measure"}

SYSTEM_STATUSES == {"planned", "active", "paused", "retired"}

(* A system can be chosen as a location until it is retired.               *)
SystemsOffered == {s \in DOMAIN system : system[s] # "retired"}

RegisterTypeOK ==
  /\ \A s \in DOMAIN system : system[s] \in SYSTEM_STATUSES
  /\ asset \in [Assets -> [status : {"none", "active", "retired"}, stamp : Stamps,
                           system : DOMAIN system \cup {None}]]
  /\ risk  \in [Risks -> [status : {"none", "active", "retired"}, stamp : Stamps,
                          assets : SUBSET Assets]]
  /\ \A e \in DOMAIN evaluations :
       /\ e[1] \in Stamps
       /\ evaluations[e] \in [risk : Risks, stage : Stages, day : Nat, level : Nat, made : Nat]
  /\ \A row \in DOMAIN uses :
       /\ row[1] \in {"vulnerability", "change", "incident", "deviation"} /\ row[2] \in Stamps
       /\ uses[row] \in (IF row[1] \in {"incident", "deviation"} THEN Risks ELSE Assets)

(* Keys are of one register.  The tables of a plan have a row for every    *)
(* key, the items of a batch are those of a file, and what the rows of     *)
(* other registers name is there, an asset active.                         *)
ASSUME RegisterAssumption ==
  /\ None \notin Assets \cup Risks /\ Assets \cap Risks = {}
  /\ \A name \in DOMAIN Plans :
       LET tables == Plans[name].tables
       IN  /\ DOMAIN tables.asset = Assets /\ DOMAIN tables.risk = Risks
           /\ IsFiniteSet(tables.batch.items)
           /\ \A row \in DOMAIN tables.uses :
                IF row[1] \in {"vulnerability", "change"}
                THEN tables.uses[row] \in {a \in Assets : tables.asset[a].status = "active"}
                ELSE tables.uses[row] \in Risks

-----------------------------------------------------------------------------
(* What refers to a row.                                                   *)

AssetReferred(a) ==
  \/ \E r \in Risks : a \in risk[r].assets
  \/ a \in Range(uses)

EvaluationsOf(r) == {e \in DOMAIN evaluations : evaluations[e].risk = r}

RiskReferred(r) == EvaluationsOf(r) # {} \/ r \in Range(uses)

-----------------------------------------------------------------------------
(* Import of assets.                                                       *)

Repeats(file) == ~IsInjective(file)

BeginImportAssets(t) ==
  /\ Free(t, "importAssets")
  /\ \E file \in BoundedSeq(Assets, 2) : BeginImport(t, "importAssets", file)
  /\ UNCHANGED registerVars

(* examine: a key twice in the file or already registered is an issue.     *)
ExamineAssets(t) ==
  /\ At(t, "importAssets")
  /\ IF Repeats(File(t)) \/ \E a \in ToSet(File(t)) : Registered(asset[a])
     THEN Refused(t)
     ELSE /\ Goto(t, "insertAssets", [i \in DOMAIN File(t) |-> Lock(Update, AssetRow(File(t)[i]))], None)
          /\ UNCHANGED <<plan, active, batches>>
  /\ UNCHANGED registerVars

InsertAssets(t) ==
  /\ At(t, "insertAssets")
  /\ LET keys == ToSet(File(t))
     IN  IF \E a \in keys : Registered(asset[a])
         THEN Refused(t) /\ UNCHANGED asset
         ELSE /\ Imported(t, "assets", keys)
              /\ asset' = [a \in Assets |-> IF a \in keys
                                            THEN [status |-> "active", stamp |-> t, system |-> None]
                                            ELSE asset[a]]
  /\ UNCHANGED <<system, risk, evaluations, uses>>

-----------------------------------------------------------------------------
(* Import of risks.                                                        *)

(* Rows name a risk and the assets it concerns.                            *)
RiskRows == Risks \X (SUBSET Assets)

BeginImportRisks(t) ==
  /\ Free(t, "importRisks")
  /\ \E row \in RiskRows : BeginImport(t, "importRisks", <<row>>)
  /\ UNCHANGED registerVars

(* examine reads the assets without a lock.                                *)
ExamineRisks(t) ==
  /\ At(t, "importRisks")
  /\ LET key    == File(t)[1][1]
         linked == File(t)[1][2]
     IN  IF Registered(risk[key]) \/ \E a \in linked : asset[a].status # "active"
         THEN Refused(t)
         ELSE /\ \E order \in SetToSeqs(linked) :
                   Goto(t, "insertRisks",
                        <<Lock(Update, RiskRow(key))>>
                          \o [i \in DOMAIN order |-> Lock(Key, AssetRow(order[i]))], None)
              /\ UNCHANGED <<plan, active, batches>>
  /\ UNCHANGED registerVars

InsertRisks(t) ==
  /\ At(t, "insertRisks")
  /\ IF Registered(risk[File(t)[1][1]])
     THEN Refused(t)
     ELSE /\ Goto(t, "commitRisks", <<>>, None)
          /\ UNCHANGED <<plan, active, batches>>
  /\ UNCHANGED registerVars

CommitRisks(t) ==
  /\ At(t, "commitRisks")
  /\ LET key == File(t)[1][1]
     IN  /\ Imported(t, "risks", {key})
         /\ risk' = [risk EXCEPT ![key] = [status |-> "active", stamp |-> t,
                                           assets |-> File(t)[1][2]]]
  /\ UNCHANGED <<system, asset, evaluations, uses>>

-----------------------------------------------------------------------------
(* undoImport of assets and of risks: rows nobody changed and nothing      *)
(* refers to are retired.                                                  *)

(* Variant: the rows are not locked before they are examined.              *)
UndoLocks_None(rows) == <<>>

UndoLocks(rows) == Locks(Update, rows)

BeginUndoAssets(t) ==
  /\ Free(t, "undoAssets")
  /\ \E b \in Stamps :
       /\ batches[b].kind = "assets"
       /\ \E order \in SetToSeqs(batches[b].items) :
            BeginUndo(t, "undoAssets", b, UndoLocks([i \in DOMAIN order |-> AssetRow(order[i])]))
  /\ UNCHANGED registerVars

RetiredAssets(b) ==
  {a \in batches[b].items : /\ asset[a].status = "active"
                            /\ AsImported(asset[a], b)
                            /\ ~AssetReferred(a)}

UndoAssets(t) ==
  /\ At(t, "undoAssets")
  /\ IF Undoable(t)
     THEN /\ asset' = [a \in Assets |-> IF a \in RetiredAssets(req[t].arg)
                                        THEN [asset[a] EXCEPT !.status = "retired", !.stamp = t]
                                        ELSE asset[a]]
          /\ Undone(t)
     ELSE Refused(t) /\ UNCHANGED asset
  /\ UNCHANGED <<system, risk, evaluations, uses>>

BeginUndoRisks(t) ==
  /\ Free(t, "undoRisks")
  /\ \E b \in Stamps :
       /\ batches[b].kind = "risks"
       /\ \E order \in SetToSeqs(batches[b].items) :
            BeginUndo(t, "undoRisks", b, UndoLocks([i \in DOMAIN order |-> RiskRow(order[i])]))
  /\ UNCHANGED registerVars

RetiredRisks(b) ==
  {r \in batches[b].items : /\ risk[r].status = "active"
                            /\ AsImported(risk[r], b)
                            /\ ~RiskReferred(r)}

UndoRisks(t) ==
  /\ At(t, "undoRisks")
  /\ IF Undoable(t)
     THEN /\ risk' = [r \in Risks |-> IF r \in RetiredRisks(req[t].arg)
                                      THEN [risk[r] EXCEPT !.status = "retired", !.stamp = t]
                                      ELSE risk[r]]
          /\ Undone(t)
     ELSE Refused(t) /\ UNCHANGED risk
  /\ UNCHANGED <<system, asset, evaluations, uses>>

-----------------------------------------------------------------------------
(* The screens of the register.                                            *)

(* A row that is edited, or a key that is inserted unless it exists.       *)
EditMode(row) == IF Registered(row) THEN Write ELSE Update

(* saveAsset of an existing row by its id, or of a key.  No system is ever *)
(* deleted, and the foreign key waits for nothing else.                    *)
BeginSaveAsset(t) ==
  /\ Free(t, "saveAsset")
  /\ \E a \in Assets, byId \in BOOLEAN, s \in SystemsOffered \cup {None} :
       /\ byId => Registered(asset[a])
       /\ Begin(t, "saveAsset", [key |-> a, byId |-> byId, system |-> s], "saveAsset",
                <<Lock(EditMode(asset[a]), AssetRow(a))>>)
  /\ UNCHANGED <<batches, registerVars>>

SaveAsset(t) ==
  /\ At(t, "saveAsset")
  /\ LET a == req[t].arg.key
     IN  asset' = [asset EXCEPT ![a] =
                     [status |-> IF req[t].arg.byId THEN @.status ELSE "active",
                      stamp |-> t, system |-> req[t].arg.system]]
  /\ Done(t)
  /\ UNCHANGED <<plan, active, batches, system, risk, evaluations, uses>>

BeginSaveRisk(t) ==
  /\ Free(t, "saveRisk")
  /\ \E r \in Risks, byId \in BOOLEAN, linked \in SUBSET {a \in Assets : Registered(asset[a])} :
       /\ byId => Registered(risk[r])
       /\ \E order \in SetToSeqs(linked) :
            Begin(t, "saveRisk", [key |-> r, byId |-> byId, assets |-> linked], "saveRisk",
                  <<Lock(EditMode(risk[r]), RiskRow(r))>>
                    \o [i \in DOMAIN order |-> Lock(Key, AssetRow(order[i]))])
  /\ UNCHANGED <<batches, registerVars>>

(* By its id only an active risk is edited.                                *)
SaveRisk(t) ==
  /\ At(t, "saveRisk")
  /\ IF req[t].arg.byId /\ risk[req[t].arg.key].status # "active"
     THEN Done(t)
     ELSE Goto(t, "commitRisk", <<>>, None)
  /\ UNCHANGED <<plan, active, batches, registerVars>>

CommitRisk(t) ==
  /\ At(t, "commitRisk")
  /\ risk' = [risk EXCEPT ![req[t].arg.key] =
                [status |-> "active", stamp |-> t, assets |-> req[t].arg.assets]]
  /\ Done(t)
  /\ UNCHANGED <<plan, active, batches, system, asset, evaluations, uses>>

(* An evaluation is of a day, which may still come; of one day the one     *)
(* made last counts.                                                       *)
Later(e, f) ==
  \/ evaluations[e].day > evaluations[f].day
  \/ evaluations[e].day = evaluations[f].day /\ evaluations[e].made > evaluations[f].made

(* Of one stage, on these days: one, or none.                              *)
NewestEvaluation(r, stage, days) ==
  LET es == {e \in EvaluationsOf(r) : evaluations[e].stage = stage /\ evaluations[e].day \in days}
  IN  {e \in es : \A f \in es \ {e} : Later(e, f)}

EvaluationTable == <<"risk_evaluation_snapshots">>

(* addRiskSnapshot.  The residual risk must not exceed the inherent one,   *)
(* the newest of any day.                                                  *)
BeginAddRiskSnapshot(t) ==
  /\ \E r \in Risks, form \in Plan.evaluations :
       /\ risk[r].status = "active"
       /\ Begin(t, "addRiskSnapshot", Over([key |-> r, made |-> Started + 1], form), "addRiskSnapshot", <<>>)
  /\ UNCHANGED <<batches, registerVars>>

AddRiskSnapshot(t) ==
  /\ At(t, "addRiskSnapshot")
  /\ LET form == req[t].arg
     IN  IF /\ form.stage = "after_measure"
            /\ \A e \in NewestEvaluation(form.key, "inherent", Nat) : form.level > evaluations[e].level
         THEN Done(t)
         ELSE Goto(t, "insertSnapshot", <<Lock(Inserting, EvaluationTable), Lock(Key, RiskRow(form.key))>>, None)
  /\ UNCHANGED <<plan, active, batches, registerVars>>

InsertSnapshot(t) ==
  /\ At(t, "insertSnapshot")
  /\ Goto(t, "commitSnapshot", <<>>, None)
  /\ UNCHANGED <<plan, active, batches, registerVars>>

CommitSnapshot(t) ==
  /\ At(t, "commitSnapshot")
  /\ LET form == req[t].arg
     IN  evaluations' = WithRow(evaluations, <<t, form.stage>>,
                                 [risk |-> form.key, stage |-> form.stage, day |-> form.day,
                                  level |-> form.level, made |-> form.made])
  /\ Done(t)
  /\ UNCHANGED <<plan, active, batches, system, asset, risk, uses>>

-----------------------------------------------------------------------------
RegisterStep(t) ==
  \/ BeginImportAssets(t) \/ ExamineAssets(t) \/ InsertAssets(t)
  \/ BeginImportRisks(t) \/ ExamineRisks(t) \/ InsertRisks(t) \/ CommitRisks(t)
  \/ BeginUndoAssets(t) \/ UndoAssets(t) \/ BeginUndoRisks(t) \/ UndoRisks(t)
  \/ BeginSaveAsset(t) \/ SaveAsset(t)
  \/ BeginSaveRisk(t) \/ SaveRisk(t) \/ CommitRisk(t)
  \/ BeginAddRiskSnapshot(t) \/ AddRiskSnapshot(t) \/ InsertSnapshot(t) \/ CommitSnapshot(t)
=============================================================================
