---------------------------- MODULE PolicyDrafts ----------------------------
(***************************************************************************)
(* Policies and their versions: drafts added on the policy screen, their   *)
(* approval and activation, the import of drafts and its undo.  A policy   *)
(* is named by the transaction that made it and its title; its versions    *)
(* are numbered 1, 2, ... .                                                *)
(***************************************************************************)
EXTENDS ImportBatches

CONSTANTS
  Titles,       (* titles of policies, numbers in the order of their ids   *)
  Bodies,       (* texts of a version                                      *)
  MaxVersion    (* no draft is begun on a policy with this many versions   *)

VARIABLES
  policy        (* policies by id: the versions by number                  *)

PolicyRow(p)     == <<"policies", p>>
VersionRow(p, n) == <<"policy_versions", p, n>>

Exists(p)   == p \in DOMAIN policy
Numbers(p)  == DOMAIN policy[p]
Latest(p)   == Max(Numbers(p) \cup {0})
Titled(s)   == {p \in DOMAIN policy : p[2] = s}
HasVersion(p, n) == Exists(p) /\ n \in Numbers(p)

Draft(body, stamp) == [state |-> "draft", body |-> body, stamp |-> stamp]

PoliciesTypeOK ==
  \A p \in DOMAIN policy :
    /\ p[1] \in Stamps /\ p[2] \in Titles
    /\ \A n \in Numbers(p) :
         policy[p][n] \in [state : {"draft", "approved", "current", "superseded"},
                           body : Bodies, stamp : Stamps]

(* Policies in the order of their ids.                                     *)
ByIdAscending(ps) == {order \in SetToSeqs(ps) : \A i, j \in DOMAIN order : i < j => order[i][2] <= order[j][2]}

(* The policies of before are of no request, differ in the title that      *)
(* orders their ids, and are finitely many; files name titles.             *)
ASSUME PoliciesAssumption ==
  /\ Titles \subseteq Nat
  /\ \A name \in DOMAIN Plans :
       /\ DOMAIN Plans[name].tables.policy \subseteq (Stamps \ Requests) \X Titles
       /\ IsFiniteSet(DOMAIN Plans[name].tables.policy)
       /\ \A p, q \in DOMAIN Plans[name].tables.policy : p[2] = q[2] => p = q
       /\ \A file \in Plans[name].drafts : file \in Seq(Range(file)) /\ \A i \in DOMAIN file : file[i].title \in Titles

AddVersion(p, n, body, t) == policy' = [policy EXCEPT ![p] = WithRow(@, n, Draft(body, t))]

-----------------------------------------------------------------------------
(* The policy screen.                                                      *)

(* createPolicyDraft is one INSERT ... SELECT: the number is computed from *)
(* what is committed, the row goes into the unique index, and the foreign  *)
(* key is checked last.                                                    *)
BeginCreatePolicyDraft(t) ==
  \E p \in DOMAIN policy, body \in Bodies :
    /\ Latest(p) < MaxVersion
    /\ Begin(t, "createPolicyDraft", [id |-> p, n |-> Latest(p) + 1, body |-> body], "insertDraft",
             <<Lock(Update, VersionRow(p, Latest(p) + 1))>>)
    /\ UNCHANGED <<batches, policy>>

InsertDraft(t) ==
  /\ At(t, "insertDraft")
  /\ LET arg == req[t].arg
     IN  IF HasVersion(arg.id, arg.n)
         THEN Done(t)
         ELSE Goto(t, "referPolicy", <<Lock(Key, PolicyRow(arg.id))>>, None)
  /\ UNCHANGED <<plan, active, batches, policy>>

ReferPolicy(t) ==
  /\ At(t, "referPolicy")
  /\ IF Exists(req[t].arg.id) THEN Goto(t, "commitDraft", <<>>, None) ELSE Done(t)
  /\ UNCHANGED <<plan, active, batches, policy>>

CommitDraft(t) ==
  /\ At(t, "commitDraft")
  /\ AddVersion(req[t].arg.id, req[t].arg.n, req[t].arg.body, t)
  /\ Done(t)
  /\ UNCHANGED <<plan, active, batches>>

(* approvePolicyVersion and activatePolicyVersion lock the version.  The   *)
(* page has a button on the versions that are in one of these states.      *)
BeginApproval(t, op, states) ==
  \E p \in DOMAIN policy : \E n \in DOMAIN policy[p] :
    /\ policy[p][n].state \in states
    /\ Begin(t, op, [id |-> p, n |-> n], op, <<Lock(Update, VersionRow(p, n))>>)
    /\ UNCHANGED <<batches, policy>>

BeginApprovePolicyVersion(t)  == BeginApproval(t, "approvePolicyVersion", {"draft"})
BeginActivatePolicyVersion(t) == BeginApproval(t, "activatePolicyVersion", {"approved", "superseded"})

ApprovePolicyVersion(t) ==
  /\ At(t, "approvePolicyVersion")
  /\ LET p == req[t].arg.id
         n == req[t].arg.n
     IN  policy' = IF HasVersion(p, n) /\ policy[p][n].state = "draft"
                   THEN [policy EXCEPT ![p][n].state = "approved", ![p][n].stamp = t]
                   ELSE policy
  /\ Done(t)
  /\ UNCHANGED <<plan, active, batches>>

Current(p) == {n \in Numbers(p) : policy[p][n].state = "current"}

(* The versions that are current are superseded by the one activated; one  *)
(* that became current meanwhile makes the unique index refuse it.         *)
ActivatePolicyVersion(t) ==
  /\ At(t, "activatePolicyVersion")
  /\ LET p == req[t].arg.id
         n == req[t].arg.n
         others == SetToSeq(Current(p) \ {n})
     IN  IF HasVersion(p, n) /\ policy[p][n].state # "draft"
         THEN Goto(t, "supersedeVersions",
                   [i \in DOMAIN others |-> Lock(Write, VersionRow(p, others[i]))]
                     \o <<Lock(Update, <<"policy_versions_current", p>>)>>, ToSet(others))
         ELSE Done(t)
  /\ UNCHANGED <<plan, active, batches, policy>>

SupersedeVersions(t) ==
  /\ At(t, "supersedeVersions")
  /\ LET p == req[t].arg.id
         n == req[t].arg.n
     IN  policy' = IF Current(p) \subseteq req[t].saw \cup {n}
                   THEN [policy EXCEPT ![p] = [m \in Numbers(p) |->
                           CASE m = n -> [@[m] EXCEPT !.state = "current", !.stamp = t]
                             [] m \in req[t].saw /\ @[m].state = "current" ->
                                  [@[m] EXCEPT !.state = "superseded", !.stamp = t]
                             [] OTHER -> @[m]]]
                   ELSE policy
  /\ Done(t)
  /\ UNCHANGED <<plan, active, batches>>

-----------------------------------------------------------------------------
(* Import of drafts: rows [title, body]; a title without a policy makes    *)
(* one.  Read, lock the policies found in the order of their ids, read     *)
(* again.                                                                  *)

BeginImportPolicies(t) ==
  /\ \E file \in Plan.drafts : BeginImport(t, "importPolicies", file)
  /\ UNCHANGED policy

(* Variant: the policies are locked in the order of the file.              *)
LockOrder_AsFiled(t) ==
  LET titles == [i \in DOMAIN File(t) |-> File(t)[i].title]
  IN  {FoldLeft(LAMBDA out, s : out \o SetToSeq(Titled(s) \ ToSet(out)), <<>>, titles)}

LockOrder(t) == ByIdAscending(UNION {Titled(File(t)[i].title) : i \in DOMAIN File(t)})

ReadPolicies(t) ==
  /\ At(t, "importPolicies")
  /\ \E found \in LockOrder(t) :
       Goto(t, "examinePolicies", Locks(Update, [i \in DOMAIN found |-> PolicyRow(found[i])]), ToSet(found))
  /\ UNCHANGED <<plan, active, batches, policy>>

(* The policy a row goes to, and the number of its version.                *)
Target(t, i) ==
  LET s == File(t)[i].title
  IN  IF Titled(s) = {}
      THEN [id |-> <<t, s>>, n |-> 1, body |-> File(t)[i].body]
      ELSE LET p == CHOOSE p \in Titled(s) : TRUE
           IN  [id |-> p, n |-> Latest(p) + 1, body |-> File(t)[i].body]

ExaminePolicies(t) ==
  /\ At(t, "examinePolicies")
  /\ LET file == File(t)
     IN  IF /\ \A i, j \in DOMAIN file : file[i].title = file[j].title => i = j
            /\ \A i \in DOMAIN file :
                 LET hits == Titled(file[i].title)
                 IN  /\ hits \subseteq req[t].saw
                     /\ Cardinality(hits) <= 1
                     /\ \A p \in hits : Latest(p) # 0 => policy[p][Latest(p)].body # file[i].body
         THEN /\ Goto(t, "insertVersions",
                      [i \in DOMAIN file |-> Lock(Update, VersionRow(Target(t, i).id, Target(t, i).n))],
                      {Target(t, i) : i \in DOMAIN file})
              /\ UNCHANGED <<plan, active, batches>>
         ELSE Refused(t)
  /\ UNCHANGED policy

(* A draft of the screen that got the number first waits for the policy,   *)
(* and this waits for the draft: the database ends one of them.            *)
InsertVersions(t) ==
  /\ At(t, "insertVersions")
  /\ LET made == req[t].saw
         versions(p) == IF Exists(p) THEN policy[p] ELSE <<>>
         added(p) == {v \in made : v.id = p}
     IN  /\ policy' = [p \in DOMAIN policy \cup {v.id : v \in made} |->
                         Over([n \in {v.n : v \in added(p)} |->
                                 Draft((CHOOSE v \in added(p) : v.n = n).body, t)], versions(p))]
         /\ Imported(t, "policies", {[id |-> v.id, n |-> v.n] : v \in made})

-----------------------------------------------------------------------------
(* undoPolicies: lock the policies in the order of their ids, then the     *)
(* versions; delete drafts as imported that are still the latest, then     *)
(* policies the import made that have no version left.                     *)

BeginUndoPolicies(t) ==
  /\ Free(t, "undoPolicies")
  /\ \E b \in Stamps :
       /\ batches[b].kind = "policies"
       /\ LET items == {v \in batches[b].items : HasVersion(v.id, v.n)}
          IN  \E found \in ByIdAscending({v.id : v \in items}), order \in SetToSeqs(items) :
                BeginUndo(t, "undoPolicies", b,
                          Locks(Update, [i \in DOMAIN found |-> PolicyRow(found[i])])
                            \o Locks(Update, [i \in DOMAIN order |-> VersionRow(order[i].id, order[i].n)]))
  /\ UNCHANGED policy

DeletedVersions(b) ==
  {v \in batches[b].items : /\ HasVersion(v.id, v.n)
                            /\ policy[v.id][v.n].state = "draft"
                            /\ AsImported(policy[v.id][v.n], b)
                            /\ v.n = Latest(v.id)}

UndoPolicies(t) ==
  /\ At(t, "undoPolicies")
  /\ LET b == req[t].arg
         left(p) == {n \in Numbers(p) : [id |-> p, n |-> n] \notin DeletedVersions(b)}
         kept == {p \in DOMAIN policy : ~(p[1] = b /\ left(p) = {})}
     IN  IF Undoable(t)
         THEN /\ policy' = [p \in kept |-> Restrict(policy[p], left(p))]
              /\ Undone(t)
         ELSE Refused(t) /\ UNCHANGED policy

-----------------------------------------------------------------------------
PolicyStep(t) ==
  \/ BeginCreatePolicyDraft(t) \/ InsertDraft(t) \/ ReferPolicy(t) \/ CommitDraft(t)
  \/ BeginApprovePolicyVersion(t) \/ ApprovePolicyVersion(t)
  \/ BeginActivatePolicyVersion(t) \/ ActivatePolicyVersion(t) \/ SupersedeVersions(t)
  \/ BeginImportPolicies(t) \/ ReadPolicies(t) \/ ExaminePolicies(t) \/ InsertVersions(t)
  \/ BeginUndoPolicies(t) \/ UndoPolicies(t)
=============================================================================
