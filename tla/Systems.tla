------------------------------- MODULE Systems -------------------------------
(***************************************************************************)
(* The systems the organisation uses, and which department uses which.  A  *)
(* system is named by the key made from its name, with a number when the   *)
(* key was taken; it is never deleted.                                     *)
(***************************************************************************)
EXTENDS RiskRegister, Departments

CONSTANT MAX_KEYS   (* the highest number a key gets, 999 in the code      *)

SystemRow(s) == <<"application_catalog", s>>
UsageRow(d, s) == <<"department_systems", d, s>>

SystemsTypeOK ==
  /\ \A s \in DOMAIN system : s[1] \in Plan.slugs /\ s[2] \in 1..MAX_KEYS
  /\ \A row \in usage : row[2] \in DOMAIN system

-----------------------------------------------------------------------------
(* saveSystem.                                                             *)

BeginSaveSystem(t) ==
  /\ \E slug \in Plan.slugs, status \in SYSTEM_STATUSES :
       Begin(t, "saveSystem", [slug |-> slug, status |-> status], "readSystemKeys", <<>>)
  /\ UNCHANGED <<batches, registerVars, organisationVars>>

FreeNumbers(slug) == {n \in 1..MAX_KEYS : <<slug, n>> \notin DOMAIN system}

ReadSystemKeys(t) ==
  /\ At(t, "readSystemKeys")
  /\ LET slug == req[t].arg.slug
         free == FreeNumbers(slug)
         key  == <<slug, CHOOSE n \in free : \A m \in free : n <= m>>
     IN  IF free = {} THEN Done(t)
                      ELSE Goto(t, "createSystem", <<Lock(Update, SystemRow(key))>>, key)
  /\ UNCHANGED <<plan, active, batches, registerVars, organisationVars>>

(* create_system: a key that somebody else has taken since is refused.     *)
CreateSystem(t) ==
  /\ At(t, "createSystem")
  /\ system' = IF req[t].saw \in DOMAIN system THEN system
               ELSE WithRow(system, req[t].saw, req[t].arg.status)
  /\ Done(t)
  /\ UNCHANGED <<plan, active, batches, asset, risk, evaluations, uses, organisationVars>>

-----------------------------------------------------------------------------
(* updateSystem: a system is not retired while active assets are located   *)
(* in it.  The server action looks, and update_system looks again; neither *)
(* keeps others from writing assets.                                       *)

LocatedIn(s) == {a \in Assets : asset[a].status = "active" /\ asset[a].system = s}

BeginUpdateSystem(t) ==
  /\ \E s \in DOMAIN system, status \in SYSTEM_STATUSES :
       Begin(t, "updateSystem", [key |-> s, status |-> status], "countLocated", <<>>)
  /\ UNCHANGED <<batches, registerVars, organisationVars>>

LooksForAssets(t, phase, next, locks) ==
  /\ At(t, phase)
  /\ IF req[t].arg.status = "retired" /\ LocatedIn(req[t].arg.key) # {}
     THEN Done(t)
     ELSE Goto(t, next, locks, None)
  /\ UNCHANGED <<plan, active, batches, registerVars, organisationVars>>

CountLocated(t) == LooksForAssets(t, "countLocated", "lookAgain", <<>>)

LookAgain(t) ==
  LooksForAssets(t, "lookAgain", "writeSystem", <<Lock(Write, SystemRow(req[t].arg.key))>>)

WriteSystem(t) ==
  /\ At(t, "writeSystem")
  /\ system' = [system EXCEPT ![req[t].arg.key] = req[t].arg.status]
  /\ Done(t)
  /\ UNCHANGED <<plan, active, batches, asset, risk, evaluations, uses, organisationVars>>

-----------------------------------------------------------------------------
(* Which department uses which system.                                     *)

BeginSaveDepartmentSystem(t) ==
  /\ \E d \in DOMAIN dept, s \in SystemsOffered :
       Begin(t, "saveDepartmentSystem", <<d, s>>, "saveDepartmentSystem",
             <<Lock(Write, UsageRow(d, s))>>)
  /\ UNCHANGED <<batches, registerVars, organisationVars>>

(* Only the note of a row that exists is changed.                          *)
SaveDepartmentSystem(t) ==
  /\ At(t, "saveDepartmentSystem")
  /\ IF req[t].arg \in usage
     THEN Done(t)
     ELSE Goto(t, "referDepartment", <<Lock(Key, DeptRow(req[t].arg[1]))>>, None)
  /\ UNCHANGED <<plan, active, batches, registerVars, organisationVars>>

ReferDepartment(t) ==
  /\ At(t, "referDepartment")
  /\ IF Present(req[t].arg[1]) THEN Goto(t, "commitUsage", <<>>, None) ELSE Done(t)
  /\ UNCHANGED <<plan, active, batches, registerVars, organisationVars>>

CommitUsage(t) ==
  /\ At(t, "commitUsage")
  /\ usage' = usage \cup {req[t].arg}
  /\ Done(t)
  /\ UNCHANGED <<plan, active, batches, registerVars, dept, member>>

(* Offered on the rows of the page of the departments.                     *)
BeginRemoveDepartmentSystem(t) ==
  /\ \E row \in usage :
       Begin(t, "removeDepartmentSystem", row, "removeDepartmentSystem",
             <<Lock(Update, UsageRow(row[1], row[2]))>>)
  /\ UNCHANGED <<batches, registerVars, organisationVars>>

RemoveDepartmentSystem(t) ==
  /\ At(t, "removeDepartmentSystem")
  /\ usage' = usage \ {req[t].arg}
  /\ Done(t)
  /\ UNCHANGED <<plan, active, batches, registerVars, dept, member>>

-----------------------------------------------------------------------------
SystemsStep(t) ==
  \/ BeginSaveSystem(t) \/ ReadSystemKeys(t) \/ CreateSystem(t)
  \/ BeginUpdateSystem(t) \/ CountLocated(t) \/ LookAgain(t) \/ WriteSystem(t)
  \/ BeginSaveDepartmentSystem(t) \/ SaveDepartmentSystem(t) \/ ReferDepartment(t) \/ CommitUsage(t)
  \/ BeginRemoveDepartmentSystem(t) \/ RemoveDepartmentSystem(t)
=============================================================================
