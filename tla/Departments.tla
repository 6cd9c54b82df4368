----------------------------- MODULE Departments -----------------------------
(***************************************************************************)
(* Departments and who belongs to them: the import of departments and of   *)
(* assignments, their undo, and the organisation screen meanwhile.  Names  *)
(* are not unique in the database; a row is named by the transaction that  *)
(* made it and the name it got then.  A person has a membership for each   *)
(* of the roles that were ever granted, each with a department of its own. *)
(***************************************************************************)
EXTENDS ImportBatches

CONSTANT Roles    (* keys of catalog.roles_default                         *)

ASSUME RolesAssumption == {"ciso", "risk_owner", "auditor"} \subseteq Roles /\ IsFiniteSet(Roles)

VARIABLES
  dept,       (* departments by id: name, parent, owner and stamp          *)
  member,     (* memberships by person and role: department, stamp, and    *)
              (* revoked, as what was never granted is, too                *)
  usage       (* department_systems: which department uses which system    *)

organisationVars == <<dept, member, usage>>

Memberships == People \X Roles

(* The memberships of a person that stand.                                 *)
MembershipsOf(u) == {m \in Memberships : m[1] = u /\ ~member[m].revoked}

Auditors == {u \in People : ~member[<<u, "auditor">>].revoked}

DeptRow(d)   == <<"departments", d>>
MemberRow(m) == <<"memberships", m>>
UserRow(u)   == <<"user", u>>

Present(d) == d \in DOMAIN dept

(* departmentsByName: the ids that have this name.                         *)
Named(name) == {d \in DOMAIN dept : dept[d].name = name}

OrganisationTypeOK ==
  /\ \A d \in DOMAIN dept :
       /\ d[1] \in Stamps
       /\ dept[d].stamp \in Stamps
       /\ dept[d].owner \in People \cup {None}
  /\ \A m \in Memberships : member[m].stamp \in Stamps /\ member[m].revoked \in BOOLEAN
  /\ \A u \in People : u \in Chiefs <=> ~member[<<u, "ciso">>].revoked

(* Foreign keys: rows that are referred to exist.                          *)
ForeignKeysOK ==
  /\ \A d \in DOMAIN dept : dept[d].parent = None \/ Present(dept[d].parent)
  /\ \A m \in Memberships : member[m].dept = None \/ Present(member[m].dept)
  /\ \A row \in usage : Present(row[1])

-----------------------------------------------------------------------------
(* The file of departments: rows [name, parent, owner], in lib/csvImport.  *)

NamesIn(file) == {file[i].name : i \in DOMAIN file}
RowOf(file, name) == file[CHOOSE i \in DOMAIN file : file[i].name = name]

(* The row, its parent in the file, that one's parent ... , at most n up.  *)
ParentsUp(file, name, n) ==
  LET up[i \in 0..n] ==
        IF i = 0 THEN <<name>>
        ELSE LET parent == RowOf(file, Last(up[i - 1])).parent
             IN  IF parent \in NamesIn(file) THEN Append(up[i - 1], parent) ELSE up[i - 1]
  IN  up[n]

(* validateDepartments: no name twice, none its own parent, no cycle.      *)
ValidDepartments(file) ==
  /\ \A i, j \in DOMAIN file : file[i].name = file[j].name => i = j
  /\ \A i \in DOMAIN file : file[i].parent # file[i].name
  /\ \A i \in DOMAIN file : IsInjective(ParentsUp(file, file[i].name, Len(file)))

(* Variant: the rows are made in the order of the file.                    *)
OrderDepartments_AsFiled(file) == [i \in DOMAIN file |-> file[i].name]

(* visit: a row is placed after those above it, up to one that was placed  *)
(* before with all above it.                                               *)
Visit(file, out, row) ==
  LET up   == ParentsUp(file, row.name, Len(file))
      open == {i \in DOMAIN up : \A j \in 1..i : ~Contains(out, up[j])}
  IN  out \o Reverse(SubSeq(up, 1, Cardinality(open)))

(* orderDepartments: a parent in the file comes before its children.       *)
OrderDepartments(file) == FoldLeft(LAMBDA out, row : Visit(file, out, row), <<>>, file)

(* Files are sequences of rows; the departments of a plan are those of     *)
(* earlier transactions, and an import among these was as now; NULL is the *)
(* id of no department.                                                    *)
ASSUME DepartmentsAssumption ==
  \A name \in DOMAIN Plans :
    LET given == Plans[name]
        table == given.tables.dept
    IN  /\ \A file \in given.files \cup given.assignments : file \in Seq(Range(file))
        /\ None \notin Requests \X (given.names \cup UNION {NamesIn(file) : file \in given.files})
        /\ \A d \in DOMAIN table : d # None /\ d[1] \in Stamps \ Requests
        /\ DOMAIN given.tables.member = Memberships /\ given.roles \subseteq Roles
        /\ given.tables.batch.kind = "departments" =>
             /\ \A d \in given.tables.batch.items : d[1] \notin Requests
             /\ \A d, e \in {x \in DOMAIN table : x[1] = First /\ AsImported(table[x], First)} :
                  table[d].name = table[e].name => d = e

-----------------------------------------------------------------------------
(* Import of departments.                                                  *)

BeginImportDepartments(t) ==
  /\ \E file \in Plan.files : BeginImport(t, "importDepartments", file)
  /\ UNCHANGED organisationVars

(* What departmentsByName finds before the owners' rows are locked.        *)
ReadDepartments(t) ==
  /\ At(t, "importDepartments")
  /\ LET file   == File(t)
         names  == NamesIn(file) \cup {file[i].parent : i \in DOMAIN file}
         owners == SetToSeq({file[i].owner : i \in DOMAIN file} \ {None})
     IN  Goto(t, "examineDepartments", Locks(Share, [i \in DOMAIN owners |-> UserRow(owners[i])]),
              [name \in names |-> Named(name)])
  /\ UNCHANGED <<plan, active, batches, organisationVars>>

(* The ids of the parents that are not in the file.                        *)
ParentIds(t) ==
  LET file == File(t)
      outside == {file[i].parent : i \in DOMAIN file} \ (NamesIn(file) \cup {None})
  IN  [name \in outside |-> CHOOSE d \in req[t].saw[name] : TRUE]

ExamineDepartments(t) ==
  /\ At(t, "examineDepartments")
  /\ LET file == File(t)
         seen == req[t].saw
     IN  IF /\ ValidDepartments(file)
            /\ \A i \in DOMAIN file :
                 /\ seen[file[i].name] = {}
                 /\ file[i].parent \notin NamesIn(file) \cup {None}
                      => Cardinality(seen[file[i].parent]) = 1
                 /\ file[i].owner # None => file[i].owner \in active
         THEN /\ \E parents \in SetToSeqs(Range(ParentIds(t))) :
                   Goto(t, "insertDepartments",
                        [i \in DOMAIN parents |-> Lock(Key, DeptRow(parents[i]))], ParentIds(t))
              /\ UNCHANGED <<plan, active, batches>>
         ELSE Refused(t)
  /\ UNCHANGED organisationVars

InsertDepartments(t) ==
  /\ At(t, "insertDepartments")
  /\ IF \A d \in Range(req[t].saw) : Present(d)
     THEN /\ Goto(t, "commitDepartments", <<>>, req[t].saw)
          /\ UNCHANGED <<plan, active, batches>>
     ELSE Refused(t)
  /\ UNCHANGED organisationVars

(* A row of the file is inserted.  Its parent is looked up among those     *)
(* outside of the file and the rows made so far; one that is not there yet *)
(* would be lost.                                                          *)
Insert(t, made, name) ==
  LET row == RowOf(File(t), name)
  IN  [ids  |-> WithRow(made.ids, name, <<t, name>>),
       rows |-> WithRow(made.rows, <<t, name>>,
                  [name   |-> name,
                   parent |-> IF row.parent \in DOMAIN made.ids THEN made.ids[row.parent] ELSE None,
                   owner  |-> row.owner,
                   stamp  |-> t])]

MadeFrom(t) ==
  FoldLeft(LAMBDA made, name : Insert(t, made, name), [ids |-> req[t].saw, rows |-> <<>>],
           OrderDepartments(File(t))).rows

CommitDepartments(t) ==
  /\ At(t, "commitDepartments")
  /\ dept' = Over(MadeFrom(t), dept)
  /\ Imported(t, "departments", {<<t, name>> : name \in NamesIn(File(t))})
  /\ UNCHANGED <<member, usage>>

-----------------------------------------------------------------------------
(* undoDepartments: rows nobody changed and nothing refers to are deleted, *)
(* children first, until none can be.  What a department uses would be     *)
(* deleted with it (ON DELETE CASCADE).                                    *)

BeginUndoDepartments(t) ==
  /\ Free(t, "undoDepartments")
  /\ \E b \in Stamps :
       /\ batches[b].kind = "departments"
       /\ \E order \in SetToSeqs(batches[b].items \cap DOMAIN dept) :
            BeginUndo(t, "undoDepartments", b, Locks(Update, [i \in DOMAIN order |-> DeptRow(order[i])]))
  /\ UNCHANGED organisationVars

(* Variant: whether somebody belongs to a department is not looked at.     *)
Deletable_Belonging(b, gone) ==
  {d \in (batches[b].items \cap DOMAIN dept) \ gone :
     /\ AsImported(dept[d], b)
     /\ \A e \in DOMAIN dept \ gone : dept[e].parent # d
     /\ \A row \in usage : row[1] # d}

(* One DELETE of the loop, some rows being deleted already.                *)
Deletable(b, gone) ==
  {d \in (batches[b].items \cap DOMAIN dept) \ gone :
     /\ AsImported(dept[d], b)
     /\ \A e \in DOMAIN dept \ gone : dept[e].parent # d
     /\ \A m \in Memberships : member[m].dept # d
     /\ \A row \in usage : row[1] # d}

DeletedBy(b) ==
  LET gone[n \in 0..Cardinality(batches[b].items)] ==
        IF n = 0 THEN {} ELSE gone[n - 1] \cup Deletable(b, gone[n - 1])
  IN  gone[Cardinality(batches[b].items)]

UndoDepartments(t) ==
  /\ At(t, "undoDepartments")
  /\ IF Undoable(t)
     THEN LET gone == DeletedBy(req[t].arg)
          IN  /\ dept' = Restrict(dept, DOMAIN dept \ gone)
              /\ usage' = {row \in usage : row[1] \notin gone}
              /\ Undone(t)
     ELSE Refused(t) /\ UNCHANGED <<dept, usage>>
  /\ UNCHANGED member

-----------------------------------------------------------------------------
(* Import of assignments: rows [user, dept], dept a name; all memberships  *)
(* of each user get the department.                                        *)

BeginImportAssignments(t) ==
  /\ \E file \in Plan.assignments : BeginImport(t, "importAssignments", file)
  /\ UNCHANGED organisationVars

(* The memberships are those found before the users' rows are locked.      *)
ReadAssignments(t) ==
  /\ At(t, "importAssignments")
  /\ LET users == SetToSeq({File(t)[i].user : i \in DOMAIN File(t)})
     IN  Goto(t, "examineAssignments", Locks(Share, [i \in DOMAIN users |-> UserRow(users[i])]),
              [i \in DOMAIN File(t) |->
                 [named |-> Named(File(t)[i].dept), members |-> MembershipsOf(File(t)[i].user)]])
  /\ UNCHANGED <<plan, active, batches, organisationVars>>

(* What is to be assigned: the memberships of the first row of the file in *)
(* any order, then those of the second ...                                 *)
TargetsOf(t, i) ==
  {[row |-> i, member |-> m, dept |-> CHOOSE d \in req[t].saw[i].named : TRUE] : m \in req[t].saw[i].members}

TargetOrders(t) ==
  {order \in SetToSeqs(UNION {TargetsOf(t, i) : i \in DOMAIN File(t)}) :
     \A i, j \in DOMAIN order : i < j => order[i].row <= order[j].row}

(* The targets i, i + 1, ... remain; prev are the departments that those   *)
(* before i had.                                                           *)
AssignFrom(t, i, targets, prev, locks) ==
  Goto(t, IF i > Len(targets) THEN "commitAssignments" ELSE "assignMember",
       locks \o (IF i > Len(targets) THEN <<>> ELSE <<Lock(Update, MemberRow(targets[i].member))>>),
       [targets |-> targets, prev |-> prev])

(* The person who imports is an owner or, more often, an admin, who may    *)
(* not touch the ciso's membership.                                        *)
ExamineAssignments(t) ==
  /\ At(t, "examineAssignments")
  /\ LET file == File(t)
         seen == req[t].saw
     IN  IF /\ \A i, j \in DOMAIN file : file[i].user = file[j].user => i = j
            /\ \A i \in DOMAIN file :
                 /\ Cardinality(seen[i].named) = 1
                 /\ file[i].user \in active /\ seen[i].members # {}
                 /\ \A m \in seen[i].members : m[2] # "ciso"
         THEN /\ \E targets \in TargetOrders(t) : AssignFrom(t, 1, targets, <<>>, <<>>)
              /\ UNCHANGED <<plan, active, batches>>
         ELSE Refused(t)
  /\ UNCHANGED organisationVars

(* The department a membership had, as the import records it: read when    *)
(* the row is locked.  The triggers of the update lock the user's row.     *)
AssignMember(t) ==
  /\ At(t, "assignMember")
  /\ LET i == Len(req[t].saw.prev) + 1
         m == req[t].saw.targets[i].member
     IN  IF member[m].revoked
         THEN Refused(t)
         ELSE /\ AssignFrom(t, i + 1, req[t].saw.targets, Append(req[t].saw.prev, member[m].dept),
                            <<Lock(Update, UserRow(m[1])), Lock(Key, DeptRow(req[t].saw.targets[i].dept))>>)
              /\ UNCHANGED <<plan, active, batches>>
  /\ UNCHANGED organisationVars

Assigned(t) ==
  LET targets == req[t].saw.targets
  IN  {[member |-> targets[i].member, prev |-> req[t].saw.prev[i], new |-> targets[i].dept] : i \in DOMAIN targets}

CommitAssignments(t) ==
  /\ At(t, "commitAssignments")
  /\ IF \A item \in Assigned(t) : Present(item.new)
     THEN /\ member' = [m \in Memberships |->
                          IF \E item \in Assigned(t) : item.member = m
                          THEN [dept |-> (CHOOSE item \in Assigned(t) : item.member = m).new,
                                stamp |-> t, revoked |-> FALSE]
                          ELSE member[m]]
          /\ Imported(t, "assignments", Assigned(t))
     ELSE Refused(t) /\ UNCHANGED member
  /\ UNCHANGED <<dept, usage>>

(* undoAssignments: memberships as the import left them get back the       *)
(* department they had, where it still exists.                             *)
BeginUndoAssignments(t) ==
  /\ Free(t, "undoAssignments")
  /\ \E b \in Stamps :
       /\ batches[b].kind = "assignments"
       /\ \E order \in SetToSeqs({item.member : item \in batches[b].items}) :
            BeginUndo(t, "undoAssignments", b, Locks(Update, [i \in DOMAIN order |-> MemberRow(order[i])]))
  /\ UNCHANGED organisationVars

Restorable(b) ==
  {item \in batches[b].items :
     /\ ~member[item.member].revoked
     /\ member[item.member].dept = item.new
     /\ AsImported(member[item.member], b)
     /\ item.prev = None \/ Present(item.prev)
     /\ item.member[2] # "ciso"}

(* The update waits for the users, and for the departments to give back.   *)
UndoAssignments(t) ==
  /\ At(t, "undoAssignments")
  /\ LET back == Restorable(req[t].arg)
     IN  \E users \in SetToSeqs({UserRow(item.member[1]) : item \in back}),
            prevs \in SetToSeqs({DeptRow(item.prev) : item \in {x \in back : x.prev # None}}) :
           Goto(t, "restoreAssignments", Locks(Update, users) \o Locks(Key, prevs), back)
  /\ UNCHANGED <<plan, active, batches, organisationVars>>

(* A department deleted since makes the foreign key refuse the whole undo, *)
(* and so does the trigger when somebody among them was stopped.           *)
RestoreAssignments(t) ==
  /\ At(t, "restoreAssignments")
  /\ LET back == req[t].saw
     IN  IF /\ Undoable(t)
            /\ \A item \in back : item.member[1] \in active /\ (item.prev = None \/ Present(item.prev))
         THEN /\ member' = [m \in Memberships |->
                              IF \E item \in back : item.member = m
                              THEN [dept |-> (CHOOSE item \in back : item.member = m).prev,
                                    stamp |-> t, revoked |-> FALSE]
                              ELSE member[m]]
              /\ Undone(t)
         ELSE Refused(t) /\ UNCHANGED member
  /\ UNCHANGED <<dept, usage>>

-----------------------------------------------------------------------------
(* The organisation screen.                                                *)

OwnerLock(u) == IF u = None THEN <<>> ELSE <<Lock(Update, UserRow(u))>>
RefLock(d)   == IF d = None THEN <<>> ELSE <<Lock(Key, DeptRow(d))>>

OwnerUsable(t) == req[t].arg.owner \in active \cup {None}
RefPresent(d)  == d = None \/ Present(d)

BeginSaveDepartment(t) ==
  /\ Free(t, "saveDepartment")
  /\ \E name \in Plan.names, parent \in DOMAIN dept \cup {None}, owner \in Plan.owners :
       Begin(t, "saveDepartment", [name |-> name, parent |-> parent, owner |-> owner],
             "saveDepartment", OwnerLock(owner) \o RefLock(parent))
  /\ UNCHANGED <<batches, organisationVars>>

SaveDepartment(t) ==
  /\ At(t, "saveDepartment")
  /\ IF OwnerUsable(t) /\ RefPresent(req[t].arg.parent)
     THEN Goto(t, "commitDepartment", <<>>, None)
     ELSE Done(t)
  /\ UNCHANGED <<plan, active, batches, organisationVars>>

CommitDepartment(t) ==
  /\ At(t, "commitDepartment")
  /\ dept' = WithRow(dept, <<t, req[t].arg.name>>, [name |-> req[t].arg.name, parent |-> req[t].arg.parent,
                                                    owner |-> req[t].arg.owner, stamp |-> t])
  /\ Done(t)
  /\ UNCHANGED <<plan, active, batches, member, usage>>

(* The department and those above it; the query stops after 50.            *)
AtOrAbove(d) ==
  LET up[n \in 0..Cardinality(DOMAIN dept)] ==
        IF n = 0 THEN {d}
        ELSE up[n - 1] \cup ({dept[e].parent : e \in up[n - 1] \cap DOMAIN dept} \ {None})
  IN  up[Cardinality(DOMAIN dept)]

BeginUpdateDepartment(t) ==
  /\ Free(t, "updateDepartment")
  /\ \E d \in DOMAIN dept, parent \in DOMAIN dept \cup {None},
        name \in Plan.names, owner \in Plan.owners :
       /\ d # parent
       /\ Begin(t, "updateDepartment", [id |-> d, name |-> name, parent |-> parent, owner |-> owner],
                "updateDepartment", OwnerLock(owner))
  /\ UNCHANGED <<batches, organisationVars>>

(* The search for a cycle sees what is committed now.                      *)
UpdateDepartment(t) ==
  /\ At(t, "updateDepartment")
  /\ LET arg == req[t].arg
     IN  IF ~OwnerUsable(t) \/ (arg.parent # None /\ arg.id \in AtOrAbove(arg.parent))
         THEN Done(t)
         ELSE Goto(t, "writeDepartment", <<Lock(Write, DeptRow(arg.id))>> \o RefLock(arg.parent), None)
  /\ UNCHANGED <<plan, active, batches, organisationVars>>

WriteDepartment(t) ==
  /\ At(t, "writeDepartment")
  /\ LET arg == req[t].arg
     IN  dept' = IF Present(arg.id) /\ RefPresent(arg.parent)
                 THEN [dept EXCEPT ![arg.id] = [name |-> arg.name, parent |-> arg.parent,
                                                owner |-> arg.owner, stamp |-> t]]
                 ELSE dept
  /\ Done(t)
  /\ UNCHANGED <<plan, active, batches, member, usage>>

(* check_auditor_exclusivity: an auditor has no other role.                *)
Combinable(role, others) == \A m \in others : (m[2] = "auditor") = (role = "auditor")

(* saveMembership: the row of a person and a role is inserted or revived.  *)
(* Nobody becomes the ciso here: see OwnerGuard.                           *)
BeginSaveMembership(t) ==
  /\ \E u \in People, role \in Plan.roles, d \in DOMAIN dept \cup {None} :
       /\ role = "ciso" => u \in Chiefs
       /\ Begin(t, "saveMembership", [owner |-> u, role |-> role, dept |-> d], "saveMembership",
                OwnerLock(u) \o <<Lock(Write, MemberRow(<<u, role>>))>> \o RefLock(d))
  /\ UNCHANGED <<batches, organisationVars>>

SaveMembership(t) ==
  /\ At(t, "saveMembership")
  /\ IF /\ OwnerUsable(t) /\ RefPresent(req[t].arg.dept)
        /\ Combinable(req[t].arg.role, MembershipsOf(req[t].arg.owner))
     THEN Goto(t, "commitMembership", <<>>, None)
     ELSE Done(t)
  /\ UNCHANGED <<plan, active, batches, organisationVars>>

CommitMembership(t) ==
  /\ At(t, "commitMembership")
  /\ member' = [member EXCEPT ![<<req[t].arg.owner, req[t].arg.role>>] =
                   [dept |-> req[t].arg.dept, stamp |-> t, revoked |-> FALSE]]
  /\ Done(t)
  /\ UNCHANGED <<plan, active, batches, dept, usage>>

(* saveMemberRole revokes what the person has when it begins, and inserts  *)
(* or revives the membership of the role chosen, which may be one of these.*)
(* The ciso stays who it is, see OwnerGuard.                               *)
BeginSaveMemberRole(t) ==
  /\ Free(t, "saveMemberRole")
  /\ \E u \in People \ Chiefs, role \in Plan.roles \ {"ciso"} :
       \E rows \in SetToSeqs({MemberRow(m) : m \in MembershipsOf(u)}) :
         Begin(t, "saveMemberRole", [user |-> u, role |-> role, found |-> MembershipsOf(u)], "saveMemberRole",
               Locks(Write, rows) \o <<Lock(Update, UserRow(u)), Lock(Write, MemberRow(<<u, role>>))>>)
  /\ UNCHANGED <<batches, organisationVars>>

(* One of them that was revoked meanwhile is left as it is.                *)
SaveMemberRole(t) ==
  /\ At(t, "saveMemberRole")
  /\ LET form == req[t].arg
         chosen == <<form.user, form.role>>
     IN  member' = IF form.user \in active /\ Combinable(form.role, MembershipsOf(form.user) \ form.found)
                   THEN [m \in Memberships |->
                           IF m = chosen \/ (m \in form.found /\ ~member[m].revoked)
                           THEN [dept |-> member[m].dept, stamp |-> t, revoked |-> m # chosen]
                           ELSE member[m]]
                   ELSE member
  /\ Done(t)
  /\ UNCHANGED <<plan, active, batches, dept, usage>>

-----------------------------------------------------------------------------
OrganisationStep(t) ==
  \/ BeginImportDepartments(t) \/ ReadDepartments(t) \/ ExamineDepartments(t)
  \/ InsertDepartments(t) \/ CommitDepartments(t)
  \/ BeginUndoDepartments(t) \/ UndoDepartments(t)
  \/ BeginImportAssignments(t) \/ ReadAssignments(t) \/ ExamineAssignments(t)
  \/ AssignMember(t) \/ CommitAssignments(t)
  \/ BeginUndoAssignments(t) \/ UndoAssignments(t) \/ RestoreAssignments(t)
  \/ BeginSaveDepartment(t) \/ SaveDepartment(t) \/ CommitDepartment(t)
  \/ BeginUpdateDepartment(t) \/ UpdateDepartment(t) \/ WriteDepartment(t)
  \/ BeginSaveMembership(t) \/ SaveMembership(t) \/ CommitMembership(t)
  \/ BeginSaveMemberRole(t) \/ SaveMemberRole(t)
=============================================================================
