------------------------------- MODULE OrgChart -------------------------------
(***************************************************************************)
(* The organisation chart on the page of the departments: the departments  *)
(* are read with how many belong to each, the memberships are read in a    *)
(* second statement, and a tree is drawn of the two.  Concurrent edits of  *)
(* departments can make a circle of parents; what cannot be drawn as a     *)
(* tree is listed under it.                                                *)
(***************************************************************************)
EXTENDS Departments

CONSTANT MAX_DEPTH      (* deeper departments are not drawn                *)

ASSUME DepthAssumption == MAX_DEPTH \in Nat

(* Pages only read: one at a time is enough.                               *)
BeginOrgChart(t) ==
  /\ \A s \in Requests : req[s].op # "orgChart"
  /\ Begin(t, "orgChart", None, "readNodes", <<>>)
  /\ UNCHANGED <<batches, organisationVars>>

Unrevoked == {m \in Memberships : ~member[m].revoked}

(* getDepartmentMaster: the heads of a department are counted, not the     *)
(* memberships.                                                            *)
ReadNodes(t) ==
  /\ At(t, "readNodes")
  /\ Goto(t, "readMemberships", <<>>,
          [parent  |-> [d \in DOMAIN dept |-> dept[d].parent],
           members |-> [d \in DOMAIN dept |-> Cardinality({m[1] : m \in {x \in Unrevoked : member[x].dept = d}})]])
  /\ UNCHANGED <<plan, active, batches, organisationVars>>

ReadMemberships(t) ==
  /\ At(t, "readMemberships")
  /\ Goto(t, "showOrgChart", <<>>,
          [parent  |-> req[t].saw.parent,
           members |-> req[t].saw.members,
           of      |-> [m \in Unrevoked |-> member[m].dept]])
  /\ UNCHANGED <<plan, active, batches, organisationVars>>

ShowOrgChart(t) ==
  /\ At(t, "showOrgChart")
  /\ Done(t)
  /\ UNCHANGED <<plan, active, batches, organisationVars>>

-----------------------------------------------------------------------------
(* The chart drawn of what was read.                                       *)

Nodes(read) == DOMAIN read.parent

TreeRoots(read)   == {d \in Nodes(read) : read.parent[d] \notin Nodes(read)}
Children(read, d) == {c \in Nodes(read) : read.parent[c] = d}

(* buildTree: the departments at a depth, down to the last one drawn.      *)
AtDepth(read, n) ==
  LET level[i \in 0..n] == IF i = 0 THEN TreeRoots(read)
                           ELSE UNION {Children(read, d) : d \in level[i - 1]}
  IN  level[n]

Reached(read)  == UNION {AtDepth(read, n) : n \in 0..MAX_DEPTH}
Excluded(read) == Nodes(read) \ Reached(read)

(* The badges under a department, and those beside the tree: one for each  *)
(* membership.                                                             *)
MembersOf(read, d)    == {m \in DOMAIN read.of : read.of[m] = d}
UnassignedTo(read)    == {m \in DOMAIN read.of : read.of[m] = None}

(* Variant: beside the tree are those that have no department.             *)
ExcludedMembers_None(read) == {}

ExcludedMembers(read) == {m \in DOMAIN read.of : read.of[m] \in Excluded(read)}

(* How many badges of a membership are on the chart.                       *)
TimesShown(read, m) ==
  Cardinality({d \in Reached(read) : m \in MembersOf(read, d)})
  + Cardinality({m} \cap UnassignedTo(read)) + Cardinality({m} \cap ExcludedMembers(read))

-----------------------------------------------------------------------------
ChartStep(t) ==
  BeginOrgChart(t) \/ ReadNodes(t) \/ ReadMemberships(t) \/ ShowOrgChart(t)
=============================================================================
