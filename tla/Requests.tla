------------------------------ MODULE Requests ------------------------------
(***************************************************************************)
(* The requests of the web and the row locks they meet on.                 *)
(*                                                                         *)
(* A server action is one READ COMMITTED transaction (withTenantWrite): it *)
(* reads what is committed when a statement starts, waits for a row lock   *)
(* where a statement needs one, keeps its locks to the end, and becomes    *)
(* visible at once when it commits.  Modules that extend this one give the *)
(* tables and the server actions; each of their phases is what a request   *)
(* does from one wait to the next.                                         *)
(***************************************************************************)
EXTENDS Naturals, Sequences, FiniteSets

CONSTANTS
  Requests,   (* transactions; each runs one server action, once           *)
  People,     (* ids of app.users                                          *)
  Chiefs,     (* people whose membership is the ciso's                     *)
  Plans,      (* by name: the server actions a behaviour exercises, what   *)
              (* their forms may say, and the tables it starts from        *)
  Before,     (* stands for any transaction before these                   *)
  None        (* SQL NULL                                                  *)

VARIABLES
  plan,     (* the plan of this behaviour: its name and its operations     *)
  active,   (* people whose users.status is 'active'                       *)
  pc,       (* the phase a request executes next                           *)
  req,      (* what it was asked, and what it has read since               *)
  held,     (* the locks it holds                                          *)
  want      (* the locks its phase needs, in the order it takes them       *)

requestVars == <<pc, req, held, want>>

(* The plan of this behaviour in full.                                     *)
Plan == Plans[plan.name]

(* NULL is nobody, no transaction, and no answer.                          *)
ASSUME NoneAssumption == None \notin People \cup Requests \cup {"dispatched", "recovered", "past"}

(* Only so many are under way at a time.                                   *)
ASSUME RequestsAssumption == IsFiniteSet(Requests)

(* Rows over those of a table: they are added to it, or take the place of  *)
(* the ones with their keys.                                               *)
Over(rows, table) == [k \in DOMAIN rows \cup DOMAIN table |-> IF k \in DOMAIN rows THEN rows[k] ELSE table[k]]

(* One row over those of a table.                                          *)
WithRow(table, key, row) == [k \in DOMAIN table \cup {key} |-> IF k = key THEN row ELSE table[k]]

-----------------------------------------------------------------------------
(* Row locks.                                                              *)

(* FOR KEY SHARE (the check of a foreign key), FOR SHARE, FOR NO KEY       *)
(* UPDATE (an UPDATE) and FOR UPDATE (also a DELETE, a row being inserted, *)
(* and an advisory lock), ordered so that two modes exclude each other     *)
(* exactly when they add up to 5.  A table is locked to insert a row       *)
(* (ROW EXCLUSIVE), or to keep everybody from it (LOCK TABLE IN SHARE      *)
(* MODE): either keeps out the other.                                      *)
Key == 1
Share == 2
Write == 3
Update == 4
Inserting == 5
Frozen == 6

Conflict(m, n) == IF m <= Update THEN m + n >= 5 ELSE m # n

Lock(mode, row) == <<mode, row>>
Locks(mode, rows) == [i \in DOMAIN rows |-> Lock(mode, rows[i])]

Blocks(s, t) ==
  /\ s # t
  /\ want[t] # <<>>
  /\ \E l \in held[s] : l[2] = Head(want[t])[2] /\ Conflict(l[1], Head(want[t])[1])

(* All but the last lock of a phase are granted, and the last can be.      *)
Granted(t) ==
  /\ Len(want[t]) <= 1
  /\ \A s \in Requests : ~Blocks(s, t)

(* With the last lock it has all it needs.                                 *)
Taken(t) == held[t] \cup (IF want[t] = <<>> THEN {} ELSE {Head(want[t])})

-----------------------------------------------------------------------------
(* A request from its start to its end.                                    *)

RequestsInit ==
  /\ pc   = [t \in Requests |-> "idle"]
  /\ req  = [t \in Requests |-> [op |-> "none", arg |-> None, saw |-> None]]
  /\ held = [t \in Requests |-> {}]
  /\ want = [t \in Requests |-> <<>>]

(* The next phase of t, the locks it needs, and what t has read by then.   *)
Goto(t, phase, locks, saw) ==
  /\ pc'   = [pc EXCEPT ![t] = phase]
  /\ req'  = [req EXCEPT ![t].saw = saw]
  /\ held' = [held EXCEPT ![t] = Taken(t)]
  /\ want' = [want EXCEPT ![t] = locks]

(* t is free to run an operation of the plan.  Actions whose forms can say *)
(* many things ask it first.                                               *)
Free(t, op) == pc[t] = "idle" /\ op \in plan.ops

Begin(t, op, arg, phase, locks) ==
  /\ Free(t, op)
  /\ pc'   = [pc EXCEPT ![t] = phase]
  /\ req'  = [req EXCEPT ![t] = [op |-> op, arg |-> arg, saw |-> None]]
  /\ want' = [want EXCEPT ![t] = locks]
  /\ UNCHANGED <<plan, active, held>>

(* Commit, rollback or an early return.                                    *)
Done(t) ==
  /\ pc'   = [pc EXCEPT ![t] = "done"]
  /\ req'  = [req EXCEPT ![t] = [op |-> "none", arg |-> None, saw |-> None]]
  /\ held' = [held EXCEPT ![t] = {}]
  /\ want' = [want EXCEPT ![t] = <<>>]

(* How many transactions have started: the time of one that starts now.    *)
Started == Cardinality({t \in Requests : pc[t] # "idle"})

At(t, phase) == pc[t] = phase /\ Granted(t)

(* An action that is one statement on one row: it waits for the row, sees  *)
(* it as it is then, and commits.                                          *)
Once(t, op, lock) ==
  /\ Free(t, op)
  /\ \A s \in Requests : \A l \in held[s] : l[2] = lock[2] => ~Conflict(l[1], lock[1])
  /\ pc' = [pc EXCEPT ![t] = "done"]
  /\ UNCHANGED <<plan, active, req, held, want>>

(* A phase that needs several locks gets the first of them.                *)
TakeLock(t) ==
  /\ Len(want[t]) > 1
  /\ \A s \in Requests : ~Blocks(s, t)
  /\ held' = [held EXCEPT ![t] = @ \cup {Head(want[t])}]
  /\ want' = [want EXCEPT ![t] = Tail(want[t])]
  /\ UNCHANGED <<plan, active, pc, req>>

(* Each of S waits for another of S, and for each a different one: every   *)
(* member is on a cycle.                                                   *)
Deadlocked(S) ==
  /\ S # {}
  /\ \E next \in [S -> S] :
       /\ \A t \in S : Blocks(next[t], t)
       /\ \A s, t \in S : next[s] = next[t] => s = t

(* The database ends one transaction of a cycle; the web shows an error.   *)
DeadlockAbort(t) ==
  /\ \E s \in Requests : Blocks(s, t)
  /\ \E S \in SUBSET Requests : t \in S /\ Deadlocked(S)
  /\ Done(t)
  /\ UNCHANGED <<plan, active>>

(* setMemberStatus of the organisation screen, as the other requests see   *)
(* it: an UPDATE of the user's row, uncommitted for a while.               *)
BeginStopPerson(t) ==
  \E u \in active : Begin(t, "stopPerson", u, "stop_person", <<Lock(Write, <<"user", u>>)>>)

StopPerson(t) ==
  /\ At(t, "stop_person")
  /\ active' = active \ {req[t].arg}
  /\ Done(t)
  /\ UNCHANGED plan

(* No request is under way.                                                *)
Finished == \A t \in Requests : pc[t] \in {"idle", "done"}
=============================================================================
