---------------------------- MODULE ImportBatches ----------------------------
(***************************************************************************)
(* What the imports of initial data have in common: one import of a tenant *)
(* at a time, a file that is examined again before anything is written, a  *)
(* batch that remembers the rows it made, and one undo of a batch.         *)
(*                                                                         *)
(* The people who run them have the import role (require_records_role).    *)
(* A file is the rows whose form is valid (lib/csvImport); a row is named  *)
(* by the key the register gives it.                                       *)
(***************************************************************************)
EXTENDS Requests, SequencesExt

CONSTANTS
  First       (* a batch imported before the requests run                  *)

(* now() of a transaction, the value it leaves in updated_at with its      *)
(* updated_by.                                                             *)
Stamps == Requests \cup {First, Before}

(* The batch there is has its fields, and no request made it.              *)
ASSUME BatchAssumption ==
  /\ First \notin Requests
  /\ \A name \in DOMAIN Plans : DOMAIN Plans[name].tables.batch = {"kind", "items", "undone"}

VARIABLE batches    (* import_batches with their items, import_undos       *)

importVars == <<plan, active, requestVars, batches>>

NoBatch == [kind |-> "none", items |-> {}, undone |-> FALSE]

Batch(kind, items) == [kind |-> kind, items |-> items, undone |-> FALSE]

ImportLock == <<"import">>

(* Variant: no advisory lock, two imports examine their files together.    *)
ImportLocks_None == <<>>

(* The advisory lock of applyImport, taken before the file is examined.    *)
ImportLocks == <<Lock(Update, ImportLock)>>

(* The file of a request, sent back after it was checked.                  *)
File(t) == req[t].arg

BeginImport(t, op, file) ==
  /\ file # <<>>
  /\ Begin(t, op, file, op, ImportLocks)
  /\ UNCHANGED batches

(* The import commits: the batch and what it made become visible.          *)
Imported(t, kind, items) ==
  /\ batches' = [batches EXCEPT ![t] = Batch(kind, items)]
  /\ Done(t)
  /\ UNCHANGED <<plan, active>>

(* Issues found, a unique key taken or a referenced row gone: nothing is   *)
(* written.                                                                *)
Refused(t) == Done(t) /\ UNCHANGED <<plan, active, batches>>

(* undoImport reads the batch without a lock, so another undo of it may be *)
(* under way, and then locks the rows the batch made.                      *)
BeginUndo(t, op, b, locks) ==
  /\ ~batches[b].undone
  /\ Begin(t, op, b, op, locks)
  /\ UNCHANGED batches

(* The primary key of import_undos lets one undo of a batch commit.        *)
Undoable(t) == ~batches[req[t].arg].undone

Undone(t) ==
  /\ batches' = [batches EXCEPT ![req[t].arg].undone = TRUE]
  /\ Done(t)
  /\ UNCHANGED <<plan, active>>

(* The row was last written by the import of this batch.                   *)
AsImported(row, b) == row.stamp = b
=============================================================================
