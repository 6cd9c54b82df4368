------------------------------ MODULE AuditChain ------------------------------
(***************************************************************************)
(* The hash chain audit.audit_log and the transactions that append to it.  *)
(*                                                                         *)
(* audit.append numbers a row and links it to the last one under an        *)
(* advisory lock that lasts until the transaction ends.  Its caller, the   *)
(* log service, decides when to commit and under which isolation level.    *)
(* A digest is the text that went into it: equal digests, equal texts.     *)
(* The text joins the columns with an unescaped separator and writes       *)
(* nothing for NULL, so that two rows can have one text.                   *)
(***************************************************************************)
EXTENDS Naturals, Sequences

CONSTANTS
  Writers,       (* transactions that may append at the same time          *)
  Words, Sep,    (* what a text is made of; Sep is the bar, and a word     *)
  NULL,
  Payloads,      (* the columns chain_payload covers: target_type may be   *)
                 (* NULL, and head and tail stand for the columns before   *)
                 (* and behind the two texts                               *)
  MaxRows,       (* bound of the model on the rows appended                *)
  ReadCommitted, (* the writers that run under READ COMMITTED, the others  *)
                 (* run under REPEATABLE READ                              *)
  MayAlter       (* something outside append may change a committed row    *)

None == "none"

ASSUME AuditChainAssumption ==
  /\ None \notin Writers
  /\ Sep \in Words
  /\ NULL \notin Seq(Words)
  /\ \A p \in Payloads :
       /\ p = [head |-> p.head, action |-> p.action,
               target_type |-> p.target_type, tail |-> p.tail]
       /\ p.action \in Seq(Words)
       /\ p.target_type = NULL \/ p.target_type \in Seq(Words)
  /\ MaxRows \in Nat
  /\ ReadCommitted \subseteq Writers
  /\ MayAlter \in BOOLEAN

VARIABLES
  log,       (* the committed rows, in the order they were committed       *)
  pending,   (* the rows a writer has inserted and not committed           *)
  snapshot,  (* the committed rows when the writer's transaction began     *)
  pc,        (* the statement of append a writer executes next             *)
  seq, prev, (* v_seq and v_prev of that call                              *)
  lock,      (* the holder of the advisory lock, or None                   *)
  altered    (* history: the committed row that was changed, and what it   *)
             (* said when it was appended                                  *)

callVars == <<seq, prev>>
vars     == <<log, pending, snapshot, pc, seq, prev, lock, altered>>

NoHash == << >>

-----------------------------------------------------------------------------
(* What a digest is of.                                                    *)

coalesce(text) == IF text = NULL THEN << >> ELSE text

(* Variant: the columns are written one behind the other.                  *)
chain_payload_NoSeparator(r) ==
  <<r.head>> \o r.action \o coalesce(r.target_type) \o <<r.tail>>

(* head is tenant_id and occurred_at, whose forms are fixed.  tail is      *)
(* target_id and changed_fields: a uuid holds no bar, a bar in jsonb is    *)
(* inside a string and the rest of a JSON text from inside a string is not *)
(* one, so the text alone tells where tail begins.  It does not tell where *)
(* action ends.                                                            *)
chain_payload(r) ==
  <<r.head, Sep>> \o r.action \o <<Sep>> \o coalesce(r.target_type) \o <<Sep, r.tail>>

(* digest(chain_payload(r)): prev_hash and chain_seq come first and have a *)
(* form of their own.                                                      *)
HashOf(previous, number, payload) == Append(previous, <<number, chain_payload(payload)>>)

Digest == Seq(Nat \X {chain_payload(p) : p \in Payloads})

-----------------------------------------------------------------------------

Row    == [seq : Nat, payload : Payloads, prev : Digest, hash : Digest]
Phases == {"out", "in", "lock", "max", "last", "insert", "failed"}

TypeOK ==
  /\ log      \in Seq(Row)
  /\ pending  \in [Writers -> Seq(Row)]
  /\ snapshot \in [Writers -> Seq(Row)]
  /\ pc       \in [Writers -> Phases]
  /\ seq      \in [Writers -> Nat]
  /\ prev     \in [Writers -> Digest]
  /\ lock     \in Writers \cup {None}
  /\ altered  \in SUBSET [row : Nat, was : Payloads]

Init ==
  /\ log      = << >>
  /\ pending  = [w \in Writers |-> << >>]
  /\ snapshot = [w \in Writers |-> << >>]
  /\ pc       = [w \in Writers |-> "out"]
  /\ seq      = [w \in Writers |-> 0]
  /\ prev     = [w \in Writers |-> NoHash]
  /\ lock     = None
  /\ altered  = {}

-----------------------------------------------------------------------------
(* What a statement of w reads: a fresh snapshot, or the one of the        *)
(* transaction, and its own rows.                                          *)
Visible(w) == (IF w \in ReadCommitted THEN log ELSE snapshot[w]) \o pending[w]

(* coalesce(max(chain_seq), 0).                                            *)
IsMaxSeq(rows, n) ==
  /\ n \in {0} \cup {rows[i].seq : i \in 1 .. Len(rows)}
  /\ \A i \in 1 .. Len(rows) : rows[i].seq <= n

(* hash ... ORDER BY chain_seq DESC LIMIT 1.                               *)
IsLastHash(rows, h) ==
  \/ rows = << >> /\ h = NoHash
  \/ \E i \in 1 .. Len(rows) :
       /\ \A k \in 1 .. Len(rows) : rows[k].seq <= rows[i].seq
       /\ h = rows[i].hash

Taken(number) ==
  \/ \E i \in 1 .. Len(log) : log[i].seq = number
  \/ \E w \in Writers : \E i \in 1 .. Len(pending[w]) : pending[w][i].seq = number

-----------------------------------------------------------------------------
(* The transaction of the log service.                                     *)

BeginTransaction(w) ==
  /\ pc[w] = "out"
  /\ snapshot' = [snapshot EXCEPT ![w] = log]
  /\ pc'       = [pc EXCEPT ![w] = "in"]
  /\ UNCHANGED <<log, pending, callVars, lock, altered>>

CallAppend(w) ==
  /\ pc[w] = "in"
  /\ Len(log) + Len(pending[w]) < MaxRows
  /\ pc' = [pc EXCEPT ![w] = "lock"]
  /\ UNCHANGED <<log, pending, snapshot, callVars, lock, altered>>

(* Variant: no lock is taken.                                              *)
TakeLock_Skipped(w) ==
  /\ pc[w] = "lock"
  /\ pc' = [pc EXCEPT ![w] = "max"]
  /\ UNCHANGED <<log, pending, snapshot, callVars, lock, altered>>

TakeLock(w) ==
  /\ pc[w] = "lock"
  /\ lock \in {None, w}
  /\ lock' = w
  /\ pc'   = [pc EXCEPT ![w] = "max"]
  /\ UNCHANGED <<log, pending, snapshot, callVars, altered>>

ReadMax(w) ==
  /\ pc[w] = "max"
  /\ \E n \in 0 .. MaxRows :
       /\ IsMaxSeq(Visible(w), n)
       /\ seq' = [seq EXCEPT ![w] = n + 1]
  /\ pc' = [pc EXCEPT ![w] = "last"]
  /\ UNCHANGED <<log, pending, snapshot, prev, lock, altered>>

(* Variant: the hash is read as of the start of the transaction.           *)
ReadLast_BeforeLock(w) ==
  LET rows == snapshot[w] \o pending[w] IN
  /\ pc[w] = "last"
  /\ \E h \in {NoHash} \cup {rows[i].hash : i \in 1 .. Len(rows)} :
       /\ IsLastHash(rows, h)
       /\ prev' = [prev EXCEPT ![w] = h]
  /\ pc' = [pc EXCEPT ![w] = "insert"]
  /\ UNCHANGED <<log, pending, snapshot, seq, lock, altered>>

ReadLast(w) ==
  LET rows == Visible(w) IN
  /\ pc[w] = "last"
  /\ \E h \in {NoHash} \cup {rows[i].hash : i \in 1 .. Len(rows)} :
       /\ IsLastHash(rows, h)
       /\ prev' = [prev EXCEPT ![w] = h]
  /\ pc' = [pc EXCEPT ![w] = "insert"]
  /\ UNCHANGED <<log, pending, snapshot, seq, lock, altered>>

NewRow(w, payload) ==
  [seq |-> seq[w], payload |-> payload,
   prev |-> prev[w], hash |-> HashOf(prev[w], seq[w], payload)]

(* The INSERT: a number somebody else has is a duplicate key, the          *)
(* transaction can only be rolled back.                                    *)
InsertRow(w) ==
  /\ pc[w] = "insert"
  /\ \/ /\ ~Taken(seq[w])
        /\ \E payload \in Payloads :
             pending' = [pending EXCEPT ![w] = Append(@, NewRow(w, payload))]
        /\ pc' = [pc EXCEPT ![w] = "in"]
     \/ /\ Taken(seq[w])
        /\ pc' = [pc EXCEPT ![w] = "failed"]
        /\ UNCHANGED pending
  /\ UNCHANGED <<log, snapshot, callVars, lock, altered>>

EndTransaction(w) ==
  /\ pending'  = [pending EXCEPT ![w] = << >>]
  /\ snapshot' = [snapshot EXCEPT ![w] = << >>]
  /\ pc'       = [pc EXCEPT ![w] = "out"]
  /\ lock'     = IF lock = w THEN None ELSE lock
  /\ seq'      = [seq EXCEPT ![w] = 0]
  /\ prev'     = [prev EXCEPT ![w] = NoHash]
  /\ UNCHANGED altered

Commit(w) ==
  /\ pc[w] = "in"
  /\ log' = log \o pending[w]
  /\ EndTransaction(w)

Rollback(w) ==
  /\ pc[w] # "out"
  /\ EndTransaction(w)
  /\ UNCHANGED log

(* Something other than append changes what a committed row records.       *)
AlterRow(i) ==
  /\ MayAlter
  /\ altered = {}
  /\ \E p \in Payloads \ {log[i].payload} : log' = [log EXCEPT ![i].payload = p]
  /\ altered' = {[row |-> i, was |-> log[i].payload]}
  /\ UNCHANGED <<pending, snapshot, pc, callVars, lock>>

-----------------------------------------------------------------------------
Step(w) ==
  \/ BeginTransaction(w)
  \/ CallAppend(w)
  \/ TakeLock(w)
  \/ ReadMax(w)
  \/ ReadLast(w)
  \/ InsertRow(w)
  \/ Commit(w)
  \/ Rollback(w)

Next ==
  \/ \E w \in Writers : Step(w)
  \/ \E i \in 1 .. Len(log) : AlterRow(i)

Spec == Init /\ [][Next]_vars

-----------------------------------------------------------------------------
(* What audit.verify_chain computes.                                       *)

RowVerifies(i) ==
  /\ log[i].prev = (IF i = 1 THEN NoHash ELSE log[i - 1].hash)
  /\ log[i].hash = HashOf(log[i].prev, log[i].seq, log[i].payload)

(* Rows are read ORDER BY chain_seq, which is the order of commit as long  *)
(* as Numbered holds.                                                      *)
VerifyChain == \A i \in 1 .. Len(log) : RowVerifies(i)

-----------------------------------------------------------------------------
(* Properties.                                                             *)

(* Concurrent appends leave no gap, no duplicate and no inversion in       *)
(* chain_seq, whichever of them are rolled back and whatever isolation     *)
(* level each caller uses.                                                 *)
Numbered == \A i \in 1 .. Len(log) : log[i].seq = i

(* verify_chain accepts whatever append produced: every row is linked to   *)
(* the one before it, not to one its writer saw earlier.                   *)
ChainIntact == altered = {} => VerifyChain

(* The advisory lock is what keeps the callers apart: under READ COMMITTED *)
(* no append fails on a duplicate chain_seq, so no audit record is lost to *)
(* a concurrent one.                                                       *)
AppendNeverCollides ==
  \A w \in ReadCommitted : pc[w] # "failed"

(* Neither text of the row holds the bar that separates them.              *)
Plain(r) ==
  \A text \in {r.action, coalesce(r.target_type)} :
    \A i \in 1 .. Len(text) : text[i] # Sep

(* The rows differ in nothing but an empty target_type for none.           *)
SaysTheSame(p, r) ==
  p = [r EXCEPT !.target_type = IF coalesce(@) = coalesce(p.target_type)
                                  THEN p.target_type
                                  ELSE @]

(* verify_chain answers false from the moment a row whose texts hold no    *)
(* bar, as the actions and the target types of this system do, has been    *)
(* made to say something else, be it with bars; and the rows appended      *)
(* after it do not heal the chain.  The comment at 0014:52 says so of      *)
(* every row, which does not hold: an alteration that moves a bar from     *)
(* action to target_type leaves the text as it was, see                    *)
(* MovedBarGoesUnnoticed in AuditChainProofs.                              *)
PlainAlterationNoticed ==
  \A a \in altered :
    Plain(a.was) /\ ~SaysTheSame(a.was, log[a.row].payload) => ~VerifyChain

=============================================================================
