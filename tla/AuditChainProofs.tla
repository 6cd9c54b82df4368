--------------------------- MODULE AuditChainProofs ---------------------------
(***************************************************************************)
(* Proofs about the audit chain, for any number of writers, payloads and   *)
(* rows, and for both isolation levels.                                    *)
(***************************************************************************)
EXTENDS AuditChain, TLAPS

(* The hash a row at place i must be linked to.                            *)
LinkAt(rows, i) == IF i = 1 THEN NoHash ELSE rows[i - 1].hash

(* Numbered from one and linked throughout.                                *)
Good(rows) ==
  \A i \in 1 .. Len(rows) :
    /\ rows[i].seq = i
    /\ rows[i].prev = LinkAt(rows, i)
    /\ rows[i].hash = HashOf(rows[i].prev, rows[i].seq, rows[i].payload)

InCall(w) == pc[w] \in {"max", "last", "insert"}

(* Only the holder of the lock reads, or has rows nobody else can see yet. *)
LockHeld ==
  \A w \in Writers : InCall(w) \/ pending[w] # << >> => lock = w

(* The snapshot of a transaction is a prefix of what is committed, and the *)
(* whole of it once the transaction has inserted a row.                    *)
SnapshotPrefix ==
  \A w \in Writers :
    /\ Len(snapshot[w]) <= Len(log)
    /\ \A i \in 1 .. Len(snapshot[w]) : snapshot[w][i] = log[i]
    /\ pending[w] # << >> /\ w \notin ReadCommitted => snapshot[w] = log

(* What a call has read so far is the end of what it can see.              *)
CallState ==
  \A w \in Writers :
    /\ pc[w] \in {"last", "insert"} => seq[w] = Len(Visible(w)) + 1
    /\ pc[w] = "insert" => prev[w] = LinkAt(Visible(w), Len(Visible(w)) + 1)

ChainInv ==
  /\ TypeOK
  /\ LockHeld
  /\ SnapshotPrefix
  /\ CallState
  /\ \A w \in Writers : Good(log \o pending[w])
  /\ Good(log)

-----------------------------------------------------------------------------
(* Sequences of rows.                                                      *)

LEMMA GoodMax ==
  ASSUME NEW rows \in Seq(Row), Good(rows), NEW n \in Nat, IsMaxSeq(rows, n)
  PROVE  n = Len(rows)
<1>1. Len(rows) \in Nat
  OBVIOUS
<1>2. CASE Len(rows) = 0
  BY <1>2 DEF IsMaxSeq
<1>3. CASE Len(rows) > 0
  <2>1. rows[Len(rows)].seq <= n /\ rows[Len(rows)].seq = Len(rows)
    BY <1>1, <1>3 DEF IsMaxSeq, Good
  <2>2. PICK i \in 1 .. Len(rows) : n = rows[i].seq
    BY <1>1, <1>3, <2>1 DEF IsMaxSeq
  <2> QED
    BY <1>1, <2>1, <2>2 DEF Good
<1> QED
  BY <1>1, <1>2, <1>3

LEMMA GoodLast ==
  ASSUME NEW rows \in Seq(Row), Good(rows), NEW h, IsLastHash(rows, h)
  PROVE  h = LinkAt(rows, Len(rows) + 1)
<1>1. Len(rows) \in Nat
  OBVIOUS
<1>2. CASE Len(rows) = 0
  BY <1>2 DEF IsLastHash, LinkAt
<1>3. CASE Len(rows) > 0
  <2>1. PICK i \in 1 .. Len(rows) :
          /\ \A k \in 1 .. Len(rows) : rows[k].seq <= rows[i].seq
          /\ h = rows[i].hash
    BY <1>3 DEF IsLastHash
  <2>2. Len(rows) \in 1 .. Len(rows)
    BY <1>1, <1>3
  <2>3. i = Len(rows)
    BY <1>1, <2>1, <2>2 DEF Good
  <2> QED
    BY <1>1, <1>3, <2>1, <2>3 DEF LinkAt
<1> QED
  BY <1>1, <1>2, <1>3

LEMMA GoodAppend ==
  ASSUME NEW rows \in Seq(Row), Good(rows), NEW r \in Row,
         r.seq = Len(rows) + 1,
         r.prev = LinkAt(rows, Len(rows) + 1),
         r.hash = HashOf(r.prev, r.seq, r.payload)
  PROVE  Good(Append(rows, r))
<1> DEFINE more == Append(rows, r)
<1>1. /\ Len(rows) \in Nat
      /\ Len(more) = Len(rows) + 1
      /\ more[Len(rows) + 1] = r
      /\ \A i \in 1 .. Len(rows) : more[i] = rows[i]
  OBVIOUS
<1>2. \A i \in 1 .. Len(rows) + 1 : LinkAt(more, i) = LinkAt(rows, i)
  BY <1>1 DEF LinkAt
<1>3. ASSUME NEW i \in 1 .. Len(more)
      PROVE  /\ more[i].seq = i
             /\ more[i].prev = LinkAt(more, i)
             /\ more[i].hash = HashOf(more[i].prev, more[i].seq, more[i].payload)
  <2>1. CASE i = Len(rows) + 1
    BY <1>1, <1>2, <2>1
  <2>2. CASE i \in 1 .. Len(rows)
    BY <1>1, <1>2, <2>2 DEF Good
  <2> QED
    BY <1>1, <2>1, <2>2
<1> HIDE DEF more
<1>4. Good(more)
  BY <1>3 DEF Good
<1> QED
  BY <1>4 DEF more

LEMMA ConcatAppend ==
  ASSUME NEW s \in Seq(Row), NEW p \in Seq(Row), NEW r \in Row
  PROVE  s \o Append(p, r) = Append(s \o p, r)
OBVIOUS

LEMMA ConcatEmpty ==
  ASSUME NEW s \in Seq(Row)
  PROVE  s \o << >> = s
OBVIOUS

LEMMA LinkType ==
  ASSUME NEW rows \in Seq(Row)
  PROVE  LinkAt(rows, Len(rows) + 1) \in Digest
<1>1. NoHash \in Digest
  BY DEF NoHash, Digest
<1>2. CASE Len(rows) = 0
  BY <1>1, <1>2 DEF LinkAt
<1>3. CASE Len(rows) # 0
  <2>1. Len(rows) \in 1 .. Len(rows) /\ rows[Len(rows)] \in Row
    BY <1>3
  <2>2. rows[Len(rows)].hash \in Digest
    BY <2>1 DEF Row
  <2> QED
    BY <1>3, <2>1, <2>2 DEF LinkAt
<1> QED
  BY <1>2, <1>3

LEMMA HashType ==
  ASSUME NEW h \in Digest, NEW n \in Nat, NEW p \in Payloads
  PROVE  HashOf(h, n, p) \in Digest
<1>1. <<n, chain_payload(p)>> \in Nat \X {chain_payload(x) : x \in Payloads}
  OBVIOUS
<1>2. \A S : \A s \in Seq(S) : \A e \in S : Append(s, e) \in Seq(S)
  OBVIOUS
<1> QED
  BY <1>1, <1>2 DEF HashOf, Digest

-----------------------------------------------------------------------------
(* Type correctness, altered rows included.                                *)

LEMMA VisibleType ==
  ASSUME TypeOK, NEW w \in Writers
  PROVE  Visible(w) \in Seq(Row)
<1>1. log \in Seq(Row) /\ pending[w] \in Seq(Row) /\ snapshot[w] \in Seq(Row)
  BY DEF TypeOK
<1> QED
  BY <1>1 DEF Visible

LEMMA EndTypes ==
  ASSUME TypeOK, NEW w \in Writers, EndTransaction(w)
  PROVE  /\ pending' \in [Writers -> Seq(Row)]
         /\ snapshot' \in [Writers -> Seq(Row)]
         /\ pc' \in [Writers -> Phases]
         /\ seq' \in [Writers -> Nat]
         /\ prev' \in [Writers -> Digest]
         /\ lock' \in Writers \cup {None}
         /\ altered' \in SUBSET [row : Nat, was : Payloads]
<1>1. << >> \in Seq(Row) /\ NoHash \in Digest /\ "out" \in Phases /\ 0 \in Nat
  BY DEF NoHash, Digest, Phases
<1> QED
  BY <1>1 DEF TypeOK, EndTransaction

LEMMA AlterTypes ==
  ASSUME TypeOK, NEW i \in 1 .. Len(log), AlterRow(i)
  PROVE  TypeOK'
<1>1. log[i] \in Row
  BY DEF TypeOK
<1>2. log' \in Seq(Row)
  <2>1. PICK p \in Payloads : log' = [log EXCEPT ![i].payload = p]
    BY DEF AlterRow
  <2>2. [log[i] EXCEPT !.payload = p] \in Row
    BY <1>1 DEF Row
  <2>3. log' = [log EXCEPT ![i] = [log[i] EXCEPT !.payload = p]]
    BY <2>1
  <2> QED
    BY <2>2, <2>3 DEF TypeOK
<1>3. altered' \in SUBSET [row : Nat, was : Payloads]
  <2>1. i \in Nat /\ log[i].payload \in Payloads
    BY <1>1 DEF Row
  <2> QED
    BY <2>1 DEF AlterRow
<1> QED
  BY <1>2, <1>3 DEF AlterRow, TypeOK, callVars

LEMMA NewRowType ==
  ASSUME TypeOK, NEW w \in Writers, NEW p \in Payloads
  PROVE  NewRow(w, p) \in Row
<1>1. seq[w] \in Nat /\ prev[w] \in Digest
  BY DEF TypeOK
<1>2. HashOf(prev[w], seq[w], p) \in Digest
  BY <1>1, HashType
<1> QED
  BY <1>1, <1>2 DEF NewRow, Row

LEMMA StepTypes ==
  ASSUME TypeOK, NEW w \in Writers, Step(w)
  PROVE  TypeOK'
<1> USE DEF callVars
<1>p. {"in", "lock", "max", "last", "insert", "failed"} \subseteq Phases
  BY DEF Phases
<1>1. CASE BeginTransaction(w)
  BY <1>1, <1>p DEF BeginTransaction, TypeOK
<1>2. CASE CallAppend(w)
  BY <1>2, <1>p DEF CallAppend, TypeOK
<1>3. CASE TakeLock(w)
  BY <1>3, <1>p DEF TakeLock, TypeOK
<1>4. CASE ReadMax(w)
  <2>1. PICK n \in 0 .. MaxRows : seq' = [seq EXCEPT ![w] = n + 1]
    BY <1>4 DEF ReadMax
  <2>2. n + 1 \in Nat
    BY AuditChainAssumption
  <2>3. seq' \in [Writers -> Nat]
    BY <2>1, <2>2 DEF TypeOK
  <2> QED
    BY <1>4, <1>p, <2>3 DEF ReadMax, TypeOK
<1>5. CASE ReadLast(w)
  <2>1. PICK h \in {NoHash} \cup {Visible(w)[i].hash : i \in 1 .. Len(Visible(w))} :
          prev' = [prev EXCEPT ![w] = h]
    BY <1>5 DEF ReadLast
  <2>2. h \in Digest
    <3>1. \A i \in 1 .. Len(Visible(w)) : Visible(w)[i] \in Row
      BY VisibleType
    <3>2. \A i \in 1 .. Len(Visible(w)) : Visible(w)[i].hash \in Digest
      BY <3>1 DEF Row
    <3>3. NoHash \in Digest
      BY DEF NoHash, Digest
    <3> QED
      BY <3>2, <3>3
  <2>3. prev' \in [Writers -> Digest]
    BY <2>1, <2>2 DEF TypeOK
  <2> QED
    BY <1>5, <1>p, <2>3 DEF ReadLast, TypeOK
<1>6. CASE InsertRow(w)
  <2>1. pending' \in [Writers -> Seq(Row)]
    <3>1. CASE UNCHANGED pending
      BY <3>1 DEF TypeOK
    <3>2. CASE ~UNCHANGED pending
      <4>1. PICK p \in Payloads :
              pending' = [pending EXCEPT ![w] = Append(pending[w], NewRow(w, p))]
        BY <1>6, <3>2 DEF InsertRow
      <4>2. Append(pending[w], NewRow(w, p)) \in Seq(Row)
        <5>1. pending[w] \in Seq(Row)
          BY DEF TypeOK
        <5> QED
          BY <5>1, NewRowType
      <4> QED
        BY <4>1, <4>2 DEF TypeOK
    <3> QED
      BY <3>1, <3>2
  <2>2. pc' \in [Writers -> Phases]
    BY <1>6, <1>p DEF InsertRow, TypeOK
  <2> QED
    BY <1>6, <2>1, <2>2 DEF InsertRow, TypeOK
<1>7. CASE Commit(w)
  <2>1. log' \in Seq(Row)
    BY <1>7 DEF Commit, TypeOK
  <2> QED
    BY <1>7, <2>1, EndTypes DEF Commit, TypeOK
<1>8. CASE Rollback(w)
  BY <1>8, EndTypes DEF Rollback, TypeOK
<1> QED
  BY <1>1, <1>2, <1>3, <1>4, <1>5, <1>6, <1>7, <1>8 DEF Step

LEMMA InitTypes == Init => TypeOK
<1>1. << >> \in Seq(Row) /\ NoHash \in Digest /\ "out" \in Phases /\ 0 \in Nat
  BY DEF NoHash, Digest, Phases
<1> QED
  BY <1>1, Zenon DEF Init, TypeOK

(* The log, and every call in progress, keep their types.                  *)
THEOREM TypeCorrect == Spec => []TypeOK
<1>1. TypeOK /\ [Next]_vars => TypeOK'
  <2> SUFFICES ASSUME TypeOK, [Next]_vars PROVE TypeOK'
    OBVIOUS
  <2>1. CASE Next
    BY <2>1, StepTypes, AlterTypes DEF Next
  <2>2. CASE UNCHANGED vars
    BY <2>2 DEF vars, callVars, TypeOK
  <2> QED
    BY <2>1, <2>2
<1> QED
  BY <1>1, InitTypes, PTL DEF Spec

-----------------------------------------------------------------------------
(* What a call sees.                                                       *)

(* Reading from a prefix that is itself well formed is reading a well      *)
(* formed list.                                                            *)
LEMMA GoodPrefix ==
  ASSUME NEW s \in Seq(Row), NEW t \in Seq(Row), Good(t),
         Len(s) <= Len(t), \A i \in 1 .. Len(s) : s[i] = t[i]
  PROVE  Good(s)
<1>1. Len(s) \in Nat /\ Len(t) \in Nat
  OBVIOUS
<1>2. \A i \in 1 .. Len(s) : LinkAt(s, i) = LinkAt(t, i)
  BY <1>1 DEF LinkAt
<1> QED
  BY <1>1, <1>2 DEF Good

LEMMA VisibleGood ==
  ASSUME ChainInv, NEW w \in Writers
  PROVE  Good(Visible(w))
<1> USE DEF ChainInv
<1>1. log \in Seq(Row) /\ pending[w] \in Seq(Row) /\ snapshot[w] \in Seq(Row)
  BY DEF TypeOK
<1>2. CASE w \in ReadCommitted \/ pending[w] # << >>
  BY <1>2 DEF Visible, SnapshotPrefix
<1>3. CASE w \notin ReadCommitted /\ pending[w] = << >>
  <2>1. Visible(w) = snapshot[w]
    BY <1>1, <1>3, ConcatEmpty DEF Visible
  <2>2. /\ Len(snapshot[w]) <= Len(log)
        /\ \A i \in 1 .. Len(snapshot[w]) : snapshot[w][i] = log[i]
    BY DEF SnapshotPrefix
  <2>3. Good(snapshot[w])
    BY <1>1, <2>2, GoodPrefix
  <2> QED
    BY <2>1, <2>3
<1> QED
  BY <1>2, <1>3

(* A number that is still free can only have been computed from a view     *)
(* that is up to date: a stale one ends below the end of the log.          *)
LEMMA FreeNumberIsFresh ==
  ASSUME ChainInv, NEW w \in Writers, pc[w] = "insert", ~Taken(seq[w])
  PROVE  /\ Visible(w) = log \o pending[w]
         /\ w \notin ReadCommitted => snapshot[w] = log
<1> USE DEF ChainInv
<1>1. log \in Seq(Row) /\ pending[w] \in Seq(Row) /\ snapshot[w] \in Seq(Row)
  BY DEF TypeOK
<1>2. CASE w \in ReadCommitted \/ pending[w] # << >>
  BY <1>2 DEF Visible, SnapshotPrefix
<1>3. CASE w \notin ReadCommitted /\ pending[w] = << >>
  <2>1. Visible(w) = snapshot[w]
    BY <1>1, <1>3, ConcatEmpty DEF Visible
  <2>2. seq[w] = Len(snapshot[w]) + 1
    BY <2>1 DEF CallState
  <2>3. Len(snapshot[w]) = Len(log)
    <3>1. ASSUME Len(snapshot[w]) < Len(log) PROVE FALSE
      <4>1. seq[w] \in 1 .. Len(log)
        BY <1>1, <2>2, <3>1
      <4>2. log[seq[w]].seq = seq[w]
        BY <4>1 DEF Good
      <4> QED
        BY <4>1, <4>2 DEF Taken
    <3>2. Len(snapshot[w]) <= Len(log)
      BY DEF SnapshotPrefix
    <3> QED
      BY <1>1, <3>1, <3>2
  <2>4. snapshot[w] = log
    BY <1>1, <2>3 DEF SnapshotPrefix
  <2> QED
    BY <2>4 DEF Visible
<1> QED
  BY <1>2, <1>3

(* Under READ COMMITTED the number computed under the lock is free.        *)
LEMMA CommittedNumberIsFree ==
  ASSUME ChainInv, NEW w \in ReadCommitted, pc[w] = "insert"
  PROVE  ~Taken(seq[w])
<1> USE DEF ChainInv
<1>w. w \in Writers
  BY AuditChainAssumption
<1>1. log \in Seq(Row) /\ \A v \in Writers : pending[v] \in Seq(Row)
  BY DEF TypeOK
<1>2. seq[w] = Len(log \o pending[w]) + 1
  BY <1>w DEF CallState, Visible
<1>3. ASSUME NEW i \in 1 .. Len(log), log[i].seq = seq[w] PROVE FALSE
  <2>1. Len(log \o pending[w]) = Len(log) + Len(pending[w])
    BY <1>1, <1>w
  <2>2. log[i].seq = i
    BY DEF Good
  <2> QED
    BY <1>1, <1>w, <1>2, <1>3, <2>1, <2>2
<1>4. ASSUME NEW v \in Writers, NEW i \in 1 .. Len(pending[v]), pending[v][i].seq = seq[w]
      PROVE  FALSE
  <2>1. pending[v] # << >>
    BY <1>1
  <2>2. v = w
    BY <1>w, <2>1 DEF LockHeld, InCall
  <2>3. /\ Len(log) + i \in 1 .. Len(log \o pending[w])
        /\ (log \o pending[w])[Len(log) + i] = pending[w][i]
        /\ Len(log \o pending[w]) = Len(log) + Len(pending[w])
    BY <1>1, <1>w, <2>2
  <2>4. pending[w][i].seq = Len(log) + i
    BY <1>w, <2>3 DEF Good
  <2> QED
    BY <1>1, <1>w, <1>2, <1>4, <2>2, <2>3, <2>4
<1> QED
  BY <1>3, <1>4 DEF Taken

-----------------------------------------------------------------------------
(* The invariant is inductive as long as nobody alters a row.              *)

(* Append alone writes: the log grows by what its writer inserted.         *)
NoFailure == \A w \in ReadCommitted : pc[w] # "failed"

Inv == ChainInv /\ NoFailure /\ altered = {}

LEMMA InitInv == Init => Inv
<1> SUFFICES ASSUME Init PROVE Inv
  OBVIOUS
<1> USE DEF Init
<1>1. TypeOK
  BY InitTypes
<1>2. Good(<< >>)
  BY DEF Good
<1>3. \A w \in Writers : log \o pending[w] = << >>
  <2>1. << >> \in Seq(Row) /\ << >> \o << >> = << >>
    OBVIOUS
  <2> QED
    BY <2>1
<1>4. LockHeld /\ SnapshotPrefix /\ CallState /\ NoFailure
  BY AuditChainAssumption DEF LockHeld, InCall, SnapshotPrefix, CallState, NoFailure
<1> QED
  BY <1>1, <1>2, <1>3, <1>4 DEF Inv, ChainInv

(* Rows that no step touches stay numbered and linked.                     *)
LEMMA GoodKept ==
  ASSUME UNCHANGED <<log, pending>>, Good(log), \A v \in Writers : Good(log \o pending[v])
  PROVE  Good(log)' /\ (\A v \in Writers : Good(log \o pending[v]))'
BY DEF Good, LinkAt

(* A step that leaves the rows and the lock alone, and is not in the       *)
(* middle of reading, disturbs nothing.                                    *)
LEMMA BeginInv ==
  ASSUME Inv, NEW w \in Writers, BeginTransaction(w), TypeOK'
  PROVE  Inv'
<1> USE DEF Inv, ChainInv, BeginTransaction
<1>1. log \in Seq(Row) /\ snapshot \in [Writers -> Seq(Row)] /\ pc \in [Writers -> Phases]
  BY DEF TypeOK
<1>2. \A v \in Writers \ {w} : snapshot'[v] = snapshot[v] /\ pc'[v] = pc[v]
  BY <1>1
<1>3. snapshot'[w] = log /\ pc'[w] = "in"
  BY <1>1
<1>4. LockHeld'
  BY <1>2, <1>3 DEF LockHeld, InCall
<1>5. SnapshotPrefix'
  BY <1>1, <1>2, <1>3 DEF SnapshotPrefix
<1>6. \A v \in Writers \ {w} : Visible(v)' = Visible(v)
  BY <1>2 DEF Visible
<1>7. CallState'
  BY <1>2, <1>3, <1>6 DEF CallState, callVars
<1>8. NoFailure'
  BY <1>2, <1>3, AuditChainAssumption DEF NoFailure
<1>9. UNCHANGED <<log, pending, altered>>
  OBVIOUS
<1>10. Good(log)' /\ (\A v \in Writers : Good(log \o pending[v]))'
  BY GoodKept
<1> QED
  BY <1>4, <1>5, <1>7, <1>8, <1>9, <1>10

LEMMA CallInv ==
  ASSUME Inv, NEW w \in Writers, CallAppend(w) \/ TakeLock(w), TypeOK'
  PROVE  Inv'
<1> USE DEF Inv, ChainInv, CallAppend, TakeLock, callVars
<1>1. pc \in [Writers -> Phases]
  BY DEF TypeOK
<1>2. \A v \in Writers \ {w} : pc'[v] = pc[v]
  BY <1>1
<1>3. pc'[w] \in {"lock", "max"} /\ (pc'[w] = "max" => lock' = w)
  BY <1>1
<1>4. LockHeld'
  BY <1>2, <1>3, AuditChainAssumption DEF LockHeld, InCall
<1>5. SnapshotPrefix'
  BY DEF SnapshotPrefix
<1>6. CallState'
  BY <1>2, <1>3 DEF CallState, Visible
<1>7. NoFailure'
  BY <1>2, <1>3, AuditChainAssumption DEF NoFailure
<1>8. UNCHANGED <<log, pending, altered>>
  OBVIOUS
<1>9. Good(log)' /\ (\A v \in Writers : Good(log \o pending[v]))'
  BY GoodKept
<1> QED
  BY <1>4, <1>5, <1>6, <1>7, <1>8, <1>9

LEMMA ReadMaxInv ==
  ASSUME Inv, NEW w \in Writers, ReadMax(w), TypeOK'
  PROVE  Inv'
<1> USE DEF Inv, ChainInv, ReadMax
<1>1. pc \in [Writers -> Phases] /\ seq \in [Writers -> Nat]
  BY DEF TypeOK
<1>2. \A v \in Writers \ {w} : pc'[v] = pc[v] /\ seq'[v] = seq[v]
  BY <1>1
<1>3. pc'[w] = "last" /\ pc[w] = "max"
  BY <1>1
<1>4. seq'[w] = Len(Visible(w)) + 1
  <2>1. PICK n \in 0 .. MaxRows :
          IsMaxSeq(Visible(w), n) /\ seq' = [seq EXCEPT ![w] = n + 1]
    OBVIOUS
  <2>2. n = Len(Visible(w))
    BY <2>1, VisibleType, VisibleGood, GoodMax, AuditChainAssumption
  <2> QED
    BY <1>1, <2>1, <2>2
<1>5. LockHeld'
  BY <1>2, <1>3 DEF LockHeld, InCall
<1>6. SnapshotPrefix'
  BY DEF SnapshotPrefix
<1>7. CallState'
  BY <1>2, <1>3, <1>4 DEF CallState, Visible
<1>8. NoFailure'
  BY <1>2, <1>3, AuditChainAssumption DEF NoFailure
<1>9. Good(log)' /\ (\A v \in Writers : Good(log \o pending[v]))'
  BY GoodKept
<1> QED
  BY <1>5, <1>6, <1>7, <1>8, <1>9

LEMMA ReadLastInv ==
  ASSUME Inv, NEW w \in Writers, ReadLast(w), TypeOK'
  PROVE  Inv'
<1> USE DEF Inv, ChainInv, ReadLast
<1>1. pc \in [Writers -> Phases] /\ prev \in [Writers -> Digest]
  BY DEF TypeOK
<1>2. \A v \in Writers \ {w} : pc'[v] = pc[v] /\ prev'[v] = prev[v]
  BY <1>1
<1>3. pc'[w] = "insert" /\ pc[w] = "last"
  BY <1>1
<1>4. prev'[w] = LinkAt(Visible(w), Len(Visible(w)) + 1)
  <2>1. PICK h \in {NoHash} \cup {Visible(w)[i].hash : i \in 1 .. Len(Visible(w))} :
          IsLastHash(Visible(w), h) /\ prev' = [prev EXCEPT ![w] = h]
    OBVIOUS
  <2>2. h = LinkAt(Visible(w), Len(Visible(w)) + 1)
    BY <2>1, VisibleType, VisibleGood, GoodLast
  <2> QED
    BY <1>1, <2>1, <2>2
<1>5. LockHeld'
  BY <1>2, <1>3 DEF LockHeld, InCall
<1>6. SnapshotPrefix'
  BY DEF SnapshotPrefix
<1>7. CallState'
  <2>1. \A v \in Writers : Visible(v)' = Visible(v)
    BY DEF Visible
  <2> QED
    BY <1>2, <1>3, <1>4, <2>1 DEF CallState, LinkAt
<1>8. NoFailure'
  BY <1>2, <1>3, AuditChainAssumption DEF NoFailure
<1>9. Good(log)' /\ (\A v \in Writers : Good(log \o pending[v]))'
  BY GoodKept
<1> QED
  BY <1>5, <1>6, <1>7, <1>8, <1>9

LEMMA InsertInv ==
  ASSUME Inv, NEW w \in Writers, InsertRow(w), TypeOK'
  PROVE  Inv'
<1> USE DEF Inv, ChainInv, callVars
<1>1. /\ pc \in [Writers -> Phases] /\ pc[w] = "insert"
      /\ pending \in [Writers -> Seq(Row)] /\ log \in Seq(Row)
      /\ UNCHANGED <<log, snapshot, seq, prev, lock, altered>>
  BY DEF TypeOK, InsertRow
<1>2. CASE ~Taken(seq[w])
  <2>1. PICK p \in Payloads :
          pending' = [pending EXCEPT ![w] = Append(pending[w], NewRow(w, p))]
    BY <1>2 DEF InsertRow
  <2> DEFINE row == NewRow(w, p)
  <2>2. row \in Row
    BY NewRowType
  <2> HIDE DEF row
  <2>3. pc' = [pc EXCEPT ![w] = "in"]
    BY <1>2 DEF InsertRow
  <2>4. pending'[w] = Append(pending[w], row) /\ pc'[w] = "in"
    BY <1>1, <2>1, <2>3 DEF row
  <2>5. \A v \in Writers \ {w} : pending'[v] = pending[v] /\ pc'[v] = pc[v]
    BY <1>1, <2>1, <2>3
  <2>6. lock = w
    BY <1>1 DEF LockHeld, InCall
  <2>7. Good(Append(log \o pending[w], row))
    <3>1. Visible(w) = log \o pending[w] /\ log \o pending[w] \in Seq(Row)
      BY <1>1, <1>2, FreeNumberIsFresh
    <3>2. /\ row.seq = Len(log \o pending[w]) + 1
          /\ row.prev = LinkAt(log \o pending[w], Len(log \o pending[w]) + 1)
          /\ row.hash = HashOf(row.prev, row.seq, row.payload)
      BY <1>1, <3>1 DEF CallState, NewRow, row
    <3> QED
      BY <2>2, <3>1, <3>2, GoodAppend
  <2>8. Good(log \o pending'[w])
    BY <1>1, <2>2, <2>4, <2>7, ConcatAppend
  <2>9. \A v \in Writers : Good(log \o pending'[v])
    BY <2>5, <2>8
  <2>10. LockHeld'
    BY <1>1, <2>4, <2>5, <2>6 DEF LockHeld, InCall
  <2>11. SnapshotPrefix'
    BY <1>1, <1>2, <2>5, FreeNumberIsFresh DEF SnapshotPrefix
  <2>12. CallState'
    <3>1. \A v \in Writers \ {w} : Visible(v)' = Visible(v)
      BY <1>1, <2>5 DEF Visible
    <3> QED
      BY <1>1, <2>4, <2>5, <3>1 DEF CallState, LinkAt
  <2>13. NoFailure'
    BY <2>4, <2>5, AuditChainAssumption DEF NoFailure
  <2>14. (\A v \in Writers : Good(log \o pending[v]))' /\ Good(log)'
    BY <1>1, <2>9 DEF Good, LinkAt
  <2> QED
    BY <1>1, <2>10, <2>11, <2>12, <2>13, <2>14
<1>3. CASE Taken(seq[w])
  <2>1. pc' = [pc EXCEPT ![w] = "failed"] /\ UNCHANGED pending
    BY <1>3 DEF InsertRow
  <2>2. pc'[w] = "failed" /\ \A v \in Writers \ {w} : pc'[v] = pc[v]
    BY <1>1, <2>1
  <2>3. w \notin ReadCommitted
    BY <1>1, <1>3, CommittedNumberIsFree
  <2>4. LockHeld' /\ NoFailure'
    BY <1>1, <2>1, <2>2, <2>3, AuditChainAssumption DEF LockHeld, InCall, NoFailure
  <2>5. SnapshotPrefix'
    BY <1>1, <2>1 DEF SnapshotPrefix
  <2>6. CallState'
    BY <1>1, <2>1, <2>2 DEF CallState, Visible, LinkAt
  <2>7. (\A v \in Writers : Good(log \o pending[v]))' /\ Good(log)'
    BY <1>1, <2>1 DEF Good, LinkAt
  <2> QED
    BY <1>1, <2>4, <2>5, <2>6, <2>7
<1> QED
  BY <1>2, <1>3

(* Ending a transaction: either it inserted nothing, or it held the lock   *)
(* and nobody else was inside a call.                                      *)
LEMMA EndInv ==
  ASSUME Inv, NEW w \in Writers, EndTransaction(w), TypeOK',
         log' = log \o pending[w] \/ log' = log
  PROVE  Inv'
<1> USE DEF Inv, ChainInv, EndTransaction
<1>1. /\ pc \in [Writers -> Phases] /\ seq \in [Writers -> Nat] /\ prev \in [Writers -> Digest]
      /\ pending \in [Writers -> Seq(Row)] /\ log \in Seq(Row)
      /\ snapshot \in [Writers -> Seq(Row)]
  BY DEF TypeOK
<1>2. pc'[w] = "out" /\ pending'[w] = << >> /\ snapshot'[w] = << >>
  BY <1>1
<1>3. \A v \in Writers \ {w} :
        /\ pc'[v] = pc[v] /\ pending'[v] = pending[v] /\ snapshot'[v] = snapshot[v]
        /\ seq'[v] = seq[v] /\ prev'[v] = prev[v]
  BY <1>1
<1>4. log' = log \/ lock = w
  <2>1. CASE pending[w] = << >>
    BY <1>1, <2>1, ConcatEmpty
  <2>2. CASE pending[w] # << >>
    BY <2>2 DEF LockHeld
  <2> QED
    BY <2>1, <2>2
<1>5. \A v \in Writers \ {w} : InCall(v) \/ pending[v] # << >> => log' = log /\ lock = v
  BY <1>4 DEF LockHeld
<1>6. LockHeld'
  BY <1>2, <1>3, <1>5 DEF LockHeld, InCall
<1>7. /\ Len(log') >= Len(log)
      /\ \A i \in 1 .. Len(log) : log'[i] = log[i]
  BY <1>1
<1>8. SnapshotPrefix'
  <2>1. ASSUME NEW v \in Writers \ {w}
        PROVE  /\ Len(snapshot[v]) <= Len(log')
               /\ \A i \in 1 .. Len(snapshot[v]) : snapshot[v][i] = log'[i]
               /\ pending[v] # << >> /\ v \notin ReadCommitted => snapshot[v] = log'
    <3>1. /\ Len(snapshot[v]) <= Len(log)
          /\ \A i \in 1 .. Len(snapshot[v]) : snapshot[v][i] = log[i]
          /\ pending[v] # << >> /\ v \notin ReadCommitted => snapshot[v] = log
      BY DEF SnapshotPrefix
    <3>2. Len(snapshot[v]) \in Nat /\ Len(log) \in Nat /\ Len(log') \in Nat
      BY <1>1
    <3> QED
      BY <1>5, <1>7, <3>1, <3>2
  <2>2. Len(snapshot'[w]) = 0 /\ Len(log') >= 0
    BY <1>1, <1>2
  <2> QED
    BY <1>2, <1>3, <2>1, <2>2 DEF SnapshotPrefix
<1>9. CallState'
  <2>1. \A v \in Writers \ {w} : InCall(v) => Visible(v)' = Visible(v)
    BY <1>3, <1>5 DEF Visible
  <2> QED
    BY <1>2, <1>3, <2>1 DEF CallState, InCall, LinkAt
<1>10. Good(log')
  BY <1>1
<1>11. ASSUME NEW v \in Writers PROVE Good(log' \o pending'[v])
  <2>1. CASE pending'[v] = << >>
    <3>1. log' \in Seq(Row)
      BY DEF TypeOK
    <3> QED
      BY <1>10, <2>1, <3>1, ConcatEmpty
  <2>2. CASE pending'[v] # << >>
    BY <1>2, <1>3, <1>5, <2>2
  <2> QED
    BY <2>1, <2>2
<1>12. (\A v \in Writers : Good(log \o pending[v]))' /\ Good(log)'
  BY <1>10, <1>11 DEF Good, LinkAt
<1>13. NoFailure'
  BY <1>2, <1>3, AuditChainAssumption DEF NoFailure
<1> QED
  BY <1>6, <1>8, <1>9, <1>12, <1>13

LEMMA NextInv ==
  ASSUME ~MayAlter, Inv, [Next]_vars
  PROVE  Inv'
<1>1. ASSUME NEW w \in Writers, Step(w) PROVE Inv'
  <2>1. TypeOK'
    BY <1>1, StepTypes DEF Inv, ChainInv
  <2> QED
    BY <1>1, <2>1, BeginInv, CallInv, ReadMaxInv, ReadLastInv, InsertInv, EndInv
    DEF Step, Commit, Rollback
<1>2. ASSUME NEW i \in 1 .. Len(log), AlterRow(i) PROVE FALSE
  BY <1>2 DEF AlterRow
<1>3. CASE UNCHANGED vars
  BY <1>3 DEF vars, callVars, Inv, ChainInv, TypeOK, LockHeld, InCall, SnapshotPrefix,
     CallState, Visible, NoFailure, Good, LinkAt
<1> QED
  BY <1>1, <1>2, <1>3 DEF Next

LEMMA InvAlways == ~MayAlter /\ Spec => []Inv
<1>1. ASSUME ~MayAlter PROVE Inv /\ [Next]_vars => Inv'
  BY <1>1, NextInv
<1>2. ~MayAlter => [](~MayAlter)
  <2>1. ~MayAlter => (~MayAlter)'
    OBVIOUS
  <2> QED
    BY <2>1, PTL
<1> QED
  BY <1>1, <1>2, InitInv, PTL DEF Spec

-----------------------------------------------------------------------------
(* The results.                                                            *)

(* Rows are numbered from one, without a gap, whatever is rolled back and  *)
(* whichever isolation level each writer uses.                             *)
THEOREM AlwaysNumbered == ~MayAlter /\ Spec => []Numbered
<1>1. Inv => Numbered
  BY DEF Inv, ChainInv, Good, Numbered
<1> QED
  BY <1>1, InvAlways, PTL

(* verify_chain accepts every log that append alone produced.              *)
THEOREM AlwaysIntact == ~MayAlter /\ Spec => []ChainIntact
<1>1. Inv => ChainIntact
  BY DEF Inv, ChainInv, Good, LinkAt, ChainIntact, VerifyChain, RowVerifies
<1> QED
  BY <1>1, InvAlways, PTL

(* No READ COMMITTED append is lost to a duplicate number.                 *)
THEOREM NeverCollides == ~MayAlter /\ Spec => []AppendNeverCollides
<1>1. Inv => AppendNeverCollides
  BY DEF Inv, NoFailure, AppendNeverCollides
<1> QED
  BY <1>1, InvAlways, PTL

-----------------------------------------------------------------------------
(* What verify_chain notices.                                              *)

(* The hash of a row is of what the row says.                              *)
Hashed(row) == row.hash = HashOf(row.prev, row.seq, row.payload)

(* A row altered from what it was still has the text it had.               *)
SameText(a) == chain_payload(log[a.row].payload) = chain_payload(a.was)

(* Every row is hashed as it says, those not committed yet too, until one  *)
(* is altered; that one still is only if its text is the same.             *)
AlterInv ==
  /\ TypeOK
  /\ \A w \in Writers : \A i \in 1 .. Len(pending[w]) : Hashed(pending[w][i])
  /\ altered = {} => \A i \in 1 .. Len(log) : Hashed(log[i])
  /\ \A a \in altered : a.row \in 1 .. Len(log) /\ (Hashed(log[a.row]) => SameText(a))

(* A hash is of one text only.                                             *)
LEMMA HashTells ==
  ASSUME NEW h \in Digest, NEW n \in Nat, NEW p \in Payloads, NEW q \in Payloads, HashOf(h, n, p) = HashOf(h, n, q)
  PROVE  chain_payload(p) = chain_payload(q)
<1>1. \A e : Append(h, e)[Len(h) + 1] = e
  BY DEF Digest
<1>2. <<n, chain_payload(p)>> = <<n, chain_payload(q)>>
  BY <1>1 DEF HashOf
<1> QED
  BY <1>2

(* An append, a commit and a rollback change no row that is there.         *)
LEMMA AlterInvKept ==
  ASSUME AlterInv, [Next]_vars
  PROVE  AlterInv'
<1>t. TypeOK /\ TypeOK'
  <2>1. CASE Next
    BY <2>1, StepTypes, AlterTypes DEF Next, AlterInv
  <2>2. CASE UNCHANGED vars
    BY <2>2 DEF vars, callVars, TypeOK, AlterInv
  <2> QED
    BY <2>1, <2>2
<1>1. ASSUME UNCHANGED <<log, pending, altered>> PROVE AlterInv'
  BY <1>t, <1>1 DEF AlterInv, SameText
<1>2. ASSUME NEW w \in Writers, UNCHANGED <<log, altered>>, pending' = [pending EXCEPT ![w] = << >>] PROVE AlterInv'
  <2>1. \A v \in Writers : pending'[v] = IF v = w THEN << >> ELSE pending[v]
    BY <1>t, <1>2 DEF TypeOK
  <2> QED
    BY <1>t, <1>2, <2>1 DEF AlterInv, SameText
<1>3. ASSUME NEW w \in Writers, InsertRow(w) PROVE AlterInv'
  <2>1. CASE UNCHANGED pending
    BY <1>1, <1>3, <2>1 DEF InsertRow
  <2>2. CASE ~UNCHANGED pending
    <3>1. PICK payload \in Payloads : pending' = [pending EXCEPT ![w] = Append(pending[w], NewRow(w, payload))]
      BY <1>3, <2>2 DEF InsertRow
    <3>2. Hashed(NewRow(w, payload))
      BY DEF Hashed, NewRow
    <3>3. pending[w] \in Seq(Row) /\ NewRow(w, payload) \in Row /\ UNCHANGED <<log, altered>>
      <4>1. seq[w] \in Nat /\ prev[w] \in Digest /\ HashOf(prev[w], seq[w], payload) \in Digest
        BY <1>t, HashType DEF TypeOK
      <4> QED
        BY <1>t, <1>3, <4>1, NewRowType DEF TypeOK, InsertRow
    <3>4. PICK row : row = NewRow(w, payload)
      OBVIOUS
    <3>5. \A v \in Writers : pending'[v] = IF v = w THEN Append(pending[w], row) ELSE pending[v]
      BY <1>t, <3>1, <3>4 DEF TypeOK
    <3>6. \A i \in 1 .. Len(pending'[w]) : Hashed(pending'[w][i])
      <4>1. \A i \in 1 .. Len(pending[w]) : Hashed(pending[w][i])
        BY DEF AlterInv
      <4>2. /\ Len(pending'[w]) = Len(pending[w]) + 1 /\ Len(pending[w]) \in Nat
            /\ pending'[w][Len(pending[w]) + 1] = row
            /\ \A i \in 1 .. Len(pending[w]) : pending'[w][i] = pending[w][i]
        <5>1. PICK rows : rows = pending[w] /\ rows \in Seq(Row) /\ row \in Row
          BY <3>3, <3>4
        <5>2. pending'[w] = Append(rows, row)
          BY <3>5, <5>1
        <5>3. /\ Len(Append(rows, row)) = Len(rows) + 1 /\ Len(rows) \in Nat
              /\ Append(rows, row)[Len(rows) + 1] = row
              /\ \A i \in 1 .. Len(rows) : Append(rows, row)[i] = rows[i]
          BY <5>1
        <5> QED
          BY <5>1, <5>2, <5>3
      <4> QED
        BY <3>2, <3>4, <4>1, <4>2
    <3>7. \A v \in Writers : \A i \in 1 .. Len(pending'[v]) : Hashed(pending'[v][i])
      BY <3>5, <3>6 DEF AlterInv
    <3> QED
      BY <1>t, <3>3, <3>7 DEF AlterInv, SameText
  <2> QED
    BY <2>1, <2>2
<1>4. ASSUME NEW w \in Writers, Commit(w) PROVE AlterInv'
  <2>1. /\ log' = log \o pending[w] /\ altered' = altered
        /\ pending' = [pending EXCEPT ![w] = << >>]
        /\ log \in Seq(Row) /\ pending[w] \in Seq(Row)
    BY <1>t, <1>4 DEF Commit, EndTransaction, TypeOK
  <2>2. \A v \in Writers : pending'[v] = IF v = w THEN << >> ELSE pending[v]
    BY <1>t, <2>1 DEF TypeOK
  <2>3. /\ Len(log) \in Nat /\ Len(pending[w]) \in Nat /\ Len(log') = Len(log) + Len(pending[w])
        /\ \A i \in 1 .. Len(log) : log'[i] = log[i]
        /\ \A i \in 1 .. Len(pending[w]) : log'[Len(log) + i] = pending[w][i]
    BY <2>1
  <2>4. ASSUME altered = {}, NEW i \in 1 .. Len(log') PROVE Hashed(log'[i])
    <3>1. CASE i <= Len(log)
      BY <2>3, <2>4, <3>1 DEF AlterInv
    <3>2. CASE i > Len(log)
      <4>1. i - Len(log) \in 1 .. Len(pending[w]) /\ i = Len(log) + (i - Len(log))
        BY <2>3, <3>2
      <4>2. log'[i] = pending[w][i - Len(log)]
        BY <2>3, <4>1
      <4> QED
        BY <4>1, <4>2 DEF AlterInv
    <3> QED
      BY <2>3, <3>1, <3>2
  <2>5. \A x \in altered : /\ x.row \in 1 .. Len(log')
                            /\ Hashed(log'[x.row]) => chain_payload(log'[x.row].payload) = chain_payload(x.was)
    BY <2>3 DEF AlterInv, SameText
  <2>6. \A v \in Writers : \A i \in 1 .. Len(pending'[v]) : Hashed(pending'[v][i])
    BY <2>2 DEF AlterInv
  <2> QED
    BY <1>t, <2>1, <2>4, <2>5, <2>6 DEF AlterInv, SameText
<1>5. ASSUME NEW i \in 1 .. Len(log), AlterRow(i) PROVE AlterInv'
  <2>1. PICK p \in Payloads : p # log[i].payload /\ log' = [log EXCEPT ![i].payload = p]
    BY <1>5 DEF AlterRow
  <2>2. log \in Seq(Row) /\ log[i] \in Row /\ altered = {} /\ altered' = {[row |-> i, was |-> log[i].payload]} /\ pending' = pending
    BY <1>t, <1>5 DEF AlterRow, TypeOK
  <2>3. /\ i \in 1 .. Len(log') /\ log'[i].payload = p
        /\ log'[i].prev = log[i].prev /\ log'[i].seq = log[i].seq /\ log'[i].hash = log[i].hash
    BY <2>1, <2>2 DEF Row
  <2>4. log[i].hash = HashOf(log[i].prev, log[i].seq, log[i].payload)
    BY <2>2 DEF AlterInv, Hashed
  <2>5. log[i].prev \in Digest /\ log[i].seq \in Nat /\ log[i].payload \in Payloads
    BY <2>2 DEF Row
  <2>6. Hashed(log'[i]) => chain_payload(log'[i].payload) = chain_payload(log[i].payload)
    BY <2>1, <2>3, <2>4, <2>5, HashTells DEF Hashed
  <2>7. altered' # {} /\ \A x \in altered' : x.row = i /\ x.was = log[i].payload
    BY <2>2
  <2>8. (\A x \in altered : x.row \in 1 .. Len(log) /\ (Hashed(log[x.row]) => SameText(x)))'
    BY <2>3, <2>6, <2>7 DEF SameText, Hashed
  <2> QED
    BY <1>t, <2>2, <2>7, <2>8 DEF AlterInv
<1>6. ASSUME NEW w \in Writers, Step(w) PROVE AlterInv'
  <2>1. CASE BeginTransaction(w) \/ CallAppend(w) \/ TakeLock(w) \/ ReadMax(w) \/ ReadLast(w)
    BY <1>1, <2>1 DEF BeginTransaction, CallAppend, TakeLock, ReadMax, ReadLast
  <2>2. CASE Rollback(w)
    BY <1>2, <2>2 DEF Rollback, EndTransaction
  <2> QED
    BY <1>3, <1>4, <1>6, <2>1, <2>2 DEF Step
<1>7. CASE UNCHANGED vars
  BY <1>1, <1>7 DEF vars
<1> QED
  BY <1>5, <1>6, <1>7 DEF Next

(* Where the parts of the text of a row are.                               *)
LEMMA TextParts ==
  ASSUME NEW r \in Payloads
  PROVE  LET c == chain_payload(r)  m == Len(r.action)  n == Len(coalesce(r.target_type))
         IN  /\ Len(c) = m + n + 5 /\ m \in Nat /\ n \in Nat
             /\ c[1] = r.head /\ c[m + 3] = Sep /\ c[m + n + 5] = r.tail
             /\ \A i \in 1 .. m : c[i + 2] = r.action[i]
             /\ \A i \in 1 .. n : c[i + m + 3] = coalesce(r.target_type)[i]
<1> DEFINE V == Words \cup {r.head, r.tail}
<1>0. PICK h, t, x, y, c : /\ h = r.head /\ t = r.tail
                           /\ x = r.action /\ y = coalesce(r.target_type)
                           /\ c = chain_payload(r)
  OBVIOUS
<1>1. /\ h \in V /\ Sep \in V /\ t \in V /\ x \in Seq(V) /\ y \in Seq(V)
      /\ c = <<h, Sep>> \o x \o <<Sep>> \o y \o <<Sep, t>>
  <2>1. r.action \in Seq(Words) /\ coalesce(r.target_type) \in Seq(Words)
    BY AuditChainAssumption DEF coalesce
  <2>2. x \in Seq(V) /\ y \in Seq(V)
    BY <1>0, <2>1
  <2> QED
    BY <1>0, <2>2, AuditChainAssumption DEF chain_payload
<1> HIDE DEF V
<1>2. /\ Len(c) = Len(x) + Len(y) + 5 /\ Len(x) \in Nat /\ Len(y) \in Nat
      /\ c[1] = h /\ c[Len(x) + 3] = Sep /\ c[Len(x) + Len(y) + 5] = t
      /\ \A i \in 1 .. Len(x) : c[i + 2] = x[i]
      /\ \A i \in 1 .. Len(y) : c[i + Len(x) + 3] = y[i]
  <2>2. PICK m, n : m = Len(x) /\ n = Len(y)
    OBVIOUS
  <2>n. m \in Nat /\ n \in Nat
    BY <1>1, <2>2
  <2>3. PICK p, q, e : p = <<h, Sep>> /\ q = <<Sep>> /\ e = <<Sep, t>>
    OBVIOUS
  <2>4. /\ p \in Seq(V) /\ Len(p) = 2 /\ p[1] = h
        /\ q \in Seq(V) /\ Len(q) = 1 /\ q[1] = Sep
        /\ e \in Seq(V) /\ Len(e) = 2 /\ e[2] = t
    BY <1>1, <2>3
  <2>5. PICK u, v, z : u = p \o x /\ v = u \o q /\ z = v \o y /\ c = z \o e
    BY <1>1, <2>3
  <2>6. /\ u \in Seq(V) /\ Len(u) = 2 + m
        /\ \A i \in 1 .. 2 : u[i] = p[i]
        /\ \A i \in 1 .. m : u[2 + i] = x[i]
    <3>1. p \in Seq(V) /\ x \in Seq(V) /\ u = p \o x
      BY <1>1, <2>4, <2>5
    <3>2. u \in Seq(V) /\ Len(u) = Len(p) + Len(x)
      BY <3>1
    <3>3. \A i \in 1 .. Len(p) : u[i] = p[i]
      BY <3>1
    <3>4. \A i \in 1 .. Len(x) : u[Len(p) + i] = x[i]
      BY <3>1
    <3> QED
      BY <2>2, <2>4, <3>2, <3>3, <3>4
  <2>7. /\ v \in Seq(V) /\ Len(v) = (2 + m) + 1
        /\ \A i \in 1 .. 2 + m : v[i] = u[i]
        /\ \A i \in 1 .. 1 : v[(2 + m) + i] = q[i]
    <3>1. u \in Seq(V) /\ q \in Seq(V) /\ v = u \o q
      BY <2>4, <2>5, <2>6
    <3>2. v \in Seq(V) /\ Len(v) = Len(u) + Len(q)
      BY <3>1
    <3>3. \A i \in 1 .. Len(u) : v[i] = u[i]
      BY <3>1
    <3>4. \A i \in 1 .. Len(q) : v[Len(u) + i] = q[i]
      BY <3>1
    <3> QED
      BY <2>4, <2>6, <3>2, <3>3, <3>4
  <2>8. /\ z \in Seq(V) /\ Len(z) = ((2 + m) + 1) + n
        /\ \A i \in 1 .. (2 + m) + 1 : z[i] = v[i]
        /\ \A i \in 1 .. n : z[((2 + m) + 1) + i] = y[i]
    <3>1. v \in Seq(V) /\ y \in Seq(V) /\ z = v \o y
      BY <1>1, <2>5, <2>7
    <3>2. z \in Seq(V) /\ Len(z) = Len(v) + Len(y)
      BY <3>1
    <3>3. \A i \in 1 .. Len(v) : z[i] = v[i]
      BY <3>1
    <3>4. \A i \in 1 .. Len(y) : z[Len(v) + i] = y[i]
      BY <3>1
    <3> QED
      BY <2>2, <2>7, <3>2, <3>3, <3>4
  <2>9. /\ Len(c) = (((2 + m) + 1) + n) + 2
        /\ \A i \in 1 .. ((2 + m) + 1) + n : c[i] = z[i]
        /\ \A i \in 1 .. 2 : c[(((2 + m) + 1) + n) + i] = e[i]
    <3>1. z \in Seq(V) /\ e \in Seq(V) /\ c = z \o e
      BY <2>4, <2>5, <2>8
    <3>2. c \in Seq(V) /\ Len(c) = Len(z) + Len(e)
      BY <3>1
    <3>3. \A i \in 1 .. Len(z) : c[i] = z[i]
      BY <3>1
    <3>4. \A i \in 1 .. Len(e) : c[Len(z) + i] = e[i]
      BY <3>1
    <3> QED
      BY <2>4, <2>8, <3>2, <3>3, <3>4
  <2>10. c[1] = h
    <3>1. 1 \in 1 .. 2 /\ 1 \in 1 .. 2 + m /\ 1 \in 1 .. (2 + m) + 1 /\ 1 \in 1 .. ((2 + m) + 1) + n
      BY <2>n
    <3> QED
      BY <2>4, <2>6, <2>7, <2>8, <2>9, <3>1
  <2>11. c[m + 3] = Sep
    <3>1. /\ 1 \in 1 .. 1 /\ m + 3 = (2 + m) + 1
          /\ m + 3 \in 1 .. (2 + m) + 1 /\ m + 3 \in 1 .. ((2 + m) + 1) + n
      BY <2>n
    <3> QED
      BY <2>4, <2>7, <2>8, <2>9, <3>1
  <2>12. c[m + n + 5] = t /\ Len(c) = m + n + 5
    <3>1. 2 \in 1 .. 2 /\ m + n + 5 = (((2 + m) + 1) + n) + 2
      BY <2>n
    <3> QED
      BY <2>4, <2>9, <3>1, Zenon
  <2>13. ASSUME NEW i \in 1 .. m PROVE c[i + 2] = x[i]
    <3>1. /\ i + 2 = 2 + i /\ i + 2 \in 1 .. 2 + m
          /\ i + 2 \in 1 .. (2 + m) + 1 /\ i + 2 \in 1 .. ((2 + m) + 1) + n
      BY <2>n
    <3> QED
      BY <2>6, <2>7, <2>8, <2>9, <3>1
  <2>14. ASSUME NEW i \in 1 .. n PROVE c[i + m + 3] = y[i]
    <3>1. i + m + 3 = ((2 + m) + 1) + i /\ i + m + 3 \in 1 .. ((2 + m) + 1) + n
      BY <2>n
    <3> QED
      BY <2>8, <2>9, <3>1, Zenon
  <2> QED
    BY <2>2, <2>n, <2>10, <2>11, <2>12, <2>13, <2>14, Zenon
<1> QED
  BY <1>0, <1>2

(* A text whose row is plain is of no other row: its one bar between the   *)
(* two texts is where the other row has its own.                           *)
LEMMA TextTells ==
  ASSUME NEW p \in Payloads, NEW q \in Payloads, Plain(p), chain_payload(q) = chain_payload(p)
  PROVE  SaysTheSame(p, q)
<1>1. \A r \in Payloads : /\ r.action \in Seq(Words) /\ coalesce(r.target_type) \in Seq(Words)
                          /\ r = [head |-> r.head, action |-> r.action,
                                  target_type |-> r.target_type, tail |-> r.tail]
  BY AuditChainAssumption DEF coalesce
<1>2. PICK a, b, x, y, c : /\ a = p.action /\ b = coalesce(p.target_type)
                           /\ x = q.action /\ y = coalesce(q.target_type)
                           /\ c = chain_payload(p) /\ c = chain_payload(q)
  OBVIOUS
<1>3. a \in Seq(Words) /\ b \in Seq(Words) /\ x \in Seq(Words) /\ y \in Seq(Words)
  BY <1>1, <1>2
<1>4. PICK m, n, k, l : m = Len(a) /\ n = Len(b) /\ k = Len(x) /\ l = Len(y)
  OBVIOUS
<1>5. /\ Len(c) = m + n + 5 /\ m \in Nat /\ n \in Nat
      /\ c[1] = p.head /\ c[m + 3] = Sep /\ c[m + n + 5] = p.tail
      /\ \A i \in 1 .. m : c[i + 2] = a[i]
      /\ \A i \in 1 .. n : c[i + m + 3] = b[i]
  BY <1>2, <1>4, TextParts, Zenon
<1>6. /\ Len(c) = k + l + 5 /\ k \in Nat /\ l \in Nat
      /\ c[1] = q.head /\ c[k + 3] = Sep /\ c[k + l + 5] = q.tail
      /\ \A i \in 1 .. k : c[i + 2] = x[i]
      /\ \A i \in 1 .. l : c[i + k + 3] = y[i]
  BY <1>2, <1>4, TextParts, Zenon
<1>7. /\ \A i \in 1 .. m : a[i] # Sep
      /\ \A i \in 1 .. n : b[i] # Sep
  BY <1>2, <1>4 DEF Plain
<1>8. k = m
  <2>1. ASSUME k < m PROVE FALSE
    <3>1. k + 1 \in 1 .. m /\ (k + 1) + 2 = k + 3
      BY <1>5, <1>6, <2>1
    <3>2. c[k + 3] = a[k + 1]
      BY <1>5, <3>1
    <3> QED
      BY <1>6, <1>7, <3>1, <3>2
  <2>2. ASSUME k > m PROVE FALSE
    <3>1. k - m \in 1 .. n /\ (k - m) + m + 3 = k + 3
      BY <1>5, <1>6, <2>2
    <3>2. c[k + 3] = b[k - m]
      BY <1>5, <3>1
    <3> QED
      BY <1>6, <1>7, <3>1, <3>2
  <2> QED
    BY <1>5, <1>6, <2>1, <2>2
<1>9. l = n
  BY <1>5, <1>6, <1>8
<1>10. x = a /\ y = b
  <2>1. \A i \in 1 .. m : x[i] = a[i]
    BY <1>5, <1>6, <1>8
  <2>2. \A i \in 1 .. n : y[i] = b[i]
    BY <1>5, <1>6, <1>8, <1>9
  <2>3. Len(x) = Len(a) /\ Len(y) = Len(b)
    BY <1>4, <1>8, <1>9
  <2>4. (\A i \in 1 .. Len(a) : x[i] = a[i]) /\ (\A i \in 1 .. Len(b) : y[i] = b[i])
    BY <1>4, <2>1, <2>2
  <2> QED
    BY <1>3, <2>3, <2>4
<1>11. q.head = p.head /\ q.tail = p.tail
  BY <1>5, <1>6, <1>8, <1>9
<1>12. [q EXCEPT !.target_type = p.target_type] = p
  BY <1>1, <1>2, <1>10, <1>11
<1> QED
  BY <1>2, <1>10, <1>12 DEF SaysTheSame

(* A row whose texts held no bar, altered to say something else, never     *)
(* verifies again, whatever bars it holds now and whatever is appended     *)
(* after it, under either isolation level.                                 *)
THEOREM PlainAlterationAlwaysNoticed == Spec => []PlainAlterationNoticed
<1>1. Init => AlterInv
  <2> SUFFICES ASSUME Init PROVE AlterInv
    OBVIOUS
  <2>1. Len(log) = 0 /\ altered = {} /\ \A w \in Writers : Len(pending[w]) = 0
    BY DEF Init
  <2> QED
    BY <2>1, InitTypes DEF AlterInv
<1>2. AlterInv => PlainAlterationNoticed
  <2> SUFFICES ASSUME AlterInv, NEW a \in altered, Plain(a.was), VerifyChain
               PROVE  SaysTheSame(a.was, log[a.row].payload)
    BY DEF PlainAlterationNoticed
  <2>1. a.row \in 1 .. Len(log) /\ a.was \in Payloads /\ log[a.row].payload \in Payloads
    <3>1. log \in Seq(Row) /\ altered \subseteq [row : Nat, was : Payloads] /\ a.row \in 1 .. Len(log)
      BY DEF AlterInv, TypeOK
    <3>2. log[a.row] \in Row
      BY <3>1
    <3> QED
      BY <3>1, <3>2 DEF Row
  <2>2. SameText(a)
    BY <2>1 DEF AlterInv, VerifyChain, RowVerifies, Hashed
  <2> QED
    BY <2>1, <2>2, TextTells DEF SameText
<1> QED
  BY <1>1, <1>2, AlterInvKept, PTL DEF Spec

-----------------------------------------------------------------------------
(* What is left of the rows when one of them is altered.                   *)
Altered(rows, i, r) == [rows EXCEPT ![i].payload = r]

LEMMA RowAltered ==
  ASSUME NEW rows \in Seq(Row), NEW i \in 1 .. Len(rows), NEW r \in Payloads
  PROVE  /\ Len(Altered(rows, i, r)) = Len(rows)
         /\ \A j \in 1 .. Len(rows) :
              Altered(rows, i, r)[j] = IF j = i THEN [rows[i] EXCEPT !.payload = r] ELSE rows[j]
<1>1. PICK row : row = [rows[i] EXCEPT !.payload = r]
  OBVIOUS
<1>2. row \in Row
  <2>1. rows[i] \in Row
    OBVIOUS
  <2> QED
    BY <1>1, <2>1 DEF Row
<1>3. Altered(rows, i, r) = [rows EXCEPT ![i] = row]
  BY <1>1 DEF Altered
<1>4. Altered(rows, i, r) \in Seq(Row)
  BY <1>2, <1>3
<1> QED
  BY <1>1, <1>3, <1>4

(* The text of the four parts of a row, and a bar moved between two.       *)
TextOf(head, action, type, tail) == (((<<head, Sep>> \o action) \o <<Sep>>) \o type) \o <<Sep, tail>>
BarLast(y)     == y \o <<Sep>>
BarMoved(x, y) == (x \o <<Sep>>) \o y

(* Joining sequences is associative.                                       *)
LEMMA Associates ==
  ASSUME NEW V, NEW f \in Seq(V), NEW g \in Seq(V), NEW h \in Seq(V)
  PROVE  (f \o g) \o h = f \o (g \o h)
OBVIOUS

(* One text, cut in two ways.                                              *)
LEMMA OneText ==
  ASSUME NEW p \in Payloads, NEW x \in Seq(Words), NEW y \in Seq(Words)
  PROVE  TextOf(p.head, BarMoved(x, y), << >>, p.tail) = TextOf(p.head, x, BarLast(y), p.tail)
<1>1. PICK V, s, e, q : /\ V = Words \cup {p.head, p.tail}
                        /\ s = <<p.head, Sep>> /\ e = <<Sep, p.tail>> /\ q = <<Sep>>
  OBVIOUS
<1>2. s \in Seq(V) /\ e \in Seq(V) /\ q \in Seq(V) /\ x \in Seq(V) /\ y \in Seq(V)
  BY <1>1, AuditChainAssumption
<1>3. PICK a, b, c, d : a = x \o q /\ b = s \o x /\ c = b \o q /\ d = c \o y
  OBVIOUS
<1>4. a \in Seq(V) /\ b \in Seq(V)
  BY <1>2, <1>3
<1>5. c \in Seq(V)
  BY <1>2, <1>3, <1>4
<1>6. d \in Seq(V)
  BY <1>2, <1>3, <1>5
<1>7. d \o q \in Seq(V)
  BY <1>2, <1>6
<1>8. s \o a = c
  <2>1. (s \o x) \o q = s \o (x \o q)
    BY <1>2, Associates
  <2> QED
    BY <1>3, <2>1
<1>9. s \o (a \o y) = d
  <2>1. (s \o a) \o y = s \o (a \o y)
    <3>1. s \in Seq(V) /\ a \in Seq(V) /\ y \in Seq(V)
      BY <1>2, <1>4
    <3> QED
      BY <3>1, Associates
  <2> QED
    BY <1>3, <1>8, <2>1
<1>10. c \o (y \o q) = d \o q
  <2>1. (c \o y) \o q = c \o (y \o q)
    <3>1. c \in Seq(V) /\ y \in Seq(V) /\ q \in Seq(V)
      BY <1>2, <1>5
    <3> QED
      BY <3>1, Associates
  <2> QED
    BY <1>3, <2>1
<1>11. (d \o q) \o << >> = d \o q
  BY <1>7
<1>12. TextOf(p.head, BarMoved(x, y), << >>, p.tail) = ((s \o (a \o y)) \o q) \o << >> \o e
  BY <1>1, <1>3, Zenon DEF TextOf, BarMoved
<1>13. TextOf(p.head, x, BarLast(y), p.tail) = (c \o (y \o q)) \o e
  BY <1>1, <1>3, Zenon DEF TextOf, BarLast
<1> QED
  BY <1>9, <1>10, <1>11, <1>12, <1>13

(* What 0014:52 says of verify_chain, false if even one row was tampered   *)
(* with, does not hold of texts with bars: a row of which the bar at the   *)
(* end of target_type is moved into action, in front of the rest of        *)
(* target_type, says something else, and verify_chain answers as before.   *)
THEOREM MovedBarGoesUnnoticed ==
  ASSUME TypeOK, NEW i \in 1 .. Len(log), NEW p \in Payloads, NEW r \in Payloads,
         NEW x \in Seq(Words), NEW y \in Seq(Words),
         p.action = x, p.target_type = BarLast(y),
         r = [p EXCEPT !.action = BarMoved(x, y), !.target_type = << >>],
         log[i].payload = p, log' = Altered(log, i, r)
  PROVE  /\ ~SaysTheSame(p, r)
         /\ VerifyChain' <=> VerifyChain
<1>1. /\ p = [head |-> p.head, action |-> x, target_type |-> BarLast(y), tail |-> p.tail]
      /\ r = [head |-> p.head, action |-> BarMoved(x, y), target_type |-> << >>, tail |-> p.tail]
  <2>1. p = [head |-> p.head, action |-> p.action, target_type |-> p.target_type, tail |-> p.tail]
    BY AuditChainAssumption
  <2> QED
    BY <2>1
<1>2. BarMoved(x, y) # x
  <2>1. Len(BarMoved(x, y)) = Len(x) + 1 + Len(y) /\ Len(x) \in Nat /\ Len(y) \in Nat
    BY AuditChainAssumption DEF BarMoved
  <2> QED
    BY <2>1
<1>3. ~SaysTheSame(p, r)
  BY <1>1, <1>2 DEF SaysTheSame
<1>4. chain_payload(r) = chain_payload(p)
  <2>1. coalesce(p.target_type) = BarLast(y) /\ coalesce(r.target_type) = << >>
    <3>1. BarLast(y) \in Seq(Words) /\ << >> \in Seq(Words)
      BY AuditChainAssumption DEF BarLast
    <3> QED
      BY <1>1, <3>1, AuditChainAssumption DEF coalesce
  <2>2. chain_payload(p) = TextOf(p.head, x, BarLast(y), p.tail)
    BY <1>1, <2>1, Zenon DEF chain_payload, TextOf
  <2>3. chain_payload(r) = TextOf(p.head, BarMoved(x, y), << >>, p.tail)
    <3>1. r.head = p.head /\ r.action = BarMoved(x, y) /\ r.tail = p.tail
      BY <1>1
    <3> QED
      BY <2>1, <3>1, Zenon DEF chain_payload, TextOf
  <2> QED
    BY <2>2, <2>3, OneText
<1>5. /\ Len(log') = Len(log) /\ log \in Seq(Row)
      /\ \A j \in 1 .. Len(log) : /\ log'[j].seq = log[j].seq
                                  /\ log'[j].prev = log[j].prev /\ log'[j].hash = log[j].hash
                                  /\ chain_payload(log'[j].payload) = chain_payload(log[j].payload)
  <2>1. log \in Seq(Row) /\ \A j \in 1 .. Len(log) : log[j] \in Row
    BY DEF TypeOK
  <2>2. PICK row : row = [log[i] EXCEPT !.payload = r]
    OBVIOUS
  <2>3. row.seq = log[i].seq /\ row.prev = log[i].prev /\ row.hash = log[i].hash /\ row.payload = r
    BY <2>1, <2>2 DEF Row
  <2>4. Len(log') = Len(log) /\ \A j \in 1 .. Len(log) : log'[j] = IF j = i THEN [log[i] EXCEPT !.payload = r] ELSE log[j]
    BY <2>1, RowAltered
  <2>5. Len(log') = Len(log) /\ \A j \in 1 .. Len(log) : log'[j] = IF j = i THEN row ELSE log[j]
    BY <2>2, <2>4, Zenon
  <2> QED
    BY <1>4, <2>1, <2>3, <2>5
<1>6. ASSUME NEW j \in 1 .. Len(log) PROVE RowVerifies(j)' <=> RowVerifies(j)
  <2>1. HashOf(log'[j].prev, log'[j].seq, log'[j].payload) = HashOf(log[j].prev, log[j].seq, log[j].payload)
    BY <1>5 DEF HashOf
  <2>2. j # 1 => log'[j - 1].hash = log[j - 1].hash
    BY <1>5
  <2> QED
    BY <1>5, <2>1, <2>2 DEF RowVerifies
<1> QED
  BY <1>3, <1>5, <1>6 DEF VerifyChain

=============================================================================
