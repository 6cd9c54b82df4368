---------------------------- MODULE MCAuditChain -----------------------------
(***************************************************************************)
(* A small instance of the audit chain: three writers, the first two of    *)
(* them under READ COMMITTED and the third under REPEATABLE READ.          *)
(***************************************************************************)
EXTENDS AuditChain, TLC

CONSTANTS w1, w2, w3, a, b, bar, h, t

ThreeWriters == {w1, w2, w3}
FirstTwo     == {w1, w2}

ThreeWords == {a, b, bar}

Says(action, target_type) ==
  [head |-> h, action |-> action, target_type |-> target_type, tail |-> t]

(* Two plain rows of the same words, one without a target type, and a row  *)
(* whose text with its bar is the first one's with a separator more.       *)
ThreePayloads ==
  {Says(<<a>>, <<b>>), Says(<<a, b>>, NULL), Says(<<a, bar, b>>, << >>)}

Symmetric == Permutations(FirstTwo)
=============================================================================
