----------------------------- MODULE MCOwnerGuard -----------------------------
(***************************************************************************)
(* Small instances of the member requests.                                 *)
(***************************************************************************)
EXTENDS OwnerGuard, TLC

CONSTANTS u1, u2, u3, r1, r2

TwoUsers    == {u1, u2}
ThreeUsers  == {u1, u2, u3}
TwoRequests == {r1, r2}

ThreeRoles == {"ciso", "secretariat", "auditor"}

AllOps  == OpKinds
RoleOps == {"saveMemberRole"}

RequestSymmetry == Permutations(Requests)

=============================================================================
