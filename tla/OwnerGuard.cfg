SPECIFICATION Spec
CONSTANTS
  u1 = u1
  u2 = u2
  u3 = u3
  r1 = r1
  r2 = r2
  Users <- ThreeUsers
  Requests <- TwoRequests
  Roles <- ThreeRoles
  WebUser = u1
  Ops <- AllOps
CHECK_DEADLOCK FALSE
SYMMETRY RequestSymmetry
INVARIANTS
  OwnerRemains
  AuditorStandsAlone
PROPERTIES
  GrantsToActiveOnly
