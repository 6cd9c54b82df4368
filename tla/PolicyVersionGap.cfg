SPECIFICATION Spec
CONSTANTS
  p1 = p1 p2 = p2 a1 = a1 a2 = a2 r1 = r1 t1 = t1 t2 = t2 t3 = t3
  Requests = {t1, t2, t3}
  People = {p1, p2}
  Chiefs = {p2}
  Roles = {"ciso", "risk_owner", "employee", "auditor"}
  Operators = {p2}
  Machines = {"m1"}
  Managers = {p2}
  None = None
  Unread = Unread
  First = First
  Before = Before
  Assets = {a1, a2}
  Risks = {r1}
  Titles = {1, 2}
  Bodies = {"x", "y"}
  MaxVersion = 3
  Texts = {"x", "y"}
  Minutes = {"m", "n"}
  Names = {1, 2}
  Wordings = {1, 2}
  Measures = {"iso", "listing"}
  IsoMeasures = {"iso"}
  Vendors = {"v"}
  LIST_LIMIT = 2
  MAX_DEPTH = 1
  MAX_KEYS = 2
  Columns <- MCColumns
  Completions <- MCCompletions
  Definitions <- MCDefinitions
  Plans <- PolicyPlans
SYMMETRY Symmetric
INVARIANT VersionsHaveNoGap
