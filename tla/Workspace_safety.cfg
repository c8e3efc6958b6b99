SPECIFICATION WorkspaceSpec
CONSTANTS
  u1 = u1
  u2 = u2
  s1 = s1
  r1 = r1
  r2 = r2
  r3 = r3
  None = None
  User = {u1, u2, s1}
  Superuser = {s1}
  Creator = u1
  Request = {r1, r2, r3}
  Asked = {"OWNER", "MAINTAINER"}
  MaxDeaths = 1
  Login = {l1, l2, l3}
  ApiKey = {k1}
  Access = {a1}
INVARIANTS
  WorkspaceTypeOK
  OwnerLeftUnlessRaced
  UserHasAccount
  DeadTokensStayDead
PROPERTY
  OwnersMakeOwners
CHECK_DEADLOCK FALSE
SYMMETRY Symmetry
