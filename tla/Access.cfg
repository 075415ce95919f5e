SPECIFICATION Spec
CONSTANTS
  t1 = t1
  t2 = t2
  p1 = p1
  p2 = p2
  p3 = p3
  x = x
  y = y
  i1 = i1
  r1 = r1
  r2 = r2
  r3 = r3
  r4 = r4
  None = None
  Tenants = {t1, t2}
  People = {p1, p2, p3, x, y}
  OperationIds = {i1}
  RandomIds = {r1, r2, r3, r4}
  InvitedRoles = {"MEMBER"}
  Clients = {c1, c2}
  Operators = {o1, o2}
  Worlds <- MCWorlds
  Asks <- MCAsks
  Orders <- MCOrders
  MaxRequests = 2
  MaxCommands = 2
SYMMETRY Symmetry
INVARIANTS OneMembershipPerIdentity TenantKeepsAnOwner AccessEndsWithTenant
PROPERTIES AnswersAreCurrent
CHECK_DEADLOCK FALSE
