SPECIFICATION Spec
CONSTANTS
  a = a
  b = b
  x = x
  y = y
  p = p
  q = q
  ours = ours
  theirs = theirs
  Node = {a, b}
  Address = {x, y}
  Port = {p, q}
  Tags <- MCTags
  Cluster = ours
  Home <- Homes
  QueueLimit = 3
  ReconcileLimit = 1
INVARIANTS
  MembersAreListed
  ListedAreMembers
  ClustersStayApart
PROPERTIES
  EventsAreHandled
CHECK_DEADLOCK FALSE
