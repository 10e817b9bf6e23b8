SPECIFICATION AuditSpec
CONSTANTS
  acme = acme
  acme_dev = acme_dev
  Namespace <- MCNamespace
  Root = {acme}
  Parent <- MCParent
  User = {bob}
  Role = {dev, ops}
  Permission = {create}
  CreateNamespace = create
  Key = {}
  Password = {}
  NoPassword = NoPassword
  NoNamespace = NoNamespace
  Empty = empty
  MaxCopies = 1
  Admin = admin
  NoUser = NoUser
  SessionUsers = {admin, bob, NoUser}
  Session = {s1}
CONSTRAINT ScanFocus
INVARIANTS
  DecidedByTheStores
