SPECIFICATION LoginSpec
CONSTANTS
  Namespace = {acme}
  User = {alice, bob}
  Role = {dev, empty}
  Key = {k1, k2}
  Password = {pw}
  NoPassword = NoPassword
  Empty = empty
  MaxCopies = 2
  Attempt = {a1}
INVARIANTS
  AdmittedByCurrentKey
PROPERTIES
  RoleCallsDoAsPromised
