SPECIFICATION Spec
CONSTANTS
  Namespace = {parent, child}
  User = {alice, bob}
  Role = {dev}
  Permission = {create, empty}
  Empty = empty
  MaxCopies = 2
PROPERTIES
  ImplementsAccessControl
  CallsDoAsPromised
