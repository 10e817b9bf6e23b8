SPECIFICATION Spec
CONSTANTS
  Name <- MCName
  MaxKeys = 3
  MaxFaults = 1
  SnapshotterLimit = 1
  QueriesLimit = 1
  SerferLimit = 1
  SshKey = "admin"
  AdminCert = "admin"
  Bootstrap = FALSE
INVARIANTS
  NobodyIsStuck
  KeysFitCertificates
  AdminIsAdmitted
  ClientsAreServedByMembers
PROPERTIES
  NobodyWaitsForGood
