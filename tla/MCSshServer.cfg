SPECIFICATION Spec
CONSTANTS
  c1 = c1
  h1 = h1
  h2 = h2
  Conn = {c1}
  Channel = {h1, h2}
  Owner <- AllOnOne
  MaxMessages <- Two
INVARIANTS
  EchoesAreInOrder
  StopKillsEverything
  NobodyIsStuck
PROPERTIES
  ConnectionsAreServed
  StopReturnsOnceClientsLeave
CHECK_DEADLOCK FALSE
