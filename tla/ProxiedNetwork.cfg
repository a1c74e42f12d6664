SPECIFICATION Spec
CONSTANTS
  ConnLen = 5
  HasUser = TRUE
  MaxData = 2
  MaxJunk = 3
  Sets = {zero, every}
  Every = every
  Initial = zero
  MaxProxies = 3
INVARIANTS
  EstablishedWhenGranted
  DataIsWhole
  CursorIsValid
PROPERTIES
  NegotiationEnds
  ProxiesTakeTurns
