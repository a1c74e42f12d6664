SPECIFICATION Spec
CONSTANTS
  a1 = a1
  a2 = a2
  a3 = a3
  r1 = r1
  r2 = r2
  Tickets = {1, 2, 3}
  Addrs <- ThreeAddrs
  Receivers <- TwoReceivers
  Deltas <- SoonOrLater
  MaxTime = 2
  Callbacks = "first"
  CallbackOps <- AllOps
  Freed <- Extremes
  MaxUInt = 255
INVARIANTS
  NoUndefined
  NoneLostNorLeaked
  DroppedStaysDropped
  SleepIsRight
PROPERTIES
  FiredInOrder
  AllDueAreFired
  EveryTimeoutEnds
