SPECIFICATION Safe
CONSTANTS
  a1 = a1
  a2 = a2
  a3 = a3
  r1 = r1
  r2 = r2
  Tickets = {1, 2, 3}
  Addrs <- ThreeAddrs
  Receivers <- OneReceiver
  Deltas <- SoonOrLater
  MaxTime = 3
  Callbacks = "any"
  CallbackOps <- OnlySchedule
  Freed <- AnyContents
  MaxUInt = 255
CHECK_DEADLOCK FALSE
PROPERTY
  AllDueAreFired
