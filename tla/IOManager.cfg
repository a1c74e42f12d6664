SPECIFICATION Spec
CONSTANTS
  s1 = s1
  s2 = s2
  s3 = s3
  Sockets <- ThreeSockets
  IOStates <- Polled
  Reuses = FALSE
  EndIgnored <- NeverRead
  Moves <- InHandlers
  MaxFd = 3
  MaxReady = 2
INVARIANTS
  RegisteredAreAlive
PROPERTIES
  DeliverySpec
  Served
