SPECIFICATION Safe
CONSTANTS
  s1 = s1
  s2 = s2
  s3 = s3
  Sockets <- ThreeSockets
  IOStates <- Polled
  Reuses = TRUE
  EndIgnored <- NeverRead
  Moves <- Never
  MaxFd = 4
  MaxReady = 3
INVARIANT
  EventsAreReported
