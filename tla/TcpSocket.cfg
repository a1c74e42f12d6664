SPECIFICATION Spec
CONSTANTS
  MaxOffered = 4
  MaxChunk = 3
  SockBuf = 2
  MaxIn = 2
  Origins <- BothOrigins
  InheritsNonblock = FALSE
  Signals = TRUE
  Pressure = TRUE
INVARIANTS
  TypeOK
  PollMaskMatchesState
  StreamInOrder
  QuietEndLosesNothing
  EndpointProtocol
  WriteAssertion
PROPERTIES
  LossNeedsCause
  AbstractSafe
  PeerGoneIsNoticed
  BufferedIsWritten
  AbstractLive
