SPECIFICATION Safe
CONSTANTS
  MaxOffered = 3
  MaxChunk = 2
  SockBuf = 1
  MaxIn = 1
  Origins <- OnlyConnect
  InheritsNonblock = TRUE
  Signals = FALSE
  Pressure = FALSE
PROPERTY
  ClosesOnce
