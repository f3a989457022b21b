CONSTANTS
  Environments <- MCEnvironments
  Flags = {"", "http", "stdio", "grpc"}
  Number <- MCNumber
  Duration <- MCDuration
  URL <- MCURL
  MaxInt = 255
  Attrs <- MCAttrs
  Groups = {"req"}
  MaxHandlers = 4
SPECIFICATION Spec
INVARIANT PprofInBothModes
