\* Ints are 9 bits wide, so that limits whose burst wraps around are among the
\* values.  The SDK's handlers: the root and three derived from any before.
CONSTANTS
  Environments <- MCEnvironments
  Flags = {"", "http", "stdio", "grpc"}
  Number <- MCNumber
  Duration <- MCDuration
  URL <- MCURL
  MaxInt = 255
  Attrs <- MCAttrs
  Groups = {"req"}
  MaxHandlers = 4
SPECIFICATION Spec
INVARIANTS StdioKeepsStdout Precedence LimiterHasBurst ProbesAnswered
  BannerIdentifiesUpstream FieldsAsDerived
