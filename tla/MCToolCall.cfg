\* Two calls at once, at every limit.  No symmetry: liveness is checked too.
CONSTANTS
  Calls = {k1, k2}
  RequestIds = {i1, i2}
  Inputs <- MCInputs
  Origins <- MCOrigins
  Responses <- MCResponses
  Transport = "http"
  MaxQueryLength = 3
  MaxPageNumber = 2
  MaxResponseBodySize = 2
SPECIFICATION FairSpec
INVARIANTS TypeOK UpstreamRequestBounded  OkMeansWholeAnswer
  UpstreamErrorsHidden UpstreamCounted CounterMatchesLog
PROPERTY EveryCallAnswered ImplementsPromise
