SPECIFICATION Spec
CONSTANTS
  RawResponses <- MCRawResponses
  Limits <- MCLimits
INVARIANTS
  
  OutputFaithful
