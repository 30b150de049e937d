SPECIFICATION PathSpec
CONSTANTS
  p1 = p1
  p2 = p2
  p3 = p3
  c1 = c1
  c2 = c2
  Procs <- MCProcs
  Chans <- MCChans
  NoChan = NoChan
  Size = 1
  Callers <- MCCallers
  PerSec = 1
  Second = 1
  MaxTime = 2
  MaxGrants = 3
  Ms = 2
  MaxInt = 3
  maxHeaderDepth = 1
  maxMessageSize = 2
  authUser = "app"
  stampUserID = TRUE
  defaultMin = 1
  defaultMax = 3
  Messages <- MCMessages
  Blank = Blank
  Policies <- MCPolicies
  MaxAttempts = 1
  Watched <- MCWatched
  Unsteady <- MCUnsteady
  CtxEnds <- MCCtxEnds
INVARIANTS  AdmissionSound RateBounded WireFaithful
   
CHECK_DEADLOCK FALSE
