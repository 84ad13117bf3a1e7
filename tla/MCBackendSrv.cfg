SPECIFICATION Spec
CONSTANTS
  Requests <- MCRequests
  DataRequests <- MCDataRequests
  RequestId <- MCRequestId
  NoId = "none"
  Retriable = {"a"}
  Groups <- MCGroups
  MaxParallel = 2
INVARIANT DataLimit
INVARIANT NoIdlePlace
INVARIANT PlacesAreHeld
PROPERTY EverySettles
