SPECIFICATION FairSpec
CONSTANTS
  Calls = {c1, c2}
  Kinds = {"call", "injected", "get", "postNoContent"}
  MAX_SAFE_INTEGER = 2
INVARIANTS
  TypeOK
  TimerIffPending
  ResultMeansExecuted
PROPERTIES
  EveryFetchSettles
  ImplementsPromise
