SPECIFICATION FairSpec
CONSTANTS
  Ops = {o1}
  Kinds = {"transfer", "selfCustody", "settlement"}
  PinChoices <- AllPins
  NodeChain = 7
  MaxAttempts = 3
  MaxOthers = 1
INVARIANTS
  PinnedPaysOnce
  PaymentsAccounted
PROPERTIES
  EveryOperationEnds
