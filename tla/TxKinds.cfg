SPECIFICATION Spec
CONSTANTS
  Ops = {o1, o2}
  Kinds = {"transfer", "selfCustody", "settlement"}
  PinChoices <- AllPins
  NodeChain = 7
  MaxAttempts = 1
  MaxOthers = 1
SYMMETRY Symmetry
INVARIANTS
  TypeOK
  CarriesObserved
  PaysRecipientOfCall
