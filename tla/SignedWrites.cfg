SPECIFICATION Spec
CONSTANTS
  Ops = {w1, w2}
  Kinds = {"settle", "register", "credential", "status"}
  Refs = {r1}
  Values <- Given
  Acceptable <- LengthsRight
  Encodable <- InRange
  Rounded <- AsNumbers
  None = none
  MaxCalls = 2
  MaxEdits = 2
INVARIANTS
  TypeOK
  AppliedWasSigned
  ProofNeedsTwoEdits
  InvalidNeverApplied
  AtMostOncePerSignature
PROPERTIES
  ImplementsLedger
SYMMETRY OpsAlike
