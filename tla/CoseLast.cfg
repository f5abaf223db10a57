SPECIFICATION Spec
CONSTANTS
  Threw = threw
  Null = null
  Pending = pending
  Base = 16
  Tag <- TagDef
  W64 = 1
  W128 = 2
  KeyWidth = 1
  Discriminator <- DiscriminatorDef
  DiscWidth = 1
  PubkeyWidth = 1
  AddressWidth = 2
  WordWidth = 1
  CoordWidth = 2
  Uuids = {"u1", "u2"}
  Alphabet = 10
  RefWidth = 1
  HexBase = 4
  AfterKey <- Nothing
  Asked <- AskedDef
  Received <- ReceivedDef
  Signatures <- SignaturesDef
  Objects <- ObjectsDef
  Contents <- ContentsDef
  Insertions <- InsertionsDef
  DidTexts <- DidTextsDef
  References <- ReferencesDef
  Keys <- KeysDef
INVARIANTS
  KeyAlwaysFound
CHECK_DEADLOCK FALSE
