SPECIFICATION ClientsSpec
CONSTANTS
  Wallets = {w1, w2}
  Software = {s1, s2}
  Platform = platform
  Ops = {o1, o2}
  NoCredential = none
  MaxSignatures = 2
  Sessions = {p1, p2}
  NoSession = none
  MaxRequests = 5
  Signings = {f1, f2}
  NoSigning = none
  MaxSent = 6
  MaxUnderWay = 2
  human = human
  agent = agent
  helper = helper
  Dids <- Descent
  NoDid = none
  Controller <- AgentsOfHuman
  Recipients = {r1}
  MaxTokens = 2
  MaxProofs = 2
  MaxApprovals = 1
  MaxTransfers = 2
  MaxCalls = 1
  MaxMethodCalls = 3
INVARIANTS
  ClientsTypeOK
  ToldIsTrue
  AbortedNeverSigns
  KeysAreTheWallets
  
CHECK_DEADLOCK FALSE
