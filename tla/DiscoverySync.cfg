SPECIFICATION FairSpec
CONSTANTS
  Discoveries = {d1, d2}
  Wallets = {tenzro, tenzro2, other}
  Wanted = {tenzro, tenzro2}
  SyncWallets = {tenzro}
PROPERTIES
  EveryDiscoverySettles
