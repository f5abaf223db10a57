------------------------------- MODULE NetApis --------------------------------
(***************************************************************************)
(* The network and those who run it: the clients of governance.ts,         *)
(* staking.ts, validator.ts, babylon.ts, adaptive-burn.ts,                 *)
(* circuit-breaker.ts, quota.ts, api-key.ts, canton.ts, canton-agent.ts,   *)
(* events.ts, tee.ts, zk.ts, crypto.ts, caip.ts, attested-clock.ts, and    *)
(* the chain methods of client.ts.                                         *)
(***************************************************************************)
EXTENDS Methods

Governance ==
  Make({"createProposal"}, {}, "proposal")
  \cup List({"listProposals"}, {}, "proposal")
  \cup Use({"getProposal", "vote"}, {"proposal"})
  \cup Use({"getVotingPower", "delegateVotingPower"}, {})

\* A stake is an amount: it shows in the balance, an amount taken back in the
\* unbonding queue.
Staking ==
  Make({"stake"}, {}, "stake") \cup List({"getStakingBalance"}, {}, "stake")
  \cup Make({"unstake"}, {}, "unbonding") \cup List({"getUnbonding"}, {}, "unbonding")
  \cup Use({"getRewards"}, {})

\* A rotation is recorded by the node that receives it only; it is signed with
\* the current key and names the new one.
Validator ==
  Use({"getState", "list", "listActive"}, {}) \cup Named({"rotateKeys"}, {}, "rotation")

Babylon ==
  Named({"registerFinalityProvider"}, {}, "finalityProvider")
  \cup List({"listFinalityProviders"}, {}, "finalityProvider")
  \cup Use({"getFinalityProvider", "totalStakeForProvider", "submitFinalitySignature",
            "listDelegations"}, {"finalityProvider"})

AdaptiveBurn ==
  Use({"getBurnRateConfig", "getEconomicPolicy", "getSupplyMetrics",
       "getBurnRateRecommendation", "listAdaptiveBurnProposals"}, {})

CircuitBreaker ==
  Use({"getProviderHealth", "configureBreaker", "resetBreaker", "listCircuitBreakers"}, {})

Quota ==
  Use({"getBurnQuota", "getMempoolStats", "getMempoolLane", "getAccountContention",
       "getDaBackends", "verifyDaPointer"}, {})

\* A key is shown once, in the answer to create; a lost one is found in the
\* list by its label and can be revoked, not used.
ApiKeyUnlisted ==
  Make({"create"}, {}, "apiKey") \cup End({"revoke", "revokeMine"}, {}, "apiKey")

ApiKey == ApiKeyUnlisted \cup List({"list", "listMine"}, {}, "apiKey")

\* A submitted command is a ledger update; its id is in the answer.
CantonCommands ==
  Use({"listDomains", "listContracts"}, {})
  \cup Make({"submitCommand", "submitWithMandate"}, {}, "update")
  \cup Make({"allocateParty"}, {}, "party")
  \cup Named({"grantUserRights"}, {"party"}, "right")
  \cup List({"listUserRights"}, {}, "right")

\* A DAR's package is named by the hash of what is uploaded.
CantonLedger ==
  Named({"uploadDar"}, {}, "package")
  \cup List({"listParties"}, {}, "party") \cup List({"listPackages"}, {}, "package")
  \cup Use({"getTransaction"}, {"update"})
  \cup Use({"health", "version", "cantonCoinBalance", "feeSchedule",
            "connectedSynchronizers"}, {})

CantonTenants ==
  Use({"getMyUser", "getMyAnalytics", "listApiKeyAnalytics", "aggregateAnalytics"}, {})
  \cup Use({"watchParty"}, {"party"})
  \cup Named({"createIdp"}, {}, "idp")
  \cup List({"listIdps"}, {}, "idp") \cup End({"deleteIdp"}, {}, "idp")
  \cup Named({"mirrorWorkflowToCanton", "mirrorObligationToCanton"}, {}, "mirror")

Canton == CantonCommands \cup CantonLedger \cup CantonTenants

\* The same command as submitWithMandate of canton.ts.
CantonAgent ==
  Make({"submitWithMandate"}, {}, "update")
  \cup Use({"watchParty", "aggregateAnalytics"}, {})

\* A subscription is ended by the id in its answer; webhooks are listed.
Events ==
  Use({"getEvents"}, {})
  \cup Make({"subscribeEvents"}, {}, "subscription")
  \cup End({"unsubscribeEvents"}, {}, "subscription")
  \cup Make({"registerWebhook", "registerWebhookWithAddresses"}, {}, "webhook")
  \cup List({"listWebhooks"}, {}, "webhook")
  \cup End({"deleteWebhook"}, {}, "webhook")

Tee ==
  Use({"detectTee", "getAttestation", "verifyAttestation", "sealData", "unsealData",
       "listTeeProviders"}, {})

Zk == Use({"createProof", "verifyProof", "generateProvingKey", "listCircuits"}, {})

\* What the node computes of what it is sent.
Crypto ==
  Use({"signMessage", "verifySignature", "encrypt", "decrypt", "deriveKey",
       "generateKeypair", "hashSha256", "hashKeccak256", "x25519KeyExchange"}, {})

Caip == Use({"caip2", "caip10", "caip19"}, {})

AttestedClock == Use({"now"}, {})

\* The chain methods of TenzroClient without sendTransaction, which TxSubmit
\* models.
ChainReads ==
  Use({"getBlockNumber", "getBlock", "getLatestBlock", "getBlockRange", "getTransaction",
       "getBalance", "getNonce", "getChainId", "getGasPrice", "getMaxPriorityFeePerGas",
       "getFeeHistory"}, {})

\* The faucet's answer names its transaction.
NodeReads ==
  Use({"nodeInfo", "getStatus", "totalSupply", "peerCount", "getNetworkStats", "isSyncing",
       "isConnected", "health", "getFinalizedBlock", "exportConfig",
       "getTransactionHistory", "listAccounts"}, {})
  \cup Make({"requestFaucet"}, {}, "grant")

Chain == ChainReads \cup NodeReads
=============================================================================
