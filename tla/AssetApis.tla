------------------------------ MODULE AssetApis -------------------------------
(***************************************************************************)
(* Tokens, collections, contracts, bridges and the rules of assets: the    *)
(* clients of token.ts, nft.ts, contract.ts, bridge.ts, ccip.ts, cct.ts,   *)
(* debridge.ts, wormhole.ts, wormhole-ntt.ts, hyperlane.ts, axelar.ts,     *)
(* erc8004.ts, erc7683.ts, erc7802.ts, stable-asset.ts, secure-mint.ts,    *)
(* urwa.ts, compliance.ts, permit2.ts and eip7702.ts.                      *)
(***************************************************************************)
EXTENDS Methods

\* A treasury withdrawal is named by the approver that is first to approve it.
Token ==
  Make({"createToken"}, {}, "token")
  \cup List({"listTokens"}, {}, "token")
  \cup Use({"getTokenInfo", "getTokenBalance"}, {"token"})
  \cup Make({"wrapTnzo", "crossVmTransfer"}, {}, "transfer")
  \cup Use({"treasuryAddWithdrawer", "treasuryRemoveWithdrawer",
            "treasurySetWithdrawalThreshold"}, {})
  \cup Named({"treasuryApproveWithdrawal"}, {}, "withdrawal")
  \cup Use({"treasuryGetPendingWithdrawal"}, {"withdrawal"})
  \cup End({"treasuryExecuteWithdrawal"}, {}, "withdrawal")

\* A collection gets an id, an item of it has the token id of its call.
Nft ==
  Make({"createCollection"}, {}, "collection")
  \cup List({"listCollections"}, {}, "collection")
  \cup Named({"mintNft"}, {"collection"}, "nft")
  \cup Use({"transferNft", "getNftInfo"}, {"nft"})
  \cup Named({"registerPointer"}, {"collection"}, "pointer")

Contract ==
  Make({"deploy"}, {}, "contract")
  \cup Use({"callContract"}, {"contract"}) \cup Use({"encodeFunction", "decodeResult"}, {})

\* What crosses a bridge is followed by the id that its own answer carries.
Bridge ==
  Make({"bridgeTokens"}, {}, "bridgeTransfer")
  \cup Use({"getTransferStatus"}, {"bridgeTransfer"})
  \cup Use({"getRoutes", "listAdapters", "estimateFee"}, {})

Ccip ==
  Make({"send", "bridge"}, {}, "ccipMessage")
  \cup Use({"track"}, {"ccipMessage"})
  \cup Use({"getFee", "supportedChains", "supportedTokens", "lanes", "tokenPool",
            "rateLimits"}, {})

Cct == Use({"listPools", "getPool"}, {})

\* createTx returns the call to sign; sameChainSwap swaps.
Debridge ==
  Make({"createTx", "sameChainSwap"}, {}, "debridgeOrder")
  \cup Use({"getOrderStatus"}, {"debridgeOrder"})
  \cup Use({"searchTokens", "getChains", "getInstructions"}, {})

Wormhole ==
  Make({"bridge"}, {}, "vaa") \cup Use({"chainId", "parseVaaId"}, {})

WormholeNtt == Use({"listChains"}, {})

Hyperlane ==
  Make({"dispatch"}, {}, "hyperlaneMessage")
  \cup Use({"getMessage"}, {"hyperlaneMessage"})
  \cup Use({"listChains", "quoteDispatch"}, {})

\* An Axelar message is read by the hash of its payload, which the caller has.
Axelar ==
  Named({"callContract"}, {}, "axelarCall")
  \cup Use({"payGas", "getMessage"}, {"axelarCall"}) \cup Use({"listChains"}, {})

\* ERC-8004: the node encodes calldata and decodes what a contract returned;
\* nothing is sent.
Erc8004Identity ==
  Use({"deriveAgentId", "encodeRegister", "encodeGetAgent", "decodeGetAgent",
       "encodeSetAgentURI", "encodeSetAgentWallet", "encodeSetMetadata",
       "encodeGetMetadata", "decodeGetMetadata", "encodeGetAgentURI",
       "encodeGetAgentWallet"}, {})

Erc8004Reputation ==
  Use({"encodeFeedback", "encodeGetFeedback", "encodeGetFeedbackCount",
       "encodeRevokeFeedback", "encodeAppendResponse", "encodeIsFeedbackRevoked",
       "encodeGetFeedbackResponses", "encodeValidationRequest",
       "encodeValidationResponse", "encodeGetValidation"}, {})

Erc8004 == Erc8004Identity \cup Erc8004Reputation

\* A fill is the one of its order on its origin chain.
Erc7683 ==
  Use({"getOrder", "listOrders"}, {})
  \cup Named({"recordFill"}, {}, "fill")
  \cup Use({"getFill"}, {"fill"}) \cup List({"listFills"}, {}, "fill")

Erc7802 ==
  Make({"crosschainMint", "crosschainBurn"}, {}, "crosschainMove")
  \cup Use({"getCrossChainSupply"}, {})

\* issuer and unit name the asset.
StableAsset ==
  Named({"register"}, {}, "stableAsset")
  \cup Use({"get"}, {"stableAsset"})
  \cup Make({"mint", "redeem"}, {"stableAsset"}, "issuance")

SecureMint ==
  Named({"setPolicy"}, {}, "mintPolicy")
  \cup Use({"getPolicy", "check", "setPaused"}, {"mintPolicy"})
  \cup Make({"apply", "recordBurn"}, {"mintPolicy"}, "issuance")
  \cup End({"clearPolicy"}, {}, "mintPolicy")
  \cup Use({"setGlobalPause"}, {})

\* The kill switch of a token, and an account's frozen amount of it.
Urwa ==
  Named({"triggerKillSwitch"}, {}, "killSwitch")
  \cup Use({"isKillSwitched"}, {"killSwitch"}) \cup End({"clearKillSwitch"}, {}, "killSwitch")
  \cup Use({"setFrozenTokens", "getFrozenTokens"}, {})

Compliance ==
  Named({"registerCompliance"}, {}, "rules")
  \cup Use({"checkCompliance", "getCompliance", "freezeAddress", "unfreezeAddress"}, {"rules"})

\* The permit's nonce is spent once, whatever the answer.
Permit2 ==
  Named({"verifyAndConsume"}, {}, "spentNonce")
  \cup Use({"nonceUsed"}, {"spentNonce"}) \cup Use({"domainSeparator", "digest"}, {})

Eip7702 == Use({"signingHash", "buildDesignator", "parseDesignator", "protocolInfo"}, {})
=============================================================================
