------------------------------- MODULE PayApis --------------------------------
(***************************************************************************)
(* Settlements, channels, payments and mandates: the clients of            *)
(* settlement.ts (without the signed transactions, which TxSubmit models), *)
(* nanopayment.ts, payment.ts, ap2.ts, agent-payments.ts, bond.ts,         *)
(* bridge-fee.ts and gateway.ts.                                           *)
(***************************************************************************)
EXTENDS Methods

\* The caller chooses a settlement's request id.
SettlementReceipts ==
  Named({"settle"}, {}, "settlement")
  \cup Use({"getSettlement"}, {"settlement"})

Settlement ==
  SettlementReceipts
  \cup Use({"getEscrow"}, {"escrow"})
  \cup List({"listEscrowsByPayer", "listEscrowsByPayee"}, {}, "escrow")
  \cup Use({"prepaidDeposit", "prepaidWithdraw", "prepaidBalance", "getDispute"}, {})

\* A deposit is locked under a channel id that only the answer carries;
\* neither of the channel's methods lists.
PaymentChannels ==
  Use({"listDisputesByChannel"}, {"paymentChannel"})
  \cup Make({"openPaymentChannel"}, {}, "paymentChannel")
  \cup End({"closePaymentChannel"}, {}, "paymentChannel")

Nanopayment ==
  Make({"openChannel"}, {}, "nanoChannel")
  \cup Use({"sendNanopayment", "flushBatch", "getChannel"}, {"nanoChannel"})
  \cup End({"closeChannel"}, {}, "nanoChannel")
  \cup List({"listChannels"}, {}, "nanoChannel")

\* A payment's receipt is named by its answer alone: what is listed are the
\* sessions, which say what was spent in all.
Payment ==
  Make({"createChallenge"}, {}, "challenge")
  \cup Make({"payMpp", "payX402", "payVisaTap", "payMastercard", "payAp2"}, {}, "receipt")
  \cup Use({"getReceipt"}, {"receipt"})
  \cup List({"listSessions"}, {}, "paySession")
  \cup Use({"gatewayInfo", "listX402Schemes"}, {})

\* An authorization is for one payment of its session.
Ap2Sessions ==
  Make({"createSession"}, {}, "ap2Session")
  \cup Make({"authorizePayment"}, {"ap2Session"}, "authorization")
  \cup End({"executePayment"}, {"ap2Session"}, "authorization")
  \cup Use({"getSession"}, {"ap2Session"})
  \cup List({"listAgentSessions"}, {}, "ap2Session")
  \cup End({"cancelSession"}, {}, "ap2Session")

\* A mandate travels as a credential of the caller's.
Ap2Mandates ==
  Use({"signMandate", "verifyMandate", "validateMandatePair", "protocolInfo", "listMandates"}, {})

Ap2 == Ap2Sessions \cup Ap2Mandates

AgentPayments ==
  Use({"setSpendingPolicy", "getSpendingPolicy", "getDailySpend"}, {})
  \cup Make({"payForService"}, {}, "agentPayment")
  \cup List({"listAgentTransactions"}, {}, "agentPayment")

Bond ==
  Use({"getAgentBond"}, {"bond"})
  \cup List({"listAgentBondsByController"}, {}, "bond")

BridgeFee ==
  Use({"quote", "listSponsorshipPools", "setRate", "setRefillThreshold", "getAnalytics",
       "listAnalytics", "getPrice"}, {})
  \cup Make({"sponsor"}, {}, "sponsorship")

\* call() is any method of the catalogue that methods() returns.
Gateway == Use({"methods", "supports", "call"}, {})
=============================================================================
