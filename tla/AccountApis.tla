----------------------------- MODULE AccountApis ------------------------------
(***************************************************************************)
(* Wallets, accounts, identities and approvals: what passkey-rpc.ts,       *)
(* custody.ts, wallet.ts, identity.ts and auth.ts ask of the node beside   *)
(* what FrostSigning, TxSubmit, SignedWrite and AuthSessions model.        *)
(***************************************************************************)
EXTENDS Methods

\* The account's address follows from the credential and the policy of the call.
PasskeyEnrolment ==
  Named({"enroll"}, {}, "account")
  \cup Use({"sign"}, {"account"})
  \cup Make({"createCustodyChallenge"}, {"account"}, "custodyChallenge")

\* A challenge authorises one change; a credential is named by the caller's own
\* key, a browser session by the node.
PasskeyChanges ==
  Named({"addPasskey"}, {"account", "custodyChallenge"}, "passkey")
  \cup List({"listPasskeys"}, {}, "passkey")
  \cup End({"removePasskey"}, {"account", "custodyChallenge"}, "passkey")
  \cup Use({"setPolicy", "getPolicy"}, {"account"})
  \cup Make({"createSession"}, {}, "browserSession")
  \cup Use({"getSession"}, {"browserSession"})

\* Guardians and session keys are named by keys the caller has; the session
\* keys are revoked by their account alone.
PasskeyRecovery ==
  Named({"addGuardian"}, {"account"}, "guardian")
  \cup Make({"initiateRecovery"}, {"account"}, "recovery")
  \cup Use({"submitRecoverySignature"}, {"recovery"})
  \cup End({"finalizeRecovery"}, {}, "recovery")
  \cup List({"listPendingRecoveries"}, {}, "recovery")
  \cup Named({"grantSessionKey"}, {"account"}, "grantedKey")
  \cup EndSome({"revokeSessionKey"}, {"account"}, "grantedKey")
  \cup Use({"setSpendingLimit", "addHardwareSigner", "getSmartAccount"}, {"account"})
  \cup List({"listSmartAccounts"}, {}, "account")

\* Every participant derives the same instance id from the same parameters.
PasskeyAdmin ==
  Named({"mpcKeygen"}, {}, "keygen")
  \cup List({"listMpcKeygenSessions"}, {}, "keygen")
  \cup Use({"mpcKeygenStatus"}, {"keygen"})
  \cup Use({"revokeIdentity", "revokeJwt", "addTrustedIssuer"}, {})

PasskeyRpc ==
  PasskeyEnrolment \cup PasskeyChanges \cup PasskeyRecovery \cup PasskeyAdmin

\* Neither wallets nor session keys are listed by this client, and a session
\* is revoked by the id that only the answer to authorizeSession has.
Custody ==
  Make({"createMpcWallet", "importKeystore"}, {}, "mpcWallet")
  \cup Use({"exportKeystore", "getKeyShares", "rotateKeys", "setSpendingLimits",
            "getSpendingLimits"}, {"mpcWallet"})
  \cup Make({"authorizeSession"}, {"mpcWallet"}, "sessionKey")
  \cup End({"revokeSession"}, {}, "sessionKey")

\* A signature of ML-DSA is the answer; nothing is kept.
MlDsa == Use({"mldsaCapabilities", "mldsaSign"}, {})

Wallet ==
  Make({"createWallet", "createAccount"}, {}, "wallet")
  \cup Use({"getBalance", "getTokenBalance", "getNonce"}, {"wallet"})

Identity ==
  Make({"registerHuman", "registerMachine"}, {}, "identity")
  \cup List({"listIdentities"}, {}, "identity")
  \cup Use({"resolve", "resolveDidDocument"}, {"identity"})

IdentityNames ==
  Make({"registerMachineIdentity", "joinAsMicroNode"}, {}, "identity")
  \cup Named({"setUsername"}, {"identity"}, "username")
  \cup Use({"resolveUsername"}, {"username"}) \cup Use({"listJwks", "getJwk"}, {})

IdentityApi == Identity \cup IdentityNames

AuthReads ==
  List({"listPendingApprovals"}, {}, "approval") \cup Use({"getApproval"}, {"approval"})
  \cup Use({"introspectToken", "oauthDiscovery"}, {})
=============================================================================
