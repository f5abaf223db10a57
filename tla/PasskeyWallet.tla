---------------------------- MODULE PasskeyWallet -----------------------------
(***************************************************************************)
(* src/passkey.ts: createPasskeyWallet, signWithPasskey and the two        *)
(* authenticators of the SDK, driven by an application that runs several   *)
(* creations and signatures at once on one event loop, keeps credentials   *)
(* across restarts and may hand one authenticator to several calls.        *)
(* Credentials, keys and hashes are abstract; their bytes are the subject  *)
(* of WebAuthnBytes.                                                       *)
(***************************************************************************)
EXTENDS Naturals, FiniteSets

CONSTANTS
  Wallets,          \* calls of createPasskeyWallet
  Software,         \* instances of SoftwareP256Authenticator
  Platform,         \* the platform authenticator behind navigator.credentials
  Ops,              \* hashes of user operations
  NoCredential,
  MaxSignatures     \* bound: assertions asked for

VARIABLES
  init,          \* readyPromise of each software instance
  available,     \* the platform has a user-verifying authenticator
  creation,      \* createPasskeyWallet: step, config and authenticator
  made,          \* credentials the platform has made, each with its wallet
  credential,    \* credential of each wallet that was returned
  module,        \* wallets whose validator module is bound
  asked,         \* assertions under way
  questions,     \* number of assertions asked for
  signed         \* user-operation signatures returned

vars == <<init, available, creation, made, credential, module, asked, questions, signed>>

Authenticators == Software \cup {Platform}

ASSUME WalletAssumption ==
  /\ MaxSignatures \in Nat
  /\ Platform \notin Software
  /\ NoCredential \notin [of : Software \cup {Platform}, wallet : Wallets \cup {NoCredential}]

\* A software instance has one credential for as long as it lives; the platform
\* makes one for each createCredential.
OwnCredential(a) == [of |-> a, wallet |-> NoCredential]

Init ==
  /\ init = [a \in Software |-> "none"]
  /\ available \in BOOLEAN
  /\ creation = [w \in Wallets |-> [step |-> "idle", platform |-> FALSE, auth |-> Platform]]
  /\ made = {}
  /\ credential = [w \in Wallets |-> NoCredential]
  /\ module = {} /\ asked = {} /\ questions = 0 /\ signed = {}
-----------------------------------------------------------------------------
(***************************************************************************)
(* createPasskeyWallet                                                     *)
(***************************************************************************)
Goto(w, step) == creation' = [creation EXCEPT ![w].step = step]

\* new SoftwareP256Authenticator(): init() is started, not awaited.
Constructed(a) ==
  init' = IF a \in Software /\ init[a] = "none" THEN [init EXCEPT ![a] = "running"] ELSE init

\* The length of the ML-DSA key is checked before anything else; then the
\* availability is awaited, if the configuration requires the platform.
Create(w, a, platform, shortKey) ==
  /\ creation[w].step = "idle"
  /\ Constructed(a)
  /\ creation' =
       [creation EXCEPT ![w] =
          [step |-> IF shortKey THEN "failed"
                    ELSE IF platform THEN "availability" ELSE "credential",
           platform |-> platform, auth |-> a]]
  /\ UNCHANGED <<available, made, credential, module, asked, questions, signed>>

\* isPlatformAuthenticatorAvailable: FALSE for software, and in a browser also
\* when the question itself fails.
AvailabilityKnown(w) ==
  /\ creation[w].step = "availability"
  /\ \E yes \in BOOLEAN :
       /\ yes => creation[w].auth = Platform /\ available
       /\ Goto(w, IF yes THEN "credential" ELSE "failed")
  /\ UNCHANGED <<init, available, made, credential, module, asked, questions, signed>>

Returned(w, c) ==
  /\ credential' = [credential EXCEPT ![w] = c]
  /\ Goto(w, "returned")

\* navigator.credentials.create: null or a rejection when the user cancels; when
\* the attestation object cannot be read the credential exists and no wallet.
PlatformCreates(w) ==
  /\ creation[w].step = "credential" /\ creation[w].auth = Platform
  /\ \/ Goto(w, "failed") /\ UNCHANGED <<made, credential>>
     \/ /\ made' = made \cup {[of |-> Platform, wallet |-> w]}
        /\ \/ Returned(w, [of |-> Platform, wallet |-> w])
           \/ Goto(w, "failed") /\ UNCHANGED credential
  /\ UNCHANGED <<init, available, module, asked, questions, signed>>

SoftwareCreatesAtOnce(w) ==
  LET a == creation[w].auth IN
  /\ creation[w].step = "credential" /\ a \in Software
  /\ Returned(w, IF init[a] = "done" THEN OwnCredential(a) ELSE NoCredential)
  /\ UNCHANGED <<init, available, made, module, asked, questions, signed>>

\* createCredential of the software instance, once readyPromise is settled.
SoftwareCreates(w) ==
  LET a == creation[w].auth IN
  /\ creation[w].step = "credential" /\ a \in Software /\ init[a] \in {"done", "failed"}
  /\ IF init[a] = "done" THEN Returned(w, OwnCredential(a))
     ELSE Goto(w, "failed") /\ UNCHANGED credential
  /\ UNCHANGED <<init, available, made, module, asked, questions, signed>>

\* init(): the key pair is generated and exported, or Web Crypto fails.
InitSettles(a) ==
  /\ init[a] = "running"
  /\ \E r \in {"done", "failed"} : init' = [init EXCEPT ![a] = r]
  /\ UNCHANGED <<available, creation, made, credential, module, asked, questions, signed>>

BindValidatorModule(w) ==
  /\ creation[w].step = "returned"
  /\ module' = module \cup {w}
  /\ UNCHANGED <<init, available, creation, made, credential, asked, questions, signed>>

\* The application restarts: it restores its wallets' signers from the stored
\* credentials, over the platform or a new software instance.
Restart(new) ==
  /\ \E w \in Wallets : creation[w].step = "returned"
  /\ new \in Software => init[new] = "none"
  /\ Constructed(new)
  /\ creation' = [w \in Wallets |->
       IF creation[w].step = "returned"
       THEN [creation[w] EXCEPT !.auth = IF @ = Platform THEN @ ELSE new]
       ELSE [creation[w] EXCEPT !.step = IF @ = "idle" THEN @ ELSE "failed"]]
  /\ asked' = {} /\ module' = {}
  /\ UNCHANGED <<available, made, credential, questions, signed>>
-----------------------------------------------------------------------------
(***************************************************************************)
(* signWithPasskey                                                         *)
(***************************************************************************)
\* The module is looked up before anything is awaited; WebAuthnSigner hands its
\* authenticator the credential id of its wallet and the operation's hash.
SignWithPasskey(w, op) ==
  /\ creation[w].step = "returned" /\ questions < MaxSignatures
  /\ w \in module
  /\ questions' = questions + 1
  /\ asked' = asked \cup {[wallet |-> w, op |-> op, auth |-> creation[w].auth,
                           id |-> credential[w], n |-> questions + 1]}
  /\ UNCHANGED <<init, available, creation, made, credential, module, signed>>

Answer(q, key) ==
  /\ asked' = asked \ {q}
  /\ signed' = signed \cup {[wallet |-> q.wallet, op |-> q.op, key |-> key]}

Fail(q) == asked' = asked \ {q} /\ UNCHANGED signed

\* navigator.credentials.get: allowCredentials names the one credential; null
\* when the user cancels, and a malformed DER signature is refused.
PlatformAsserts(q) ==
  /\ q.auth = Platform
  /\ (q.id \in made /\ Answer(q, q.id)) \/ Fail(q)
  /\ UNCHANGED <<init, available, creation, made, credential, module, questions>>

\* After readyPromise, and only for the instance's own credential id.
SoftwareAsserts(q) ==
  /\ q.auth \in Software /\ init[q.auth] \in {"done", "failed"}
  /\ IF init[q.auth] = "done" /\ q.id = OwnCredential(q.auth)
     THEN Answer(q, OwnCredential(q.auth)) ELSE Fail(q)
  /\ UNCHANGED <<init, available, creation, made, credential, module, questions>>
-----------------------------------------------------------------------------
Next ==
  \/ \E w \in Wallets, a \in Authenticators, p \in BOOLEAN, k \in BOOLEAN :
       Create(w, a, p, k)
  \/ \E w \in Wallets :
       AvailabilityKnown(w) \/ PlatformCreates(w) \/ SoftwareCreates(w) \/ BindValidatorModule(w)
  \/ \E a \in Software : InitSettles(a)
  \/ \E a \in Authenticators : Restart(a)
  \/ \E w \in Wallets, op \in Ops : SignWithPasskey(w, op)
  \/ \E q \in asked : PlatformAsserts(q) \/ SoftwareAsserts(q)

Spec == Init /\ [][Next]_vars
-----------------------------------------------------------------------------
TypeOK ==
  /\ init \in [Software -> {"none", "running", "done", "failed"}]
  /\ \A w \in Wallets :
       /\ creation[w].step \in {"idle", "availability", "credential", "returned", "failed"}
       /\ creation[w].auth \in Authenticators
  /\ module \subseteq Wallets /\ questions \in 0..MaxSignatures

\* A wallet that was returned has a key, and one its configuration allows: never
\* a software key when the platform is required ("rather than silently using a
\* software key"), and never the fields of an instance whose init has not run.
\* Every signature is by the wallet's own key, whatever instance a restart put
\* behind it.
KeysAreTheWallets ==
  /\ \A w \in Wallets : creation[w].step = "returned" =>
       /\ credential[w] # NoCredential
       /\ creation[w].platform => credential[w].of = Platform
  /\ \A s \in signed : s.key = credential[s.wallet]
=============================================================================
