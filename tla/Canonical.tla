-------------------------------- MODULE Canonical ------------------------------
(***************************************************************************)
(* The canonical byte strings that are hashed and signed: src/app.ts,      *)
(* src/identity.ts and transferTxHash of src/wallet.ts.  Each starts with  *)
(* a domain tag; text is framed by its length, integers and keys have a    *)
(* fixed width.  The node computes the same bytes from the request.        *)
(*                                                                         *)
(* A ...Layout says where the fields go, given their encodings; the        *)
(* operator named after the function encodes the fields.                   *)
(***************************************************************************)
EXTENDS Bytes

CONSTANTS
  Tag,               \* the domain tag of each kind of byte string
  W64, W128,         \* widths of the integers: 8 and 16 bytes
  KeyWidth           \* width of a hash, an address or a settlement's nonce: 32 bytes

Tags == {"settlement", "registration", "status", "envelope",
         "credential", "service", "claim"}

StartsWith(s, t) == Len(t) <= Len(s) /\ SubSeq(s, 1, Len(t)) = t

\* "tenzro/app/registration", "tenzro/app/status", ...: none continues another.
ASSUME TagAssumption ==
  /\ Tag \in [Tags -> Bytes]
  /\ \A s, t \in Tags : s # t => ~StartsWith(Tag[s], Tag[t])
ASSUME WidthsAssumption ==
  W64 \in Nat \ {0} /\ W128 \in Nat \ {0} /\ KeyWidth \in Nat \ {0}
\* A byte can be a digit or a brace.
ASSUME DigitsAssumption == Base >= 3
-----------------------------------------------------------------------------
SettlementLayout(appId, chainId, payerDid, amount, externalRef, nonce, expiry, keyId) ==
  Tag["settlement"] \o Framed(appId) \o chainId \o Framed(payerDid) \o amount
    \o Framed(externalRef) \o nonce \o expiry \o Framed(keyId)

SettlementSigningPreimage(auth) ==
  IF \/ Len(auth.nonce) # KeyWidth
     \/ Threw \in {BigUintBe(auth.chainId, W64), BigUintBe(auth.amount, W128),
                   BigUintBe(auth.expiry, W64)}
  THEN Threw
  ELSE SettlementLayout(auth.appId, BigUintBe(auth.chainId, W64), auth.payerDid,
         BigUintBe(auth.amount, W128), auth.externalRef, auth.nonce,
         BigUintBe(auth.expiry, W64), auth.keyId)

EnvelopeLayout(did, method, paramsHash, timestamp, nonce) ==
  Tag["envelope"] \o Framed(did) \o Framed(method) \o paramsHash \o timestamp \o nonce

EnvelopeCanonicalPreimage(env) ==
  IF BigUintBe(env.timestamp, W64) = Threw THEN Threw
  ELSE EnvelopeLayout(env.did, env.method, env.paramsHash, BigUintBe(env.timestamp, W64),
                      env.nonce)

\* The header has the signature in the place of the domain tag.
EnvelopeToHeaderValue(env) ==
  IF BigUintBe(env.timestamp, W64) = Threw THEN Threw
  ELSE Framed(env.did) \o Framed(env.method) \o env.paramsHash
         \o BigUintBe(env.timestamp, W64) \o env.nonce \o Framed(env.signature)

\* One key of an app: an absent daily limit is told from every present one.
SigningKey(k) ==
  Framed(k.keyId) \o Framed(k.publicKey)
    \o (IF k.limited THEN <<1>> \o BigUintBe(k.dailyLimit, W128) ELSE <<0>>)

Concatenated(ss) ==
  LET upTo[i \in 0..Len(ss)] == IF i = 0 THEN <<>> ELSE upTo[i - 1] \o ss[i]
  IN  upTo[Len(ss)]

AppRegistrationParams(app) ==
  IF \/ BigUintBe(app.minBalance, W128) = Threw
     \/ \E i \in DOMAIN app.keys :
          app.keys[i].limited /\ BigUintBe(app.keys[i].dailyLimit, W128) = Threw
  THEN Threw
  ELSE Tag["registration"] \o Framed(app.appId) \o Framed(app.developerDid)
         \o Framed(app.appWallet) \o U32be(Len(app.keys))
         \o Concatenated([i \in DOMAIN app.keys |-> SigningKey(app.keys[i])])
         \o U32be(app.marginBps) \o BigUintBe(app.minBalance, W128)
         \o <<IF app.active THEN 1 ELSE 0>>

AppStatusParams(appId, active) ==
  Tag["status"] \o Framed(appId) \o <<IF active THEN 1 ELSE 0>>
-----------------------------------------------------------------------------
IdentityCredentialParams(did, credentialType, issuer, claims) ==
  Tag["credential"] \o Framed(did) \o Framed(credentialType) \o Framed(issuer)
    \o Framed(claims)

IdentityServiceParams(did, serviceType, endpoint) ==
  Tag["service"] \o Framed(did) \o Framed(serviceType) \o Framed(endpoint)

ClaimLayout(address, topic, issuer, data, validFrom, validTo) ==
  Tag["claim"] \o Framed(address) \o topic \o Framed(issuer) \o Framed(data)
    \o Framed(validFrom) \o Framed(validTo)

\* u64be keeps the low 64 bits of any topic, where app.ts would throw.
IdentityClaimParams(c) ==
  ClaimLayout(c.address, UintBe(c.topic, W64), c.issuer, c.data, c.validFrom, c.validTo)
-----------------------------------------------------------------------------
(***************************************************************************)
(* transferTxHash: integers little-endian, the amount in decimal inside a  *)
(* JSON text that ends with a brace, the key framed little-endian.         *)
(***************************************************************************)
U32le(n) == LET b == U32be(n) IN <<b[4], b[3], b[2], b[1]>>

Brace == Base - 1

\* The digits of the amount, most significant first, in base Base - 1 here, then "}}".
TxTypeJson(amount) ==
  LET digits == Digits(amount, Base - 1)
  IN  IF amount = 0 THEN <<0, Brace>>
      ELSE [i \in DOMAIN digits |-> digits[Len(digits) + 1 - i]] \o <<Brace>>

TransferPreimage(tx) ==
  UintLe(tx.chainId, W64) \o tx.from \o tx.to \o UintLe(tx.nonce, W64)
    \o UintLe(tx.gasLimit, W64) \o UintLe(tx.gasPrice, W64) \o UintLe(tx.timestamp, W64)
    \o TxTypeJson(tx.amount) \o U32le(Len(tx.pqPublicKey)) \o tx.pqPublicKey
-----------------------------------------------------------------------------
(***************************************************************************)
(* canonicalClaimsBytes: sortJson inserts the keys of an object in byte    *)
(* order into a new object, and JSON.stringify writes them in the order in *)
(* which JavaScript enumerates them: keys that are array indices first, by *)
(* number, then the others in order of insertion.                          *)
(***************************************************************************)
IsIndex(k) == (k[1] # 0 \/ Len(k) = 1) /\ \A i \in DOMAIN k : k[i] < Base - 1

\* The value of an index: its digits are the bytes below Base - 1.
IndexOf(k) ==
  LET sum[i \in 0..Len(k)] == IF i = 0 THEN 0 ELSE sum[i - 1] * (Base - 1) + k[i]
  IN  sum[Len(k)]

\* byteCompare(a, b) < 0
ByteBefore(a, b) ==
  \/ a # b /\ StartsWith(b, a)
  \/ \E i \in DOMAIN a \cap DOMAIN b :
       a[i] < b[i] /\ \A j \in 1..(i - 1) : a[j] = b[j]

InsertionBefore(inserted, a, b) ==
  \E i, j \in DOMAIN inserted : i < j /\ inserted[i] = a /\ inserted[j] = b

\* The order in which JavaScript enumerates an object whose keys were inserted
\* in a given order.
EnumeratedBefore(inserted, a, b) ==
  IF IsIndex(a) /\ IsIndex(b) THEN IndexOf(a) < IndexOf(b)
  ELSE IF IsIndex(a) \/ IsIndex(b) THEN IsIndex(a)
  ELSE InsertionBefore(inserted, a, b)

SortJsonUnsorted(keys) == keys

\* Object.keys(src).sort(byteCompare)
SortJson(keys) ==
  CHOOSE s \in [DOMAIN keys -> {keys[i] : i \in DOMAIN keys}] :
    \A i, j \in DOMAIN s : i < j => ByteBefore(s[i], s[j])

\* a comes before b in the canonical bytes of an object built as keys says.
WrittenBefore(keys, a, b) == EnumeratedBefore(SortJson(keys), a, b)
=============================================================================
