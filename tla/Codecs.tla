--------------------------------- MODULE Codecs --------------------------------
(***************************************************************************)
(* One call of a codec of the SDK: its argument is any of a set, its       *)
(* result is checked against a reference.  The constants are the arguments *)
(* to try; what each of them may be is assumed.                            *)
(***************************************************************************)
EXTENDS Canonical, CrossVm, WebAuthnBytes, Identifiers, SequencesExt

CONSTANTS
  Asked,         \* instructions given to an encoder
  Received,      \* instruction data given to the decoder
  Signatures,    \* pairs r, s that an authenticator signs
  Objects,       \* attestation objects, in parts
  Contents,      \* contents that are signed or packed, with their kinds
  Insertions,    \* keys of a claims object in the order of insertion
  DidTexts,      \* texts given to parseTenzroDid
  References,    \* texts given to buildTenzroCaip2
  Keys,          \* byte strings given to base58btcEncode
  Pending        \* no result yet

VARIABLES call, result

vars == <<call, result>>
-----------------------------------------------------------------------------
(***************************************************************************)
(* What the codecs can be given                                            *)
(***************************************************************************)
\* What pushBytes can frame.
Framable == {b \in Bytes : FitsU32(Len(b))}

\* What u64be, bigUintBe and the hashes give.
Fixed(w) == {b \in Bytes : Len(b) = w}

\* The nonce of an envelope has 16 bytes, as an integer of 128 bits has.
NonceWidth == W128

\* Byte strings and numbers of any size.
BridgeToEvmArgs == [mint : Bytes, evmDest : Bytes, amount : Int, nonce : Int]
BridgeFromEvmArgs == [mint : Bytes, svmDest : Bytes, amount : Int, nonce : Int]
RegisterTokenPointerArgs == [mint : Bytes, evmTokenAddress : Bytes, tokenId : Bytes]
TransferCrossVmArgs ==
  [mint : Bytes, destVm : Int, destAddress : Bytes, amount : Int, nonce : Int]

\* The instructions of the program, each with its arguments.
AnyInstruction ==
  [kind : {"bridgeToEvm"}, args : BridgeToEvmArgs]
    \cup [kind : {"bridgeFromEvm"}, args : BridgeFromEvmArgs]
    \cup [kind : {"registerTokenPointer"}, args : RegisterTokenPointerArgs]
    \cup [kind : {"transferCrossVm"}, args : TransferCrossVmArgs]

Settlements ==
  [appId : Framable, chainId : Int, payerDid : Framable, amount : Int,
   externalRef : Framable, nonce : Bytes, expiry : Int, keyId : Framable]

Envelopes ==
  [did : Framable, method : Framable, paramsHash : Fixed(KeyWidth),
   timestamp : Int, nonce : Fixed(NonceWidth)]

\* The fields of a header: those of an envelope, and its signature.
Headers ==
  [did : Framable, method : Framable, paramsHash : Fixed(KeyWidth),
   timestamp : Int, nonce : Fixed(NonceWidth), signature : Framable]

KeyFields == [keyId : Framable, publicKey : Framable, limited : BOOLEAN, dailyLimit : Int]

\* What appRegistrationParams is given.  An absent limit has no value; u32be keeps
\* 32 bits of a margin, of which registerApp admits ten thousand values.
Registrations ==
  [appId : Framable, developerDid : Framable, appWallet : Framable,
   keys : {ks \in Seq(KeyFields) :
             FitsU32(Len(ks)) /\ \A i \in DOMAIN ks : ~ks[i].limited => ks[i].dailyLimit = 0},
   marginBps : {m \in Nat : FitsU32(m)}, minBalance : Int, active : BOOLEAN]

Statuses == [appId : Framable, active : BOOLEAN]

\* The fields of a service.
Services == [did : Framable, serviceType : Framable, endpoint : Framable]

\* The fields of a credential, its claims in canonical form.
Credentials ==
  [did : Framable, credentialType : Framable, issuer : Framable, claims : Framable]

\* What fits in 64 bits: u64be and setBigUint64 drop what a larger number has above.
U64 == {v \in Nat : Fits(v, W64)}

Claims ==
  [address : Framable, topic : U64, issuer : Framable,
   data : Framable, validFrom : Framable, validTo : Framable]

\* Both addresses of a transfer are checked to be 32 bytes.
Transfers ==
  [chainId : U64, from : Fixed(KeyWidth), to : Fixed(KeyWidth), nonce : U64,
   gasLimit : U64, gasPrice : U64, timestamp : U64, amount : Nat, pqPublicKey : Framable]

Auxiliaries == [authData : Framable, clientData : Framable]

AnyContent ==
  [kind : {"settlement"}, content : Settlements]
    \cup [kind : {"envelope"}, content : Envelopes]
    \cup [kind : {"header"}, content : Headers]
    \cup [kind : {"transfer"}, content : Transfers]
    \cup [kind : {"auxiliary"}, content : Auxiliaries]
    \cup [kind : {"registration"}, content : Registrations]
    \cup [kind : {"status"}, content : Statuses]
    \cup [kind : {"credential"}, content : Credentials]
    \cup [kind : {"service"}, content : Services]
    \cup [kind : {"claim"}, content : Claims]

\* A key of P-256 between other bytes of an attestation object.
Object(o) == o.before \o CoseCoordinates(o.x, o.y) \o o.after

\* What comes before the key does not look like one: nothing matches there.
AnyObject ==
  {o \in [before : Bytes, x : Fixed(CoordWidth), y : Fixed(CoordWidth), after : Bytes] :
     \A i \in 0..(Len(o.before) - 1) : ~Matches(Object(o), i)}

\* The keys of an object, in the order in which they were inserted.
KeyLists(X) == {keys \in Seq(X) : IsInjective(keys)}

ASSUME ArgumentsAssumption ==
  /\ Asked \subseteq AnyInstruction /\ Received \subseteq Bytes
  /\ Signatures \subseteq Nat \X Nat /\ Objects \subseteq AnyObject
  /\ Contents \subseteq AnyContent /\ Insertions \subseteq KeyLists(Bytes)
  /\ DidTexts \subseteq Seq(STRING) /\ References \subseteq CaipTexts /\ Keys \subseteq Bytes
-----------------------------------------------------------------------------
Calls ==
  [fn : {"encode"}, arg : Asked]
    \cup [fn : {"decode"}, arg : Received]
    \cup [fn : {"signature"}, arg : Signatures]
    \cup [fn : {"key"}, arg : Objects]
    \cup [fn : {"sign"}, arg : Contents]
    \cup [fn : {"claims"}, arg : Insertions]
    \cup [fn : {"did"}, arg : DidTexts]
    \cup [fn : {"chain"}, arg : References]
    \cup [fn : {"base58"}, arg : Keys]

CanonicalBytes(m) ==
  LET c == m.content
  IN  IF m.kind = "settlement" THEN SettlementSigningPreimage(c)
      ELSE IF m.kind = "envelope" THEN EnvelopeCanonicalPreimage(c)
      ELSE IF m.kind = "header" THEN EnvelopeToHeaderValue(c)
      ELSE IF m.kind = "transfer" THEN TransferPreimage(c)
      ELSE IF m.kind = "auxiliary" THEN PackAux(c.authData, c.clientData)
      ELSE IF m.kind = "registration" THEN AppRegistrationParams(c)
      ELSE IF m.kind = "status" THEN AppStatusParams(c.appId, c.active)
      ELSE IF m.kind = "credential"
      THEN IdentityCredentialParams(c.did, c.credentialType, c.issuer, c.claims)
      ELSE IF m.kind = "service" THEN IdentityServiceParams(c.did, c.serviceType, c.endpoint)
      ELSE IdentityClaimParams(c)

Init == call \in Calls /\ result = Pending

Answer(fn, value) ==
  /\ call.fn = fn /\ result = Pending
  /\ result' = value
  /\ UNCHANGED call

EncodeInstruction == call.fn = "encode" /\ Answer("encode", Encode(call.arg))
DecodeInstruction == call.fn = "decode" /\ Answer("decode", Decode(call.arg))
ConvertSignature ==
  call.fn = "signature" /\ Answer("signature", DerToRaw(Der(call.arg[1], call.arg[2])))
FindKey == call.fn = "key" /\ Answer("key", ExtractKey(Object(call.arg)))
SignContent == call.fn = "sign" /\ Answer("sign", CanonicalBytes(call.arg))
SortClaims == call.fn = "claims" /\ Answer("claims", SortJson(call.arg))
ParseDid == call.fn = "did" /\ Answer("did", ParseTenzroDid(call.arg))
BuildChainId == call.fn = "chain" /\ Answer("chain", CaipOfText(call.arg))
EncodeKey == call.fn = "base58" /\ Answer("base58", Base58btcEncode(call.arg))

Next ==
  \/ EncodeInstruction \/ DecodeInstruction \/ ConvertSignature \/ FindKey
  \/ SignContent \/ SortClaims \/ ParseDid \/ BuildChainId \/ EncodeKey

Spec == Init /\ [][Next]_vars
-----------------------------------------------------------------------------
(***************************************************************************)
(* Properties                                                              *)
(***************************************************************************)
Of(fn) == call.fn = fn /\ result # Pending

\* The decoder and the encoders of svm-cross-vm.ts are inverse to each other:
\* what one accepts, the other restores.
InstructionsRoundTrip ==
  /\ Of("encode") /\ result # Threw => Decode(result) = call.arg
  /\ Of("decode") /\ result # Threw => Encode(result) = call.arg

\* derToRawP256: r and s of every DER signature, padded to their width.
SignaturesConvert ==
  Of("signature") =>
    result = UintBe(call.arg[1], CoordWidth) \o UintBe(call.arg[2], CoordWidth)

\* A key embedded anywhere in an attestation object is found.
KeyAlwaysFound == Of("key") => result = call.arg.x \o call.arg.y

\* A DID is parsed just when one of the builders makes it, and back; a chain id
\* built from hexadecimal text is recognised and is that of some bytes, and one
\* built from another text is not recognised; base58 keeps the number.
IdentifiersRoundTrip ==
  /\ Of("did") /\ result # Null => Build(result) = call.arg
  /\ Of("did") /\ result = Null =>
       \A u, v \in Uuids : call.arg \notin
         {BuildDid("human", u), BuildDid("machine", u), BuildDelegatedMachineDid(u, v)}
  /\ Of("chain") /\ result # Threw =>
       IF call.arg \in HexTexts
       THEN /\ ParseTenzroCaip2(result) = result[2]
            /\ \E b \in [1..RefWidth -> Byte] : CaipOfBytes(b) = result
       ELSE ParseTenzroCaip2(result) = Null
  /\ Of("base58") => /\ Base58Value(result) = FromBe(call.arg)
                     /\ LeadingZeros(result) = LeadingZeros(call.arg)

\* Every conversion of bytes, keys and identifiers keeps what it converts:
\* decoding restores what was encoded and accepts nothing else.
RoundTrips ==
  /\ InstructionsRoundTrip /\ SignaturesConvert /\ KeyAlwaysFound /\ IdentifiersRoundTrip

BytesTable == [m \in Contents |-> CanonicalBytes(m)]

\* Two different contents, of one kind or of two tagged ones, never have the
\* same bytes: a signature over one cannot be presented for the other, and the
\* node reads from the bytes what the client put into them.
Unambiguous ==
  Of("sign") /\ result # Threw =>
    \A m \in Contents :
      BytesTable[m] = result /\ (m.kind = call.arg.kind \/ {m.kind, call.arg.kind} \subseteq Tags)
        => m = call.arg

\* The bytes of a claims object do not depend on the order in which its keys
\* were inserted.
ClaimsOrderFree ==
  Of("claims") =>
    \A keys \in Insertions :
      ToSet(keys) = ToSet(call.arg) =>
        \A a, b \in ToSet(keys) : WrittenBefore(keys, a, b) <=> WrittenBefore(call.arg, a, b)
=============================================================================
