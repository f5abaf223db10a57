-------------------------------- MODULE MCCodecs -------------------------------
(***************************************************************************)
(* Arguments for the codecs.  Bytes hold 16 values and integers one or two *)
(* of them, so that every boundary of a width is among the arguments.      *)
(***************************************************************************)
EXTENDS Codecs

CONSTANT AfterKey       \* what may follow the key in an attestation object

TagDef ==
  [settlement |-> <<7, 1>>, registration |-> <<7, 2>>, status |-> <<7, 3>>,
   envelope |-> <<8>>, credential |-> <<9, 1>>, service |-> <<9, 2>>, claim |-> <<9, 3>>]

DiscriminatorDef ==
  [bridgeToEvm |-> <<1>>, bridgeFromEvm |-> <<2>>,
   registerTokenPointer |-> <<3>>, transferCrossVm |-> <<4>>]
-----------------------------------------------------------------------------
(***************************************************************************)
(* Arguments                                                               *)
(***************************************************************************)
Keys32 == {<<0>>, <<1>>, <<13>>}
Odd == {<<>>, <<1, 2, 3>>}
Words == {-1, 0, 1, 15, 16}
Edge == {0, 15, 16}

AskedDef ==
  [kind : {"bridgeToEvm"},
   args : [mint : Keys32 \cup Odd, evmDest : {<<0, 1>>, <<13, 2>>} \cup Odd,
           amount : Words, nonce : Edge]]
  \cup
  [kind : {"bridgeFromEvm"},
   args : [mint : Keys32 \cup Odd, svmDest : Keys32 \cup Odd, amount : Words, nonce : Edge]]
  \cup
  [kind : {"registerTokenPointer"},
   args : [mint : Keys32, evmTokenAddress : {<<0, 1>>, <<1>>}, tokenId : Keys32 \cup Odd]]
  \cup
  [kind : {"transferCrossVm"},
   args : [mint : Keys32, destVm : 0..4, destAddress : Keys32 \cup Odd,
           amount : Words, nonce : Edge]]

\* Data of any size that a program might be given.
ReceivedDef ==
  {DiscriminatorDef[k] \o p : k \in Instructions, p \in UNION {[1..n -> {0, 3, 4}] : n \in 0..6}}

SignaturesDef == (1..255) \X {1, 7, 8, 15, 16, 127, 128, 255}

ObjectsDef ==
  [before : {<<>>, <<13>>, <<13, 15>>, <<14, 15, 2, 0>>},
   x : {<<0, 0>>, <<13, 15>>, <<5, 13>>}, y : {<<0, 1>>, <<14, 15>>},
   after : AfterKey]

SomeBytes == {<<0>>, <<14, 15, 2>>}
Nothing == {<<>>}

Texts == {<<>>, <<0>>, <<1>>, <<0, 1>>}

ContentsOf(kind) ==
  IF kind = "settlement"
  THEN [appId : {<<0>>, <<0, 0>>}, chainId : {-1, 0, 15, 16}, payerDid : Texts,
        amount : {255, 256}, externalRef : Texts, nonce : {<<0>>, <<1>>},
        expiry : {1, 16}, keyId : {<<>>, <<1>>}]
  ELSE IF kind = "envelope"
  THEN [did : Texts, method : Texts, paramsHash : {<<0>>, <<1>>},
        timestamp : {-1, 0, 15, 16}, nonce : {<<0, 0>>, <<0, 1>>}]
  ELSE IF kind = "header"
  THEN [did : Texts, method : Texts, paramsHash : {<<0>>}, timestamp : {0, 15, 16},
        nonce : {<<0, 0>>, <<0, 1>>}, signature : Texts]
  ELSE IF kind = "transfer"
  THEN [chainId : {0, 15}, from : {<<0>>, <<1>>}, to : {<<0>>, <<1>>}, nonce : {0, 1},
        gasLimit : {1}, gasPrice : {1}, timestamp : {0, 1}, amount : {0, 1, 14, 15, 16},
        pqPublicKey : Texts]
  ELSE IF kind = "auxiliary" THEN [authData : Texts, clientData : Texts]
  ELSE IF kind = "registration"
  THEN [appId : {<<0>>, <<0, 0>>}, developerDid : {<<1>>}, appWallet : {<<>>, <<0>>},
        keys : UNION {[1..n -> [keyId : {<<0>>, <<0, 0>>}, publicKey : {<<0>>},
                                limited : BOOLEAN, dailyLimit : {0, 255, 256}]] : n \in 1..2},
        marginBps : {0, 1}, minBalance : {0, 256}, active : {TRUE}]
  ELSE IF kind = "status" THEN [appId : Texts, active : BOOLEAN]
  ELSE IF kind = "credential"
  THEN [did : Texts, credentialType : Texts, issuer : Texts, claims : Texts]
  ELSE IF kind = "service" THEN [did : Texts, serviceType : Texts, endpoint : Texts]
  ELSE [address : Texts, topic : {0, 1, 15}, issuer : Texts, data : Texts,
        validFrom : {<<>>, <<0>>}, validTo : {<<>>, <<0>>}]

\* An absent limit has no value.
Meaningful(kind, c) ==
  kind = "registration" =>
    \A i \in DOMAIN c.keys : ~c.keys[i].limited => c.keys[i].dailyLimit = 0

\* Without a domain tag: the header that carries an envelope, the preimage of a
\* transfer, and the auxiliary data of an assertion.
Untagged == {"header", "transfer", "auxiliary"}

ContentsDef ==
  UNION {[kind : {k}, content : {c \in ContentsOf(k) : Meaningful(k, c)}] :
           k \in Tags \cup Untagged}

\* Keys of a claims object in the order of insertion: 1, 2, 10, a, a1.
ClaimKeys == {<<1>>, <<2>>, <<1, 0>>, <<15>>, <<15, 1>>}
InsertionsDef ==
  {keys \in UNION {[1..n -> ClaimKeys] : n \in 1..4} : IsInjective(keys)}

DidTextsDef ==
  {<<"did", "tenzro">> \o rest :
     rest \in UNION {[1..n -> {"human", "machine", "u1", "u2", "x"}] : n \in 0..4}}

\* Hexadecimal digits of both cases, and another character.
Characters == {[nibble |-> n, capital |-> c] : n \in {0, 3, HexBase}, c \in BOOLEAN}
ReferencesDef ==
  UNION {[1..n -> Characters] : n \in 1..3}
    \cup {<<Mark>> \o s : s \in UNION {[1..n -> Characters] : n \in 1..2}}

KeysDef ==
  {<<0, 0>> \o b : b \in UNION {[1..n -> {0, 1, 9, 15}] : n \in 0..2}}
    \cup UNION {[1..n -> {0, 1, 9, 15}] : n \in 0..4}
=============================================================================
