------------------------------- MODULE Identifiers -----------------------------
(***************************************************************************)
(* The identifiers the SDK builds and parses by itself: did:tenzro DIDs    *)
(* (src/did-tenzro-helpers.ts), CAIP-2 chain ids (src/caip-helpers.ts) and *)
(* did:key DIDs in base58 (src/app.ts).  A DID is the sequence of its      *)
(* parts between colons, a chain id the sequence of its characters.        *)
(***************************************************************************)
EXTENDS Bytes

CONSTANTS
  Uuids,            \* what UUID_RE matches, in either case
  Alphabet,         \* 58: the characters of base58btc
  RefWidth,         \* 16: the bytes of a CAIP-2 reference
  HexBase,          \* 16: the values of a hexadecimal digit
  Null              \* the answer of a parser that does not recognise its input

ASSUME AlphabetAssumption == Alphabet \in Nat /\ Alphabet >= 2
ASSUME RefAssumption == RefWidth \in Nat
ASSUME HexAssumption == HexBase \in Nat /\ HexBase * HexBase = Base

\* TenzroDid: what the parser gives.
ParsedDids ==
  [class : {"human", "machine-autonomous"}, uuid : Uuids]
    \cup [class : {"machine-delegated"}, controllerUuid : Uuids, uuid : Uuids]

ASSUME DidAssumption == Uuids \subseteq STRING /\ Null \notin ParsedDids
-----------------------------------------------------------------------------
\* parseTenzroDid
ParseTenzroDid(did) ==
  LET rest == SubSeq(did, 3, Len(did))
  IN  IF Len(did) < 3 \/ SubSeq(did, 1, 2) # <<"did", "tenzro">> THEN Null
      ELSE IF Len(rest) = 2 /\ rest[1] = "human" /\ rest[2] \in Uuids
      THEN [class |-> "human", uuid |-> rest[2]]
      ELSE IF Len(rest) = 2 /\ rest[1] = "machine" /\ rest[2] \in Uuids
      THEN [class |-> "machine-autonomous", uuid |-> rest[2]]
      ELSE IF Len(rest) = 3 /\ rest[1] = "machine" /\ {rest[2], rest[3]} \subseteq Uuids
      THEN [class |-> "machine-delegated", controllerUuid |-> rest[2], uuid |-> rest[3]]
      ELSE Null

\* buildHumanDid, buildAutonomousMachineDid
BuildDid(word, uuid) ==
  IF uuid \notin Uuids THEN Threw ELSE <<"did", "tenzro", word, uuid>>

BuildDelegatedMachineDid(controller, uuid) ==
  IF {controller, uuid} \subseteq Uuids
  THEN <<"did", "tenzro", "machine", controller, uuid>> ELSE Threw

\* The builder for the class of a parsed DID.
Build(parsed) ==
  IF parsed.class = "human" THEN BuildDid("human", parsed.uuid)
  ELSE IF parsed.class = "machine-autonomous" THEN BuildDid("machine", parsed.uuid)
  ELSE BuildDelegatedMachineDid(parsed.controllerUuid, parsed.uuid)
-----------------------------------------------------------------------------
(***************************************************************************)
(* A character of a text: its hexadecimal value, and whether it is a       *)
(* capital.  Two of them write one byte.  Every character that is no       *)
(* hexadecimal digit has the value HexBase.                                *)
(***************************************************************************)
Nibble == 0..(HexBase - 1)

Lower(s) == [i \in DOMAIN s |-> [s[i] EXCEPT !.capital = FALSE]]

\* The 0x prefix is one mark here.
Mark == [nibble |-> -1, capital |-> FALSE]

HexDigits == [nibble : Nibble, capital : BOOLEAN]

OtherCharacters == [nibble : {HexBase}, capital : BOOLEAN]

\* Text of the characters X, with or without the prefix.
Prefixed(X) == {t \in Seq(X \cup {Mark}) : \A i \in DOMAIN t : t[i] = Mark => i = 1}

HexTexts == Prefixed(HexDigits)
CaipTexts == Prefixed(HexDigits \cup OtherCharacters)

HexOf(bytes) ==
  [i \in 1..(2 * Len(bytes)) |->
     [nibble |-> IF i % 2 = 1 THEN bytes[(i + 1) \div 2] \div HexBase
               ELSE bytes[i \div 2] % HexBase,
      capital |-> FALSE]]

\* buildTenzroCaip2: bytes, or text in any case with or without 0x.  Of a text only
\* the length is checked.
CaipOfText(s) ==
  LET hex == Lower(IF s # <<>> /\ s[1] = Mark THEN Tail(s) ELSE s)
  IN  IF Len(hex) # 2 * RefWidth THEN Threw ELSE <<"tenzro", hex>>

CaipOfBytes(b) == IF Len(b) # RefWidth THEN Threw ELSE <<"tenzro", HexOf(b)>>

\* parseTenzroCaip2: lower-case hexadecimal digits only.
ParseTenzroCaip2(chainId) ==
  IF /\ Len(chainId[2]) = 2 * RefWidth
     /\ \A i \in DOMAIN chainId[2] : chainId[2][i].nibble \in Nibble /\ ~chainId[2][i].capital
  THEN chainId[2] ELSE Null
-----------------------------------------------------------------------------
\* carry pushed digit by digit until nothing is left of it.
Pushed(carry) == Digits(carry, Alphabet)

\* One round of base58btcEncode: the digits so far times 256, plus a byte.
Absorbed(digits, byte) ==
  LET carry[i \in 0..Len(digits)] ==
        IF i = 0 THEN byte ELSE (carry[i - 1] + digits[i] * Base) \div Alphabet
  IN  [i \in DOMAIN digits |-> (carry[i - 1] + digits[i] * Base) % Alphabet]
        \o Pushed(carry[Len(digits)])

LeadingZeros(b) ==
  IF \A i \in DOMAIN b : b[i] = 0 THEN Len(b)
  ELSE (CHOOSE i \in DOMAIN b : b[i] # 0 /\ \A j \in 1..(i - 1) : b[j] = 0) - 1

\* base58btcEncode: one "1" (digit 0) for each leading zero, then the digits,
\* most significant first.
Base58btcEncode(b) ==
  LET after[i \in 0..Len(b)] == IF i = 0 THEN <<>> ELSE Absorbed(after[i - 1], b[i])
      digits == after[Len(b)]
  IN  Zeros(LeadingZeros(b)) \o [i \in DOMAIN digits |-> digits[Len(digits) + 1 - i]]

\* The number that base58 text writes.
Base58Value(text) ==
  LET sum[i \in 0..Len(text)] ==
        IF i = 0 THEN 0 ELSE sum[i - 1] * Alphabet + text[i]
  IN  sum[Len(text)]
=============================================================================
