--------------------------------- MODULE CrossVm -------------------------------
(***************************************************************************)
(* src/svm-cross-vm.ts: instruction data of the cross-VM program: a        *)
(* discriminator and fields of fixed width.  The encoders check widths and *)
(* ranges; the decoder checks the discriminator and the size of the rest.  *)
(***************************************************************************)
EXTENDS Bytes, FiniteSets

CONSTANTS
  Discriminator,    \* CROSS_VM_DISCRIMINATORS
  DiscWidth,        \* 8
  PubkeyWidth,      \* 32
  AddressWidth,     \* 20
  WordWidth         \* 8, the width of a u64

Instructions ==
  {"bridgeToEvm", "bridgeFromEvm", "registerTokenPointer", "transferCrossVm"}

ASSUME DiscriminatorAssumption ==
  /\ Discriminator \in [Instructions -> Bytes]
  /\ \A k \in Instructions : Len(Discriminator[k]) = DiscWidth
  /\ \A k, l \in Instructions : Discriminator[k] = Discriminator[l] => k = l

\* VM_TYPE.DAML
MaxVm == 3

ASSUME InstructionWidthsAssumption ==
  /\ DiscWidth \in Nat /\ PubkeyWidth \in Nat /\ AddressWidth \in Nat /\ WordWidth \in Nat
  /\ MaxVm < Base

\* CROSS_VM_PAYLOAD_SIZE
PayloadSize(k) ==
  IF k = "bridgeToEvm" THEN PubkeyWidth + AddressWidth + 2 * WordWidth
  ELSE IF k = "bridgeFromEvm" THEN 2 * PubkeyWidth + 2 * WordWidth
  ELSE IF k = "registerTokenPointer" THEN 2 * PubkeyWidth + AddressWidth
  ELSE 2 * PubkeyWidth + 1 + 2 * WordWidth

\* u64ToLeBytes refuses what does not fit.
FitsWord(v) == Fits(v, WordWidth)

EncodeBridgeToEvm(a) ==
  IF \/ Len(a.mint) # PubkeyWidth \/ Len(a.evmDest) # AddressWidth
     \/ ~FitsWord(a.amount) \/ ~FitsWord(a.nonce)
  THEN Threw
  ELSE Discriminator["bridgeToEvm"] \o a.mint \o a.evmDest
         \o UintLe(a.amount, WordWidth) \o UintLe(a.nonce, WordWidth)

EncodeBridgeFromEvm(a) ==
  IF \/ Len(a.mint) # PubkeyWidth \/ Len(a.svmDest) # PubkeyWidth
     \/ ~FitsWord(a.amount) \/ ~FitsWord(a.nonce)
  THEN Threw
  ELSE Discriminator["bridgeFromEvm"] \o a.mint \o a.svmDest
         \o UintLe(a.amount, WordWidth) \o UintLe(a.nonce, WordWidth)

EncodeRegisterTokenPointer(a) ==
  IF \/ Len(a.mint) # PubkeyWidth \/ Len(a.evmTokenAddress) # AddressWidth
     \/ Len(a.tokenId) # PubkeyWidth
  THEN Threw
  ELSE Discriminator["registerTokenPointer"] \o a.mint \o a.evmTokenAddress \o a.tokenId

EncodeTransferCrossVm(a) ==
  IF \/ Len(a.mint) # PubkeyWidth \/ Len(a.destAddress) # PubkeyWidth
     \/ a.destVm \notin 0..MaxVm
     \/ ~FitsWord(a.amount) \/ ~FitsWord(a.nonce)
  THEN Threw
  ELSE Discriminator["transferCrossVm"] \o a.mint \o <<a.destVm>> \o a.destAddress
         \o UintLe(a.amount, WordWidth) \o UintLe(a.nonce, WordWidth)

Encode(ins) ==
  IF ins.kind = "bridgeToEvm" THEN EncodeBridgeToEvm(ins.args)
  ELSE IF ins.kind = "bridgeFromEvm" THEN EncodeBridgeFromEvm(ins.args)
  ELSE IF ins.kind = "registerTokenPointer" THEN EncodeRegisterTokenPointer(ins.args)
  ELSE EncodeTransferCrossVm(ins.args)
-----------------------------------------------------------------------------
\* The fields of a payload, cut at the offsets of the decoder.
Pubkey(p, at) == Slice(p, at, at + PubkeyWidth)
Address(p, at) == Slice(p, at, at + AddressWidth)
Word(p, at) == FromLe(Slice(p, at, at + WordWidth))

ArgsOf(k, p) ==
  LET P == PubkeyWidth
      A == AddressWidth
      W == WordWidth
  IN  IF k = "bridgeToEvm"
      THEN [mint |-> Pubkey(p, 0), evmDest |-> Address(p, P),
            amount |-> Word(p, P + A), nonce |-> Word(p, P + A + W)]
      ELSE IF k = "bridgeFromEvm"
      THEN [mint |-> Pubkey(p, 0), svmDest |-> Pubkey(p, P),
            amount |-> Word(p, 2 * P), nonce |-> Word(p, 2 * P + W)]
      ELSE IF k = "registerTokenPointer"
      THEN [mint |-> Pubkey(p, 0), evmTokenAddress |-> Address(p, P),
            tokenId |-> Pubkey(p, P + A)]
      ELSE [mint |-> Pubkey(p, 0), destVm |-> p[P + 1], destAddress |-> Pubkey(p, P + 1),
            amount |-> Word(p, 2 * P + 1), nonce |-> Word(p, 2 * P + 1 + W)]

DecodeAnyVm(data) ==
  LET disc == Slice(data, 0, DiscWidth)
      payload == Slice(data, DiscWidth, Len(data))
      named == {k \in Instructions : Discriminator[k] = disc /\ Len(payload) = PayloadSize(k)}
  IN  IF named = {} THEN Threw
      ELSE LET k == CHOOSE l \in named : TRUE
           IN  [kind |-> k, args |-> ArgsOf(k, payload)]

\* decodeCrossVmInstruction
Decode(data) ==
  LET disc == Slice(data, 0, DiscWidth)
      payload == Slice(data, DiscWidth, Len(data))
      named == {k \in Instructions : Discriminator[k] = disc /\ Len(payload) = PayloadSize(k)}
  IN  IF Len(data) < DiscWidth \/ named = {} THEN Threw
      ELSE LET k == CHOOSE l \in named : TRUE
           IN  IF k = "transferCrossVm" /\ payload[PubkeyWidth + 1] > MaxVm
               THEN Threw
               ELSE [kind |-> k, args |-> ArgsOf(k, payload)]
=============================================================================
