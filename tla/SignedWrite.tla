------------------------------ MODULE SignedWrite -----------------------------
(***************************************************************************)
(* The signed writes of src/app.ts and src/identity.ts.                    *)
(*                                                                         *)
(*   settle      settleAuthorized        auth object, by reference         *)
(*   register    registerApp             key array, by reference           *)
(*   credential  addCredential           claims object, by reference       *)
(*   status      setAppStatus            arguments by value                *)
(*   service     addService              arguments by value                *)
(*                                                                         *)
(* Each computes the canonical bytes of its arguments, awaits their hash   *)
(* and awaits a signer - a person, perhaps - and then reads the arguments  *)
(* again to build the request.  Every await lets the application edit an   *)
(* object it passed by reference.  The Presigned form takes a signature    *)
(* made elsewhere and has no await before the request.                     *)
(*                                                                         *)
(* Around each write is the retry loop of QUICKREF.md: a rejected call is  *)
(* made again with the same arguments.                                     *)
(***************************************************************************)
EXTENDS Naturals, FiniteSets

CONSTANTS
  Ops,          \* writes of one application
  Kinds,        \* the kinds they may have
  Refs,         \* external reference, app id, DID: what a write is about
  Values,       \* the rest of its content
  Acceptable,   \* values that pass validateRegister, or have a 32-byte nonce
  Encodable,    \* values that have canonical bytes: every number fits its
                \* field, every claim is JSON
  Rounded,      \* what Number() makes of the chain id and expiry of a value
  None,
  MaxCalls,     \* bound: calls of all writes together
  MaxEdits      \* bound: edits of the arguments during one call

AllKinds == {"settle", "register", "credential", "status", "service"}

\* Arguments that the caller can still change after the call.
ByReference == {"settle", "register", "credential"}

\* Methods that check lengths and presence, before signing and before sending.
Checked == {"settle", "register"}

ASSUME OpsAssumption == IsFiniteSet(Ops)
ASSUME KindsAssumption == Kinds \subseteq AllKinds
ASSUME ValuesAssumption ==
  /\ Acceptable \subseteq Values /\ Encodable \subseteq Values /\ None \notin Values
  /\ Rounded \in [Values -> Values]
  /\ \A v \in Values : v \in Acceptable <=> Rounded[v] \in Acceptable
ASSUME BoundsAssumption == MaxCalls \in Nat \ {0} /\ MaxEdits \in Nat

VARIABLES
  kind, presigned,  \* which method, and in which form
  object,           \* the arguments as the caller's object holds them now
  pc,               \* where the async method stands
  signed,           \* the canonical bytes that were hashed for the signature
  serial,           \* the anti-replay nonce of the envelope
  proof,            \* the claims in the bytes of the durable proof
  edits,            \* edits since the call began
  attempt,          \* calls made so far
  outcome,          \* how the last call settled
  answer,           \* the answer on its way to the current call
  serials,          \* nonces drawn so far
  consented,        \* history: all canonical bytes a signer has signed
  sent,             \* requests under way
  ledger,           \* node: the amount paid for each external reference
  used,             \* node: the envelope nonces it has seen
  writes            \* node: registrations, credentials and services applied

args == <<kind, presigned>>
local == <<pc, signed, serial, proof, edits, attempt, outcome, answer, serials, consented>>
node == <<ledger, used, writes>>
vars == <<args, object, local, sent, node>>

Contents == [ref : Refs, value : Values]

\* The canonical bytes: domain tag, then every field of the content.
PreimageWithoutValue(k, c) == [domain |-> k, ref |-> c.ref, value |-> None]
PreimageUntagged(k, c) == [ref |-> c.ref, value |-> c.value]
Preimage(k, c) == [domain |-> k, ref |-> c.ref, value |-> c.value]

Preimages == [domain : AllKinds, ref : Refs, value : Values \cup {None}]

\* What the JSON of a request says of its content: settleAuthorized sends chain
\* id and expiry as numbers, where the canonical bytes hold them exactly.
Carried(k, c) == IF k = "settle" THEN [c EXCEPT !.value = Rounded[c.value]] ELSE c

Request(o, c) ==
  [op |-> o, kind |-> kind[o], attempt |-> attempt'[o], body |-> Carried(kind[o], c),
   signed |-> signed'[o], serial |-> serial'[o], proof |-> proof'[o],
   edits |-> edits'[o]]

\* The canonical bytes of an object the caller owns need not exist: bigUintBe
\* throws for a number out of range, hexToBytes for an odd length, JSON.stringify
\* for a claim that is no JSON.
Unencodable(o) == kind[o] \in ByReference /\ object[o].value \notin Encodable

Init ==
  /\ kind \in [Ops -> Kinds]
  /\ presigned \in [Ops -> BOOLEAN]
  /\ object \in [Ops -> Contents]
  /\ \A o \in Ops : presigned[o] => ~Unencodable(o)
  /\ pc = [o \in Ops |-> "idle"]
  /\ signed = [o \in Ops |-> None]
  /\ serial = [o \in Ops |-> 0]
  /\ proof = [o \in Ops |-> None]
  /\ edits = [o \in Ops |-> 0]
  /\ attempt = [o \in Ops |-> 0]
  /\ outcome = [o \in Ops |-> "none"]
  /\ answer = [o \in Ops |-> "none"]
  /\ serials = 0
  /\ consented = {}
  /\ sent = {}
  /\ ledger = [r \in Refs |-> None]
  /\ used = {}
  /\ writes = {}
-----------------------------------------------------------------------------
(***************************************************************************)
(* The client                                                              *)
(***************************************************************************)
Calls == Cardinality({c \in Ops \X (1..MaxCalls) : c[2] <= attempt[c[1]]})

\* The Presigned method throws: at the checks it repeats, or because rpc.call
\* cannot write the claims as JSON.
Refused(o) ==
  \/ kind[o] \in Checked /\ object[o].value \notin Acceptable
  \/ kind[o] = "credential" /\ object[o].value \notin Encodable

Throw(o, why) ==
  /\ pc' = [pc EXCEPT ![o] = "done"]
  /\ outcome' = [outcome EXCEPT ![o] = why]
  /\ UNCHANGED sent

SendUnchecked(o) ==
  /\ pc' = [pc EXCEPT ![o] = "submit"]
  /\ sent' = sent \cup {Request(o, object[o])}
  /\ UNCHANGED outcome

\* The Presigned method: the checks once more - not the ranges, which only the
\* canonical bytes enforce - then the request from the arguments as they are now.
Send(o) ==
  \/ Refused(o) /\ Throw(o, "invalid")
  \/ /\ ~Refused(o)
     /\ pc' = [pc EXCEPT ![o] = "submit"]
     /\ sent' = sent \cup {Request(o, object[o])}
     /\ UNCHANGED outcome

\* The canonical bytes of the arguments as they are at the call.
TakeBytes(o) == signed' = [signed EXCEPT ![o] = Preimage(kind[o], object[o])]

\* The caller's own signature of a pre-signed write is made once, over the
\* arguments of the first call, with or without a durable proof ...
PresignedFirst(o) ==
  /\ presigned[o] /\ attempt[o] = 0 /\ ~Unencodable(o)
  /\ TakeBytes(o)
  /\ \/ UNCHANGED proof
     \/ kind[o] = "credential" /\ proof' = [proof EXCEPT ![o] = object[o].value]
  /\ serial' = [serial EXCEPT ![o] = serials + 1]
  /\ serials' = serials + 1
  /\ consented' = consented \cup {signed'[o]}
  /\ Send(o)

PresignedAgainAnew(o) ==
  /\ presigned[o] /\ attempt[o] > 0
  /\ serial' = [serial EXCEPT ![o] = serials + 1]
  /\ serials' = serials + 1
  /\ UNCHANGED <<signed, proof, consented>>
  /\ Send(o)

\* ... and sent with every attempt.
PresignedAgain(o) ==
  /\ presigned[o] /\ attempt[o] > 0
  /\ UNCHANGED <<signed, proof, serial, serials, consented>>
  /\ Send(o)

\* Signing here: checks and canonical bytes, up to the await of their hash.
Prepare(o) ==
  /\ ~presigned[o]
  /\ \/ /\ Refused(o) \/ Unencodable(o)
        /\ Throw(o, "invalid")
        /\ UNCHANGED signed
     \/ /\ ~Refused(o) /\ ~Unencodable(o)
        /\ TakeBytes(o)
        /\ pc' = [pc EXCEPT ![o] = "hash"]
        /\ UNCHANGED <<outcome, sent>>
  /\ UNCHANGED <<proof, serial, serials, consented>>

\* A first or a repeated call.
Call(o) ==
  /\ pc[o] = "idle" /\ Calls < MaxCalls
  /\ attempt' = [attempt EXCEPT ![o] = @ + 1]
  /\ edits' = [edits EXCEPT ![o] = 0]
  /\ PresignedFirst(o) \/ PresignedAgain(o) \/ Prepare(o)
  /\ UNCHANGED <<args, object, answer, node>>

\* buildEnvelope after crypto.subtle.digest: nonce and timestamp, then the signer.
HashResolves(o) ==
  /\ pc[o] = "hash"
  /\ pc' = [pc EXCEPT ![o] = "sign"]
  /\ serials' = serials + 1
  /\ serial' = [serial EXCEPT ![o] = serials + 1]
  /\ UNCHANGED <<args, object, signed, proof, edits, attempt, outcome, answer,
                 consented, sent, node>>

\* crypto.subtle.digest rejects, or no usable nonce was drawn.
HashFails(o) ==
  /\ pc[o] = "hash"
  /\ Throw(o, "hash")
  /\ UNCHANGED <<args, object, signed, serial, proof, edits, attempt, answer,
                 serials, consented, node>>

SignerSignsCopiedClaims(o) ==
  /\ pc[o] = "sign"
  /\ consented' = consented \cup {signed[o]}
  /\ UNCHANGED <<args, object, signed, serial, edits, attempt, answer, serials, node>>
  /\ \/ /\ kind[o] = "credential"
        /\ proof' = [proof EXCEPT ![o] = object[o].value]
        /\ pc' = [pc EXCEPT ![o] = "submit"]
        /\ sent' = sent \cup {Request(o, [object[o] EXCEPT !.value = signed[o].value])}
        /\ UNCHANGED outcome
     \/ /\ proof' = [proof EXCEPT ![o] = None]
        /\ Send(o)

\* The durable proof of addCredential: the claims are read again, and a second
\* signature awaited.
SignProof(o) ==
  /\ kind[o] = "credential"
  /\ \/ /\ Unencodable(o)
        /\ Throw(o, "invalid")
        /\ UNCHANGED proof
     \/ /\ ~Unencodable(o)
        /\ proof' = [proof EXCEPT ![o] = object[o].value]
        /\ pc' = [pc EXCEPT ![o] = "proof"]
        /\ UNCHANGED <<outcome, sent>>

\* signPreimage or signer.sign resolves.  Without signProof, and for the other
\* kinds, the request follows.
SignerSigns(o) ==
  /\ pc[o] = "sign"
  /\ consented' = consented \cup {signed[o]}
  /\ UNCHANGED <<args, object, signed, serial, edits, attempt, answer, serials, node>>
  /\ \/ SignProof(o)
     \/ /\ proof' = [proof EXCEPT ![o] = None]
        /\ Send(o)

ProofSigned(o) ==
  /\ pc[o] = "proof"
  /\ UNCHANGED <<args, object, signed, serial, proof, edits, attempt, answer,
                 serials, consented, node>>
  /\ Send(o)

SignerRefuses(o) ==
  /\ pc[o] \in {"sign", "proof"}
  /\ Throw(o, "signer")
  /\ UNCHANGED <<args, object, signed, serial, proof, edits, attempt, answer,
                 serials, consented, node>>

\* rpc.call resolves, or rejects with the node's refusal.
AnswerArrives(o) ==
  /\ pc[o] = "submit" /\ answer[o] # "none"
  /\ pc' = [pc EXCEPT ![o] = "done"]
  /\ outcome' = [outcome EXCEPT ![o] = answer[o]]
  /\ answer' = [answer EXCEPT ![o] = "none"]
  /\ UNCHANGED <<args, object, signed, serial, proof, edits, attempt, serials,
                 consented, sent, node>>

\* Timeout or broken connection: the request may still be on its way.
SubmitFails(o) ==
  /\ pc[o] = "submit"
  /\ pc' = [pc EXCEPT ![o] = "done"]
  /\ outcome' = [outcome EXCEPT ![o] = "unknown"]
  /\ answer' = [answer EXCEPT ![o] = "none"]
  /\ UNCHANGED <<args, object, signed, serial, proof, edits, attempt, serials,
                 consented, sent, node>>

\* withRetry: another call after a rejection.
Retry(o) ==
  /\ pc[o] = "done" /\ outcome[o] \notin {"applied", "duplicate"}
  /\ Calls < MaxCalls
  /\ pc' = [pc EXCEPT ![o] = "idle"]
  /\ UNCHANGED <<args, object, signed, serial, proof, edits, attempt, outcome,
                 answer, serials, consented, sent, node>>

\* getSettleAuthorizedOutcome after a call that ended without an answer: the
\* recorded outcome of the reference, whoever caused it.
LookUp(o) ==
  /\ pc[o] = "done" /\ outcome[o] = "unknown" /\ kind[o] = "settle"
  /\ ledger[object[o].ref] # None
  /\ outcome' = [outcome EXCEPT ![o] = "duplicate"]
  /\ UNCHANGED <<args, object, pc, signed, serial, proof, edits, attempt, answer,
                 serials, consented, sent, node>>
-----------------------------------------------------------------------------
(***************************************************************************)
(* The application, the network and the node: not in src/.  A request the  *)
(* network loses is one that the node never takes out of sent.             *)
(***************************************************************************)
\* Between two awaits that still read the object, or between two calls.
CallerEdits(o) ==
  /\ kind[o] \in ByReference /\ attempt[o] > 0 /\ edits[o] < MaxEdits
  /\ pc[o] \in {"idle", "hash", "sign", "proof"}
  /\ \E v \in Values \ {object[o].value} :
       object' = [object EXCEPT ![o].value = v]
  /\ edits' = [edits EXCEPT ![o] = @ + 1]
  /\ UNCHANGED <<args, pc, signed, serial, proof, attempt, outcome, answer,
                 serials, consented, sent, node>>

Authentic(r) == r.signed = Preimage(r.kind, r.body)

AnswerOnly(r, a) ==
  /\ sent' = sent \ {r}
  /\ answer' = IF pc[r.op] = "submit" /\ attempt[r.op] = r.attempt
               THEN [answer EXCEPT ![r.op] = a] ELSE answer
  /\ UNCHANGED <<args, object, pc, signed, serial, proof, edits, attempt, outcome,
                 serials, consented>>

\* The signature is checked against the bytes recomputed from the body.
NodeRefuses(r) ==
  /\ ~Authentic(r)
  /\ AnswerOnly(r, "refused")
  /\ UNCHANGED node

\* tenzro_settleAuthorized is idempotent on (appId, externalRef).
NodeSettles(r) ==
  /\ Authentic(r) /\ r.kind = "settle"
  /\ \/ /\ ledger[r.body.ref] = None
        /\ ledger' = [ledger EXCEPT ![r.body.ref] = r.body.value]
        /\ AnswerOnly(r, "applied")
     \/ /\ ledger[r.body.ref] # None
        /\ AnswerOnly(r, "duplicate")
        /\ UNCHANGED ledger
  /\ UNCHANGED <<used, writes>>

\* An envelope counts once: its nonce is remembered.
NodeWrites(r) ==
  /\ Authentic(r) /\ r.kind # "settle"
  /\ \/ /\ r.serial \notin used
        /\ used' = used \cup {r.serial}
        /\ writes' = writes \cup {r}
        /\ AnswerOnly(r, "applied")
     \/ /\ r.serial \in used
        /\ AnswerOnly(r, "replayed")
        /\ UNCHANGED <<used, writes>>
  /\ UNCHANGED ledger
-----------------------------------------------------------------------------
ClientStep(o) ==
  \/ Call(o) \/ HashResolves(o) \/ HashFails(o) \/ SignerSigns(o) \/ ProofSigned(o)
  \/ SignerRefuses(o) \/ AnswerArrives(o) \/ SubmitFails(o) \/ Retry(o)
  \/ LookUp(o)

NodeStep(r) == NodeRefuses(r) \/ NodeSettles(r) \/ NodeWrites(r)

Terminated ==
  /\ \A o \in Ops : pc[o] = "done" \/ (pc[o] = "idle" /\ Calls = MaxCalls)
  /\ UNCHANGED vars

Next ==
  \/ \E o \in Ops : ClientStep(o) \/ CallerEdits(o)
  \/ \E r \in sent : NodeStep(r)
  \/ Terminated

Spec == Init /\ [][Next]_vars
-----------------------------------------------------------------------------
(***************************************************************************)
(* Properties                                                              *)
(***************************************************************************)
Pcs == {"idle", "hash", "sign", "proof", "submit", "done"}
Answers == {"applied", "duplicate", "refused", "replayed"}

TypeOK ==
  /\ kind \in [Ops -> Kinds] /\ presigned \in [Ops -> BOOLEAN]
  /\ object \in [Ops -> Contents]
  /\ pc \in [Ops -> Pcs]
  /\ signed \in [Ops -> Preimages \cup {None}]
  /\ serials \in Nat /\ serial \in [Ops -> 0..serials]
  /\ proof \in [Ops -> Values \cup {None}]
  /\ edits \in [Ops -> 0..MaxEdits] /\ attempt \in [Ops -> 0..MaxCalls]
  /\ outcome \in [Ops -> Answers \cup {"none", "invalid", "hash", "signer", "unknown"}]
  /\ answer \in [Ops -> Answers \cup {"none"}]
  /\ consented \subseteq Preimages
  /\ ledger \in [Refs -> Values \cup {None}]
  /\ used \subseteq 1..serials

\* What the node recorded is what a signer was shown: the request is read from
\* an object that may have changed since, and nothing changed gets through.
AppliedWasSigned ==
  \A w \in writes :
    [domain |-> w.kind, ref |-> w.body.ref, value |-> w.body.value] \in consented

\* The durable proof of a stored credential is over the stored claims, unless
\* the caller changed them and changed them back between the two signatures:
\* one edit never passes unnoticed.
ProofNeedsTwoEdits ==
  \A w \in writes :
    w.kind = "credential" /\ w.proof \notin {None, w.body.value} => w.edits >= 2

\* The arguments may be edited after they were checked and encoded.  Lengths and
\* presence are checked again, so nothing those checks reject is sent; ranges are
\* not, so a number that has no canonical bytes may be sent, but whatever moves
\* money or is written has such bytes: its signature covers the value sent.
InvalidNeverApplied ==
  /\ \A r \in sent \cup writes : r.kind \in Checked => r.body.value \in Acceptable
  /\ \A w \in writes : w.kind \in ByReference => w.body.value \in Encodable
  /\ \A r \in Refs : ledger[r] # None => ledger[r] \in Encodable

\* A pre-signed write is applied at most once however often it is sent again;
\* a write signed anew for each attempt may be applied once per attempt.
AtMostOncePerSignature ==
  \A o \in Ops :
    Cardinality({w \in writes : w.op = o}) <= (IF presigned[o] THEN 1 ELSE attempt[o])

Ledger == INSTANCE SettlementLedger
            WITH authorized <- {<<p.ref, p.value>> : p \in {q \in consented : q.domain = "settle"}},
                 paid <- ledger

\* Settlements keep the promise of SettlementLedger: paid only as signed, once.
ImplementsLedger == Ledger!LedgerSpec
=============================================================================
