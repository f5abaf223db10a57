------------------------------- MODULE TxSubmit -------------------------------
(***************************************************************************)
(* The composite operations that put a transaction of one account on       *)
(* chain:                                                                  *)
(*                                                                         *)
(*   transfer     TenzroClient.sendTransaction, WalletClient.signAndSend   *)
(*   selfCustody  WalletClient.sendSelfCustody                             *)
(*   settlement   SettlementClient.createEscrow, releaseEscrow,            *)
(*                refundEscrow; BondClient.postAgentBond,                  *)
(*                increaseAgentBond, withdrawAgentBond                     *)
(*                                                                         *)
(* Each reads a nonce, then a chain id, then submits, in three separate    *)
(* requests; a transfer or selfCustody call skips the reads whose value    *)
(* its caller pinned.  The operations run concurrently, each request is a  *)
(* promise of RpcPromise (a rejection, a JSON-RPC error included, does not *)
(* say whether the node acted), and the caller wraps each operation in     *)
(* withRetry of QUICKREF.md.                                               *)
(***************************************************************************)
EXTENDS Naturals

CONSTANTS
  Ops,             \* the operations the caller starts on the account
  Kinds,           \* subset of AllKinds the caller uses
  PinChoices,      \* which arguments callers pin: sets of "nonce", "chain"
  NodeChain,       \* the chain id of the node
  MaxAttempts,     \* retries of withRetry
  MaxOthers        \* bound: transactions of the account sent by others

AllKinds == {"transfer", "selfCustody", "settlement"}
DefaultChain == 1337

ASSUME KindsAssumption == Kinds \subseteq AllKinds
ASSUME PinAssumption == PinChoices \subseteq SUBSET {"nonce", "chain"} /\ {} \in PinChoices
ASSUME ChainAssumption == NodeChain \in Nat \ {0}
ASSUME AttemptsAssumption == MaxAttempts \in Nat \ {0}
ASSUME OthersAssumption == MaxOthers \in Nat

VARIABLES
  kind,         \* the operation called
  given,        \* the nonce and chain id its caller pinned (Unset is undefined),
                \* and whether the arguments pass the checks before the first await
  args,         \* version of the caller's params object (to, value, ...)
  pc,           \* where the async method, or withRetry around it, stands
  attempt,      \* iterations of withRetry begun
  nonce, chain, \* the locals nonce and chainId
  toAtCall,     \* args when the attempt began (toBytes in sendSelfCustody)
  hashed,       \* args when the hash to sign was built (amountWei)
  reply,        \* the node's answer to the pending read; NaN is no hex number
  sent,         \* submissions the node has not looked at
  executed,     \* submissions that took effect
  refused,      \* submissions the node refused
  live,         \* the node's next nonce of the account
  others,       \* transactions of the account sent by others
  floor,        \* history: live when the attempt began
  faults,       \* history: reads of the attempt that brought no number
  doubted       \* history: attempts whose submission was rejected or unanswered

inputs == <<kind, given>>
locals == <<attempt, nonce, chain, toAtCall, hashed>>
node == <<executed, refused, live, others>>
history == <<floor, faults, doubted>>
vars == <<inputs, args, pc, locals, reply, sent, node, history>>

Unset == 0 - 1

\* What parseInt makes of an answer that is no number; JSON writes it as null.
NaN == 0 - 2

Busy == {"nonce", "chain", "sign", "submit"}
Ended == {"returned", "threw"}
Pcs == Busy \cup Ended \cup {"idle", "backoff"}

\* The account is fresh (nonce 0) or has been used; callers pin the chain id of
\* the node, and the next nonce or the one after it.
Init ==
  /\ live \in 0..1
  /\ kind \in [Ops -> Kinds]
  /\ \E pin \in [Ops -> PinChoices], n \in [Ops -> live..(live + 1)],
        ok \in [Ops -> BOOLEAN] :
       /\ \A o \in Ops : kind[o] = "settlement" => pin[o] = {}
       /\ \A o \in Ops : kind[o] = "transfer" => ok[o]
       /\ given = [o \in Ops |->
                     [nonce |-> IF "nonce" \in pin[o] THEN n[o] ELSE Unset,
                      chain |-> IF "chain" \in pin[o] THEN NodeChain ELSE Unset,
                      valid |-> ok[o]]]
  /\ args = [o \in Ops |-> 0]
  /\ pc = [o \in Ops |-> "idle"]
  /\ attempt = [o \in Ops |-> 0]
  /\ nonce = [o \in Ops |-> Unset]
  /\ chain = [o \in Ops |-> Unset]
  /\ toAtCall = [o \in Ops |-> 0]
  /\ hashed = [o \in Ops |-> 0]
  /\ reply = [o \in Ops |-> Unset]
  /\ sent = {}
  /\ executed = {}
  /\ refused = {}
  /\ others = 0
  /\ floor = [o \in Ops |-> live]
  /\ faults = [o \in Ops |-> {}]
  /\ doubted = [o \in Ops |-> {}]
-----------------------------------------------------------------------------
(***************************************************************************)
(* The SDK                                                                 *)
(***************************************************************************)

\* transfer builds its request from params after the last read; selfCustody
\* decoded the recipient before the first; settlement got plain arguments.
Recipient(o, to) == IF kind[o] = "transfer" THEN args[o] ELSE to

\* transfer and selfCustody read the amount when they build the request.
Amount(o, to) == IF kind[o] = "settlement" THEN to ELSE args[o]

\* The request, and the amount that its signature covers: selfCustody signed
\* before it built the request; the node signs the others as they arrive.
Tx(o, k, n, c, to) ==
  [op |-> o, attempt |-> k, nonce |-> n, chain |-> c,
   to |-> Recipient(o, to), amount |-> Amount(o, to),
   signed |-> IF kind[o] = "selfCustody" THEN hashed[o] ELSE Amount(o, to)]

\* The locals of the call are gone.
Leave(o) ==
  /\ nonce' = [nonce EXCEPT ![o] = Unset]
  /\ chain' = [chain EXCEPT ![o] = Unset]
  /\ reply' = [reply EXCEPT ![o] = Unset]
  /\ hashed' = [hashed EXCEPT ![o] = 0]

RejectOneMore(o, k) ==
  /\ pc' = [pc EXCEPT ![o] = IF k <= MaxAttempts THEN "backoff" ELSE "threw"]
  /\ Leave(o)

\* Attempt k of the operation rejects: withRetry sleeps, or rethrows after its
\* last attempt.
Reject(o, k) ==
  /\ pc' = [pc EXCEPT ![o] = IF k < MaxAttempts THEN "backoff" ELSE "threw"]
  /\ Leave(o)

(***************************************************************************)
(* The code between two awaits, once the locals are n and c: the next read *)
(* whose value is still undefined, else the hash for the signer, else the  *)
(* submission.  BigInt(NaN) throws in transferTxHash; nothing stops a NaN  *)
(* that is not hashed.                                                     *)
(***************************************************************************)
Proceed(o, k, n, c, to) ==
  \/ /\ kind[o] = "selfCustody" /\ Unset \notin {n, c} /\ NaN \in {n, c}
     /\ Reject(o, k)
     /\ UNCHANGED sent
  \/ /\ ~(kind[o] = "selfCustody" /\ Unset \notin {n, c} /\ NaN \in {n, c})
     /\ nonce' = [nonce EXCEPT ![o] = n]
     /\ chain' = [chain EXCEPT ![o] = c]
     /\ reply' = [reply EXCEPT ![o] = Unset]
     /\ \/ /\ n = Unset
           /\ pc' = [pc EXCEPT ![o] = "nonce"]
           /\ UNCHANGED <<sent, hashed>>
        \/ /\ n # Unset /\ c = Unset
           /\ pc' = [pc EXCEPT ![o] = "chain"]
           /\ UNCHANGED <<sent, hashed>>
        \/ /\ Unset \notin {n, c} /\ kind[o] = "selfCustody"
           /\ pc' = [pc EXCEPT ![o] = "sign"]
           /\ hashed' = [hashed EXCEPT ![o] = args[o]]
           /\ UNCHANGED sent
        \/ /\ Unset \notin {n, c} /\ kind[o] # "selfCustody"
           /\ pc' = [pc EXCEPT ![o] = "submit"]
           /\ sent' = sent \cup {Tx(o, k, n, c, to)}
           /\ UNCHANGED hashed

AttemptReadingAnyway(o) ==
  /\ attempt' = [attempt EXCEPT ![o] = @ + 1]
  /\ toAtCall' = [toAtCall EXCEPT ![o] = args[o]]
  /\ floor' = [floor EXCEPT ![o] = live]
  /\ faults' = [faults EXCEPT ![o] = {}]
  /\ Proceed(o, attempt[o] + 1, Unset, given[o].chain, args[o])
  /\ UNCHANGED <<inputs, args, node, doubted>>

AttemptUncounted(o) ==
  /\ attempt' = [attempt EXCEPT ![o] = 1]
  /\ toAtCall' = [toAtCall EXCEPT ![o] = args[o]]
  /\ floor' = [floor EXCEPT ![o] = live]
  /\ faults' = [faults EXCEPT ![o] = {}]
  /\ Proceed(o, 1, given[o].nonce, given[o].chain, args[o])
  /\ UNCHANGED <<inputs, args, node, doubted>>

\* One call of the operation: everything before its first await.  A recipient,
\* a public key, a release condition or an escrow id that is not acceptable
\* throws there.
Attempt(o) ==
  /\ attempt' = [attempt EXCEPT ![o] = @ + 1]
  /\ toAtCall' = [toAtCall EXCEPT ![o] = args[o]]
  /\ floor' = [floor EXCEPT ![o] = live]
  /\ faults' = [faults EXCEPT ![o] = {}]
  /\ \/ /\ given[o].valid
        /\ Proceed(o, attempt[o] + 1, given[o].nonce, given[o].chain, args[o])
     \/ /\ ~given[o].valid
        /\ Reject(o, attempt[o] + 1)
        /\ UNCHANGED sent
  /\ UNCHANGED <<inputs, args, node, doubted>>

Begin(o) == pc[o] = "idle" /\ Attempt(o)

\* withRetry, after its sleep, calls the operation again with the same arguments.
Retry(o) == pc[o] = "backoff" /\ Attempt(o)

\* The pending await rejects, and with it the operation.
Throw(o) ==
  /\ Reject(o, attempt[o])
  /\ UNCHANGED <<inputs, args, attempt, toAtCall, node, floor, faults>>

Continue(o, n, c) ==
  /\ Proceed(o, attempt[o], n, c, toAtCall[o])
  /\ UNCHANGED <<inputs, args, attempt, toAtCall, node, floor, doubted>>

\* parseInt(hex, 16), followed in fetchNonceAndChainId by || default.
Parsed(o, hex, default) == IF kind[o] = "settlement" /\ hex = NaN THEN default ELSE hex

Fault(o, read) == faults' = [faults EXCEPT ![o] = @ \cup {read}]

\* await rpc.call("tenzro_getNonce" or "eth_getTransactionCount") resolves.
NonceRead(o) ==
  /\ pc[o] = "nonce" /\ reply[o] # Unset
  /\ Continue(o, Parsed(o, reply[o], 0), chain[o])
  /\ IF reply[o] = NaN THEN Fault(o, "nonce") ELSE UNCHANGED faults

NonceFailsToZero(o) ==
  /\ pc[o] = "nonce"
  /\ Continue(o, 0, chain[o]) /\ Fault(o, "nonce")

\* ... or rejects: fetchNonceAndChainId swallows it and goes on with nonce 0.
\* (An answer that is not a string does the same: it has no replace, or no
\* startsWith in parseHex.)
NonceFails(o) ==
  /\ pc[o] = "nonce"
  /\ IF kind[o] = "settlement"
     THEN Continue(o, 0, chain[o]) /\ Fault(o, "nonce")
     ELSE Throw(o) /\ UNCHANGED <<sent, doubted>>

\* await rpc.call("eth_chainId") resolves.
ChainRead(o) ==
  /\ pc[o] = "chain" /\ reply[o] # Unset
  /\ Continue(o, nonce[o], Parsed(o, reply[o], DefaultChain))
  /\ IF reply[o] = NaN THEN Fault(o, "chain") ELSE UNCHANGED faults

\* ... or rejects: fetchNonceAndChainId goes on with 1337.
ChainFails(o) ==
  /\ pc[o] = "chain"
  /\ IF kind[o] = "settlement"
     THEN Continue(o, nonce[o], DefaultChain) /\ Fault(o, "chain")
     ELSE Throw(o) /\ UNCHANGED <<sent, doubted>>

SignedLateRecipient(o) ==
  /\ pc[o] = "sign"
  /\ pc' = [pc EXCEPT ![o] = "submit"]
  /\ sent' = sent \cup {Tx(o, attempt[o], nonce[o], chain[o], args[o])}
  /\ UNCHANGED <<inputs, args, locals, reply, node, history>>

\* The hash and signer.signHybrid(hash) resolve, and the transaction is
\* submitted: with the decoded recipient, but with args.value read again.
Signed(o) ==
  /\ pc[o] = "sign"
  /\ pc' = [pc EXCEPT ![o] = "submit"]
  /\ sent' = sent \cup {Tx(o, attempt[o], nonce[o], chain[o], toAtCall[o])}
  /\ UNCHANGED <<inputs, args, locals, reply, node, history>>

SignFailsAfterSend(o) ==
  /\ pc[o] = "sign"
  /\ sent' = sent \cup {Tx(o, attempt[o], nonce[o], chain[o], toAtCall[o])}
  /\ Throw(o) /\ UNCHANGED doubted

\* The hash or the signer rejects: nothing has been sent.
SignFails(o) ==
  /\ pc[o] = "sign"
  /\ Throw(o) /\ UNCHANGED <<sent, doubted>>

Mine(o, t) == t.op = o /\ t.attempt = attempt[o]

\* The node's hash comes back.
Submitted(o) ==
  /\ pc[o] = "submit" /\ \E t \in executed : Mine(o, t)
  /\ pc' = [pc EXCEPT ![o] = "returned"]
  /\ Leave(o)
  /\ UNCHANGED <<inputs, args, attempt, toAtCall, sent, node, history>>

\* A JSON-RPC error, timeout, connection error, HTTP error or unreadable body:
\* the submission may have been executed, may still be, or never will.
SubmitFails(o) ==
  /\ pc[o] = "submit"
  /\ doubted' = [doubted EXCEPT ![o] = @ \cup {attempt[o]}]
  /\ Throw(o) /\ UNCHANGED sent
-----------------------------------------------------------------------------
(***************************************************************************)
(* The caller's code and the node                                          *)
(***************************************************************************)

\* The caller reuses its params object while an operation on it is pending.
CallerEdits(o) ==
  /\ pc[o] \in Busy /\ args[o] = 0
  /\ args' = [args EXCEPT ![o] = 1]
  /\ UNCHANGED <<inputs, pc, locals, reply, sent, node, history>>

\* The node answers the pending read from its state of this moment, or with
\* something that is not a hex number.
NodeReads(o) ==
  /\ pc[o] \in {"nonce", "chain"} /\ reply[o] = Unset
  /\ \E r \in {IF pc[o] = "nonce" THEN live ELSE NodeChain, NaN} :
       reply' = [reply EXCEPT ![o] = r]
  /\ UNCHANGED <<inputs, args, pc, locals, sent, node, history>>

\* A submission in order, signed for what it says.  Whether a null is taken for
\* an omitted number is the node's business.
NodeExecutes(t) ==
  /\ t.nonce \in {live, NaN} /\ t.chain \in {NodeChain, NaN}
  /\ t.signed = t.amount
  /\ sent' = sent \ {t}
  /\ executed' = executed \cup {t}
  /\ live' = live + 1
  /\ UNCHANGED <<inputs, args, pc, locals, reply, refused, others, history>>

\* A wrong nonce, chain id or signature, or a reason of the node's own.
NodeRefuses(t) ==
  /\ sent' = sent \ {t}
  /\ refused' = refused \cup {t}
  /\ UNCHANGED <<inputs, args, pc, locals, reply, executed, live, others, history>>

\* Another process or device sends a transaction of the same account.
OtherSends ==
  /\ others < MaxOthers
  /\ others' = others + 1
  /\ live' = live + 1
  /\ UNCHANGED <<inputs, args, pc, locals, reply, sent, executed, refused, history>>
-----------------------------------------------------------------------------
\* What the runtime and the transport bring about; the rest may never happen.
Answered(o) == NonceRead(o) \/ ChainRead(o) \/ Submitted(o)
Unanswered(o) == NonceFails(o) \/ ChainFails(o) \/ SubmitFails(o)
Signs(o) == Signed(o) \/ SignFails(o)

Sdk(o) == Begin(o) \/ Retry(o) \/ Answered(o) \/ Unanswered(o) \/ Signs(o)

Node ==
  \/ \E o \in Ops : NodeReads(o)
  \/ \E t \in sent : NodeExecutes(t) \/ NodeRefuses(t)
  \/ OtherSends

Terminated == (\A o \in Ops : pc[o] \in Ended) /\ UNCHANGED vars

Next == (\E o \in Ops : Sdk(o) \/ CallerEdits(o)) \/ Node \/ Terminated

Spec == Init /\ [][Next]_vars

\* Every request settles within its timeout (EveryFetchSettles of RpcClient)
\* and withRetry's sleep ends.  Nothing is assumed of the signer or the node.
FairSpec ==
  Spec /\ \A o \in Ops : WF_vars(Answered(o) \/ Unanswered(o)) /\ WF_vars(Retry(o))
-----------------------------------------------------------------------------
(***************************************************************************)
(* Properties                                                              *)
(***************************************************************************)
Txs == sent \cup executed \cup refused

PinnedNonce(o) == given[o].nonce # Unset
PinnedChain(o) == given[o].chain # Unset

TxType ==
  [op : Ops, attempt : 1..MaxAttempts, nonce : Nat \cup {NaN}, chain : Nat \cup {NaN},
   to : 0..1, amount : 0..1, signed : 0..1]

\* Types, and the bound of the retry loop.
TypeOK ==
  /\ kind \in [Ops -> Kinds]
  /\ given \in [Ops -> [nonce : Nat \cup {Unset}, chain : {NodeChain, Unset},
                        valid : BOOLEAN]]
  /\ args \in [Ops -> 0..1]
  /\ pc \in [Ops -> Pcs]
  /\ attempt \in [Ops -> 0..MaxAttempts]
  /\ nonce \in [Ops -> Nat \cup {Unset, NaN}]
  /\ chain \in [Ops -> Nat \cup {Unset, NaN}]
  /\ toAtCall \in [Ops -> 0..1]
  /\ hashed \in [Ops -> 0..1]
  /\ reply \in [Ops -> Nat \cup {Unset, NaN}]
  /\ Txs \subseteq TxType
  /\ live \in Nat
  /\ others \in 0..MaxOthers
  /\ floor \in [Ops -> Nat]
  /\ faults \in [Ops -> SUBSET {"nonce", "chain"}]
  /\ doubted \in [Ops -> SUBSET (1..MaxAttempts)]

\* An operation whose caller pinned the nonce pays at most once, however often
\* it is retried after requests that timed out but were executed all the same.
PinnedPaysOnce ==
  \A t, u \in executed : t.op = u.op /\ PinnedNonce(t.op) => t = u

\* The value an attempt puts in its submission without a number from the node.
Substitute(o, default) == IF kind[o] = "settlement" THEN default ELSE NaN

NonceOfAttempt(o, n) ==
  \/ floor[o] <= n /\ n <= live
  \/ "nonce" \in faults[o] /\ n = Substitute(o, 0)

ChainOfAttempt(o, c) ==
  \/ c = NodeChain
  \/ "chain" \in faults[o] /\ c = Substitute(o, DefaultChain)

\* A submission carries what its caller pinned or what the node reported during
\* its own attempt: a nonce that was live since the attempt began, the node's
\* chain id.  Only a read of that attempt that brought no number makes it carry
\* something else, and then the default of fetchNonceAndChainId, or null.
CarriesObserved ==
  \A t \in Txs :
    /\ PinnedNonce(t.op) => t.nonce = given[t.op].nonce
    /\ PinnedChain(t.op) => t.chain = given[t.op].chain
    /\ t.attempt = attempt[t.op] =>
         /\ ~PinnedNonce(t.op) => NonceOfAttempt(t.op, t.nonce)
         /\ ChainOfAttempt(t.op, t.chain)

\* sendSelfCustody pays the recipient of the moment it was called, even when
\* the caller changes its params object during the reads or the signature; a
\* transfer does so if both reads are skipped.
PaysRecipientOfCall ==
  \A t \in Txs :
    /\ t.attempt = attempt[t.op]
    /\ kind[t.op] = "transfer" => PinnedNonce(t.op) /\ PinnedChain(t.op)
    => t.to = toAtCall[t.op]

\* What an operation paid, or may still pay, is accounted for: by the attempt
\* whose hash the caller has or waits for, or by attempts whose submission the
\* caller saw rejected.  A failure of a read, of the hash or of the signer, and
\* a throw before the first await, cost nothing.
PaymentsAccounted ==
  /\ \A t \in sent \cup executed :
       \/ t.attempt \in doubted[t.op]
       \/ pc[t.op] \in {"submit", "returned"} /\ t.attempt = attempt[t.op]
  /\ \A o \in Ops : pc[o] = "returned" => \E t \in executed : Mine(o, t)

\* Every operation that does not wait for a signer returns or throws in the end,
\* although each of its requests may go unanswered.
EveryOperationEnds ==
  \A o \in Ops :
    pc[o] \in Busy /\ kind[o] # "selfCustody" ~> pc[o] \in Ended
=============================================================================
