------------------------------ MODULE AuthSessions -----------------------------
(***************************************************************************)
(* Sessions, proofs and approvals: src/auth.ts, src/dpop.ts, the ambient   *)
(* credentials of RpcClient.call and signAndSend of src/wallet.ts.         *)
(*                                                                         *)
(* An application onboards identities and holds their tokens; it exports   *)
(* one token and one proof through the environment, which call() reads     *)
(* again for each request it sends.  Requests travel; the node (external)  *)
(* handles them in any order, and answers may be lost.                     *)
(***************************************************************************)
EXTENDS Naturals, Sequences, FiniteSets, Functions

CONSTANTS
  Dids, NoDid,
  Controller,        \* controller_did of each identity, NoDid for a human
  Recipients,        \* what the transfers differ in
  MaxTokens, MaxProofs, MaxApprovals, MaxTransfers,   \* bounds
  MaxCalls           \* bound: requests under way

DidsAssumption == NoDid \notin Dids /\ Controller \in [Dids -> Dids \cup {NoDid}]
CountsAssumption ==
  {MaxTokens, MaxProofs, MaxApprovals, MaxTransfers, MaxCalls} \subseteq Nat

VARIABLES
  proof,       \* TENZRO_DPOP_PROOF, 0 when unset; exported with its token
  proofs,      \* minted proofs: the token named by ath
  transfer,    \* signAndSend: its step, arguments and approval id
  transfers,   \* number of calls of signAndSend
  calls,       \* requests under way
  identity,    \* node: state of each DID
  tokens,      \* node: subject, act-chain and parent tokens of each token
  dead,        \* node: revoked or expired tokens
  seen,        \* node: jti replay cache
  approvals    \* node: requester, recipient and status of each approval

application == <<proof, proofs, transfer, transfers>>
engine == <<identity, tokens, dead, seen, approvals>>
vars == <<application, calls, engine>>

Init ==
  /\ proof = 0 /\ proofs = <<>>
  /\ transfer = [step |-> "idle", to |-> CHOOSE r \in Recipients : TRUE, approval |-> 0]
  /\ transfers = 0 /\ calls = {}
  /\ identity = [d \in Dids |-> "unknown"]
  /\ tokens = <<>> /\ dead = {} /\ seen = {} /\ approvals = <<>>
-----------------------------------------------------------------------------
(***************************************************************************)
(* The application and the client                                          *)
(***************************************************************************)
\* TENZRO_BEARER_JWT.
Bearer == IF proof = 0 THEN 0 ELSE proofs[proof]

\* call(): the headers are the environment's at this moment.
SendRequest(method, did, token, step) ==
  /\ Cardinality(calls) < MaxCalls
  /\ calls' = calls \cup
       {[method |-> method, did |-> did, subject |-> token, bearer |-> Bearer, proof |-> proof,
         to |-> transfer.to, approval |-> transfer.approval, step |-> step]}
  /\ UNCHANGED engine

\* The three onboarding calls; linkWalletForAuth and linkIdentityForAuth.
Onboard(d) ==
  /\ \E method \in {"onboard", "link"} : SendRequest(method, d, 0, "only")
  /\ UNCHANGED application

\* refreshToken, exchangeToken, revokeJwt for a token that is held.
WithToken(t) ==
  /\ \/ SendRequest("refresh", tokens[t].sub, t, "only")
     \/ \E d \in Dids : SendRequest("exchange", d, t, "only")
     \/ SendRequest("revokeJwt", tokens[t].sub, t, "only")
  /\ UNCHANGED application

\* revokeDid, and forgetIdentity for an identity that was revoked.
RevokeOrForget(d) ==
  /\ \E method \in {"revokeDid", "forget"} : SendRequest(method, d, 0, "only")
  /\ UNCHANGED application

MintProofUnbound(t) ==
  /\ Len(proofs) < MaxProofs
  /\ proofs' = Append(proofs, 0)
  /\ proof' = Len(proofs) + 1
  /\ UNCHANGED <<transfer, transfers, calls, engine>>

\* mintDpopProof for the token the application is about to export with it; jti is
\* random, ath the hash of the token.
MintProof(t) ==
  /\ Len(proofs) < MaxProofs
  /\ proofs' = Append(proofs, t)
  /\ proof' = Len(proofs) + 1
  /\ UNCHANGED <<transfer, transfers, calls, engine>>

\* signAndSend: a first call, or the repetition with an approval id.
Transfer(to, a) ==
  /\ transfer.step = "idle" /\ transfers < MaxTransfers /\ proof # 0
  /\ a \in 0..Len(approvals)
  /\ transfers' = transfers + 1
  /\ transfer' = [step |-> "nonce", to |-> to, approval |-> a]
  /\ UNCHANGED <<proof, proofs, calls, engine>>

StepAfter == [nonce |-> "chain", chain |-> "send", send |-> "idle"]

\* The next of its three requests; each is awaited before the next is sent.
TransferRequest ==
  /\ transfer.step # "idle" /\ \A m \in calls : m.method # "transfer"
  /\ SendRequest("transfer", tokens[Bearer].sub, Bearer, transfer.step)
  /\ transfer' = [transfer EXCEPT !.step = StepAfter[@]]
  /\ UNCHANGED <<proof, proofs, transfers>>

\* A read that was refused or given up: signAndSend throws.
TransferThrows ==
  /\ transfer.step \in {"chain", "send"}
  /\ transfer' = [transfer EXCEPT !.step = "idle"]
  /\ UNCHANGED <<proof, proofs, transfers, calls, engine>>

\* An approver who was asked: decideApproval.
Decide(a, verdict) ==
  /\ approvals[a].status = "Pending"
  /\ approvals' = [approvals EXCEPT ![a].status = verdict]
  /\ UNCHANGED <<application, calls, identity, tokens, dead, seen>>
-----------------------------------------------------------------------------
(***************************************************************************)
(* The node                                                                *)
(***************************************************************************)
\* A DID and those it descends from: its controller, that one's, and so on.
Closed(S) == \A c \in S : Controller[c] \in S \cup {NoDid}
Chain(d) == {c \in Dids : \A S \in SUBSET Dids : d \in S /\ Closed(S) => c \in S}

Live(t) == t \in 1..Len(tokens) /\ t \notin dead

\* A token, with the DIDs it speaks for and the tokens it was exchanged from.
\* One whose answer is lost is one that nobody uses.
Mint(d, parents) ==
  /\ Len(tokens) < MaxTokens
  /\ tokens' = Append(tokens,
       [sub |-> d, from |-> parents \cup UNION {tokens[t].from : t \in parents},
        chain |-> Chain(d) \cup UNION {tokens[t].chain : t \in parents}])
  /\ UNCHANGED <<application, dead, seen, approvals>>

Standing(d) == \A c \in Chain(d) : identity[c] = "active"

NodeOnboards(m) ==
  /\ \/ /\ m.method = "onboard" /\ identity[m.did] = "unknown"
        /\ \A c \in Chain(m.did) \ {m.did} : identity[c] = "active"
     \/ m.method = "link" /\ Standing(m.did)
  /\ identity' = [identity EXCEPT ![m.did] = "active"]
  /\ Mint(m.did, {})

\* A refresh token lasts 30 days, whatever became of the access token: what
\* counts is the identity.
NodeRefreshes(m) ==
  /\ m.method = "refresh" /\ Standing(m.did)
  /\ Mint(m.did, {}) /\ UNCHANGED identity

\* The child speaks for itself and for the parent's chain.
NodeExchanges(m) ==
  /\ m.method = "exchange" /\ Live(m.subject) /\ Standing(m.did)
  /\ Mint(m.did, {m.subject}) /\ UNCHANGED identity

Unserved == UNCHANGED <<application, tokens, seen, approvals>>

\* A revoked DID invalidates every token whose chain names it, a revoked token
\* those that were exchanged from it.
NodeRevokes(m) ==
  /\ \/ /\ m.method = "revokeDid" /\ identity[m.did] = "active"
        /\ identity' = [identity EXCEPT ![m.did] = "revoked"]
        /\ dead' = dead \cup {t \in 1..Len(tokens) : m.did \in tokens[t].chain}
     \/ /\ m.method = "revokeJwt"
        /\ dead' = dead \cup {m.subject} \cup {t \in 1..Len(tokens) : m.subject \in tokens[t].from}
        /\ UNCHANGED identity
     \/ /\ m.method = "forget" /\ identity[m.did] = "revoked"
        /\ identity' = [identity EXCEPT ![m.did] = "erased"] /\ UNCHANGED dead
  /\ Unserved

Authenticated(m) ==
  /\ Live(m.bearer)
  /\ m.proof # 0 /\ proofs[m.proof] = m.bearer /\ m.proof \notin seen

\* Reads may or may not be authenticated; a transfer is.  On the always-ask
\* list it is recorded for approval (-32002) unless an approved id comes with it.
NodeTransfers(m) ==
  /\ m.method = "transfer" /\ Authenticated(m)
  /\ seen' \in {seen \cup {m.proof}} \cup (IF m.step = "send" THEN {} ELSE {seen})
  /\ IF m.step = "send" /\ m.approval = 0 /\ Len(approvals) < MaxApprovals
     THEN approvals' = Append(approvals, [did |-> tokens[m.bearer].sub, to |-> m.to,
                                          status |-> "Pending"])
     ELSE UNCHANGED approvals
  /\ UNCHANGED <<application, identity, tokens, dead>>

\* Refused, or lost on the way.
NodeDrops(m) == UNCHANGED <<application, engine>>

NodeHandles(m) ==
  /\ calls' = calls \ {m}
  /\ \/ NodeOnboards(m) \/ NodeRefreshes(m) \/ NodeExchanges(m) \/ NodeRevokes(m)
     \/ NodeTransfers(m) \/ NodeDrops(m)

\* One hour for a token; an approval expires on the next read.
Expires ==
  /\ \/ \E t \in 1..Len(tokens) : t \notin dead /\ dead' = dead \cup {t} /\ UNCHANGED approvals
     \/ \E a \in DOMAIN approvals :
          /\ approvals[a].status = "Pending"
          /\ approvals' = [approvals EXCEPT ![a].status = "Expired"] /\ UNCHANGED dead
  /\ UNCHANGED <<application, calls, identity, tokens, seen>>
-----------------------------------------------------------------------------
Next ==
  \/ \E d \in Dids : Onboard(d) \/ RevokeOrForget(d)
  \/ \E t \in 1..Len(tokens) : WithToken(t) \/ MintProof(t)
  \/ \E r \in Recipients, a \in 0..MaxApprovals : Transfer(r, a)
  \/ TransferRequest \/ TransferThrows
  \/ \E a \in DOMAIN approvals, v \in {"Approved", "Denied"} : Decide(a, v)
  \/ \E m \in calls : NodeHandles(m)
  \/ Expires

Spec == Init /\ [][Next]_vars
-----------------------------------------------------------------------------
TypeOK ==
  /\ Len(tokens) <= MaxTokens /\ proof \in 0..Len(proofs)
  /\ \A i \in DOMAIN proofs : proofs[i] \in 1..Len(tokens)
  /\ dead \subseteq 1..Len(tokens)
  /\ identity \in [Dids -> {"unknown", "active", "revoked", "erased"}]

\* No request of a transfer carries a proof that the node has taken before
\* (dpop.ts: "a fresh DPoP: <proof> header on every request"; rpc.ts: the
\* application exports "the token + per-call DPoP proof").
FreshProofPerRequest ==
  [][\A m \in calls' \ calls : m.method = "transfer" => m.proof \notin seen]_vars
=============================================================================
