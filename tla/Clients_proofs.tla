----------------------------- MODULE Clients_proofs ----------------------------
(***************************************************************************)
(* The clients that keep state, and a caller of those that keep none, for  *)
(* any number of sessions, identities, tokens and requests.                *)
(*                                                                         *)
(* Provisioning: what an answer says is so when it arrives, because the    *)
(* invariant says it of answers under way: a share is live only if its     *)
(* confirmation was awaited, was taken, or was given up.                   *)
(* Authentication: types only, which the node's answers rest on.           *)
(* Single requests: a request that was handled is never handled again, so  *)
(* its answer accounts for all that it made; and a call is repeated only   *)
(* while no request of it is confirmed.                                    *)
(***************************************************************************)
EXTENDS MCClients, Wallets_proofs

(***************************************************************************)
(* Provisioning                                                            *)
(***************************************************************************)
\* Requests have different ids, and an answer one of them.
Numbered ==
  /\ \A m, n \in wire : m.id = n.id => m = n
  /\ \A m \in wire : m.id <= request

\* Every message is about a session, save start until it succeeds.
Addressed ==
  \A m \in wire : m.method # "start" \/ m.status = "ok" => m.session \in Sessions

\* A confirm is about a session whose share is held; it is the awaited one and
\* about mine, or was given up.
Confirming ==
  \A m \in wire : m.method = "confirm" =>
    /\ m.session \in share
    /\ m.status = "ok" => session[m.session] = "live"
    /\ m.id = waiting => m.session = mine /\ stage \in {"finalized", "unknown"}
    /\ m.id # waiting => m.session \in unsure

\* The answer that s is live is on its way and awaited.
Awaited(s) ==
  \E m \in wire : m.id = waiting /\ m.method = "confirm" /\ m.status = "ok" /\ m.session = s

\* A session that is live was confirmed, and the application was told, will be
\* told or gave up.
LiveBecause ==
  \A s \in Sessions : session[s] = "live" =>
    s \in share /\ (s \in unsure \/ (stage = "confirmed" /\ mine = s) \/ Awaited(s))

\* A confirmation that resolved is the last call; what was cancelled is a session.
Settled ==
  /\ stage = "confirmed" => waiting = 0 /\ mine \in Sessions /\ session[mine] = "live"
  /\ stage = "cancelled" => mine \in Sessions

ProvisioningInv ==
  P!TypeOK /\ Numbered /\ Addressed /\ Confirming /\ LiveBecause /\ Settled

LEMMA ProvisioningInit == P!Init => ProvisioningInv
  BY ProvisioningAssumption
     DEF P!Init, ProvisioningInv, P!TypeOK, P!Stages, P!SessionStates, P!RequestsAssumption,
         Numbered, Addressed, Confirming, LiveBecause, Settled

\* The types, spelled out for the messages.
LEMMA WireTyped ==
  ASSUME P!TypeOK, NEW m \in wire
  PROVE  /\ m.id \in Nat /\ m.id # 0 /\ m.method \in P!Methods
         /\ m.session \in Sessions \cup {NoSession} /\ m.status \in {"sent", "ok", "error"}
         /\ m = [id |-> m.id, method |-> m.method, session |-> m.session, status |-> m.status]
         /\ request \in Nat /\ waiting \in Nat /\ waiting <= request /\ MaxRequests \in Nat
  BY ProvisioningAssumption DEF P!TypeOK, P!Message, P!RequestsAssumption

\* start, finalize, confirm and cancel send one request and await it.
LEMMA PostKeepsProvisioning ==
  ASSUME ProvisioningInv, NEW method \in P!Methods, P!Post(method),
         method # "start" => mine \in Sessions,
         method = "confirm" => mine \in share /\ stage \in {"finalized", "unknown"},
         stage # "confirmed"
  PROVE  ProvisioningInv'
<1>0. PICK r : r = [id |-> request + 1, method |-> method, session |-> mine, status |-> "sent"]
  OBVIOUS
<1>1. /\ waiting = 0 /\ request < MaxRequests /\ request' = request + 1 /\ waiting' = request + 1
      /\ wire' = wire \cup {r} /\ UNCHANGED <<mine, stage, share, unsure, session>>
  BY <1>0 DEF P!Post
<1>2. /\ P!TypeOK /\ Numbered /\ Addressed /\ Confirming /\ LiveBecause /\ Settled
      /\ request \in Nat /\ MaxRequests \in Nat
  BY ProvisioningAssumption DEF ProvisioningInv, P!TypeOK, P!RequestsAssumption
<1>3. /\ r.id = request + 1 /\ r.method = method /\ r.session = mine /\ r.status = "sent"
      /\ r \in P!Message
  BY <1>0, <1>1, <1>2 DEF P!Message, P!TypeOK
<1>4. \A m \in wire : m.id \in Nat /\ m.id # 0 /\ m.id <= request
  BY <1>2, WireTyped DEF Numbered
<1>5. P!TypeOK'
  BY <1>1, <1>2, <1>3 DEF P!TypeOK
<1>6. Numbered' /\ Addressed'
  BY <1>1, <1>2, <1>3, <1>4 DEF Numbered, Addressed
<1>7. Confirming'
  BY <1>1, <1>2, <1>3, <1>4 DEF Confirming
<1>8. LiveBecause'
  BY <1>1, <1>2, <1>4 DEF LiveBecause, Awaited
<1>9. Settled'
  BY <1>1, <1>2 DEF Settled
<1> QED BY <1>5, <1>6, <1>7, <1>8, <1>9 DEF ProvisioningInv

\* A promise settles, or an answer comes that nobody awaits.
LEMMA AnsweredKeepsProvisioning ==
  ASSUME ProvisioningInv, NEW m \in wire, P!Answered(m)
  PROVE  ProvisioningInv'
<1>1. /\ m.status # "sent" /\ wire' = wire \ {m}
      /\ waiting' = (IF waiting = m.id THEN 0 ELSE waiting)
      /\ UNCHANGED <<unsure, request, session>>
  BY DEF P!Answered
<1>2. /\ P!TypeOK /\ Numbered /\ Addressed /\ Confirming /\ LiveBecause /\ Settled
  BY DEF ProvisioningInv
<1>3. /\ m.id \in Nat /\ m.id # 0 /\ m.method \in P!Methods /\ request \in Nat /\ waiting \in Nat
      /\ waiting <= request /\ m.status \in {"sent", "ok", "error"}
  BY <1>2, WireTyped
<1>4. Numbered' /\ Addressed'
  BY <1>1, <1>2 DEF Numbered, Addressed
<1>5. \A n \in wire' : n.id \in Nat /\ n.id # 0 /\ n # m /\ n \in wire /\ n.id # m.id
  BY <1>1, <1>2, WireTyped DEF Numbered
<1>6. CASE waiting # m.id \/ m.status # "ok"
  <2>1. UNCHANGED <<mine, stage, share>>
    BY <1>6 DEF P!Answered
  <2>2. P!TypeOK'
    BY <1>1, <1>2, <1>3, <2>1 DEF P!TypeOK
  <2>3. Confirming'
    BY <1>1, <1>2, <1>3, <1>5, <2>1 DEF Confirming
  <2>4. LiveBecause'
    BY <1>1, <1>2, <1>3, <1>5, <1>6, <2>1 DEF LiveBecause, Awaited, Numbered
  <2>5. Settled'
    BY <1>1, <1>2, <1>3, <2>1 DEF Settled
  <2> QED BY <1>4, <2>2, <2>3, <2>4, <2>5 DEF ProvisioningInv
<1>7. CASE waiting = m.id /\ m.status = "ok"
  <2>1. /\ mine' = m.session /\ stage' = P!Achieved(m.method) /\ waiting' = 0
        /\ share' = IF m.method = "finalize" THEN share \cup {m.session} ELSE share
    BY <1>1, <1>7 DEF P!Answered
  <2>2. /\ stage' \in {"started", "finalized", "confirmed", "cancelled"}
        /\ stage' = "confirmed" <=> m.method = "confirm"
    BY <1>3, <2>1 DEF P!Achieved, P!Methods, P!Stages
  <2>3. m.session \in Sessions
    BY <1>2, <1>7 DEF Addressed
  <2>4. P!TypeOK'
    BY <1>1, <1>2, <1>3, <2>1, <2>2, <2>3 DEF P!TypeOK, P!Stages
  <2>5. stage # "confirmed"
    BY <1>2, <1>3, <1>7 DEF Settled
  <2>6. Confirming'
    BY <1>1, <1>2, <1>5, <1>7, <2>1 DEF Confirming
  <2>7. LiveBecause'
    <3> SUFFICES ASSUME NEW s \in Sessions, session[s] = "live"
                 PROVE  s \in share' /\ (s \in unsure \/ (stage' = "confirmed" /\ mine' = s))
      BY <1>1 DEF LiveBecause
    <3>1. s \in share /\ (s \in unsure \/ Awaited(s))
      BY <1>2, <2>5 DEF LiveBecause
    <3>2. CASE Awaited(s)
      <4>1. m.method = "confirm" /\ m.session = s
        BY <1>2, <1>7, <3>2 DEF Awaited, Numbered
      <4> QED BY <2>1, <2>2, <3>1, <4>1
    <3> QED BY <2>1, <3>1, <3>2
  <2>8. Settled'
    BY <1>1, <1>2, <1>7, <2>1, <2>2, <2>3 DEF Settled, Confirming
  <2> QED BY <1>4, <2>4, <2>6, <2>7, <2>8 DEF ProvisioningInv
<1> QED BY <1>6, <1>7

\* A call is given up: a confirm that was awaited leaves its session in doubt.
LEMMA TimesOutKeepsProvisioning ==
  ASSUME ProvisioningInv, P!TimesOut
  PROVE  ProvisioningInv'
<1>1. /\ waiting # 0 /\ waiting' = 0 /\ UNCHANGED <<mine, share, request, wire, session>>
      /\ stage' = (IF mine = NoSession THEN stage ELSE "unknown")
      /\ unsure' = IF \E m \in wire : m.id = waiting /\ m.method = "confirm"
                   THEN unsure \cup {mine} ELSE unsure
  BY DEF P!TimesOut
<1>2. /\ P!TypeOK /\ Numbered /\ Addressed /\ Confirming /\ LiveBecause /\ Settled
  BY DEF ProvisioningInv
<1>3. \A m \in wire : m.id \in Nat /\ m.id # 0
  BY <1>2, WireTyped
<1>4. \A m \in wire :
         m.id = waiting /\ m.method = "confirm" => m.session = mine /\ mine \in unsure'
  BY <1>1, <1>2 DEF Confirming
<1>5. unsure \subseteq unsure' /\ unsure' \subseteq Sessions
  BY <1>1, <1>2 DEF Confirming, Addressed, P!TypeOK
<1>6. P!TypeOK'
  BY <1>1, <1>2, <1>5 DEF P!TypeOK, P!Stages
<1>7. Confirming'
  BY <1>1, <1>2, <1>3, <1>4, <1>5 DEF Confirming
<1>8. LiveBecause'
  BY <1>1, <1>2, <1>4, <1>5 DEF LiveBecause, Awaited, Settled
<1> QED BY <1>1, <1>2, <1>6, <1>7, <1>8 DEF ProvisioningInv, Numbered, Addressed, Settled

\* A message is lost.
LEMMA LostKeepsProvisioning ==
  ASSUME ProvisioningInv, NEW m \in wire, P!Lost(m)
  PROVE  ProvisioningInv'
<1>1. /\ wire' = wire \ {m} /\ UNCHANGED <<mine, stage, share, request, waiting, session>>
      /\ unsure' = IF m.method = "confirm" THEN unsure \cup {m.session} ELSE unsure
  BY DEF P!Lost
<1>2. /\ P!TypeOK /\ Numbered /\ Addressed /\ Confirming /\ LiveBecause /\ Settled
  BY DEF ProvisioningInv
<1>3. unsure \subseteq unsure' /\ unsure' \subseteq Sessions
  BY <1>1, <1>2 DEF Addressed, P!TypeOK
<1>4. P!TypeOK'
  BY <1>1, <1>2, <1>3 DEF P!TypeOK
<1>5. Confirming'
  BY <1>1, <1>2, <1>3 DEF Confirming
<1>6. LiveBecause'
  BY <1>1, <1>2, <1>3 DEF LiveBecause, Awaited
<1> QED BY <1>1, <1>2, <1>4, <1>5, <1>6 DEF ProvisioningInv, Numbered, Addressed, Settled

\* The node answers a request, and a session may change its state: what is live
\* stays live, and only a confirm makes it so.
LEMMA ReplyKeepsProvisioning ==
  ASSUME ProvisioningInv, NEW m \in wire, m.status = "sent",
         NEW s \in Sessions \cup {NoSession}, NEW status \in {"ok", "error"},
         P!Reply(m, s, status),
         session' \in [Sessions -> P!SessionStates],
         m.method # "start" => s = m.session,
         m.method = "start" /\ status = "ok" => s \in Sessions,
         \A t \in Sessions : session[t] = "live" => session'[t] = "live",
         \A t \in Sessions : session'[t] = "live" /\ session[t] # "live" =>
                               m.method = "confirm" /\ t = m.session /\ status = "ok",
         m.method = "confirm" /\ status = "ok" => session'[m.session] = "live"
  PROVE  ProvisioningInv'
<1>0. PICK r : r = [m EXCEPT !.session = s, !.status = status]
  OBVIOUS
<1>1. /\ wire' = (wire \ {m}) \cup {r}
      /\ UNCHANGED <<mine, stage, share, unsure, request, waiting>>
  BY <1>0 DEF P!Reply, P!app
<1>2. /\ P!TypeOK /\ Numbered /\ Addressed /\ Confirming /\ LiveBecause /\ Settled
  BY DEF ProvisioningInv
<1>3. m \in P!Message
  BY <1>2 DEF P!TypeOK
<1>4. /\ r.id = m.id /\ r.method = m.method /\ r.session = s /\ r.status = status
      /\ r \in P!Message
  BY <1>0, <1>3 DEF P!Message
<1>5. P!TypeOK'
  BY <1>1, <1>2, <1>4 DEF P!TypeOK
<1>6. Numbered' /\ Addressed'
  BY <1>1, <1>2, <1>4 DEF Numbered, Addressed
<1>7. Confirming'
  BY <1>1, <1>2, <1>4 DEF Confirming, Addressed
<1>8. LiveBecause'
  <2> SUFFICES ASSUME NEW t \in Sessions, session'[t] = "live"
               PROVE  /\ t \in share
                      /\ t \in unsure \/ (stage = "confirmed" /\ mine = t) \/ Awaited(t)'
    BY <1>1 DEF LiveBecause
  <2>1. CASE session[t] = "live"
    BY <1>1, <1>2, <1>4, <2>1 DEF LiveBecause, Awaited
  <2>2. CASE session[t] # "live"
    BY <1>1, <1>2, <1>4, <2>2 DEF Confirming, Awaited
  <2> QED BY <2>1, <2>2
<1>9. Settled'
  BY <1>1, <1>2 DEF Settled
<1> QED BY <1>5, <1>6, <1>7, <1>8, <1>9 DEF ProvisioningInv

LEMMA NodeKeepsProvisioning ==
  ASSUME ProvisioningInv, NEW m \in wire, P!NodeHandles(m)
  PROVE  ProvisioningInv'
<1>1. /\ P!TypeOK /\ Addressed /\ m.status = "sent"
      /\ session \in [Sessions -> P!SessionStates]
      /\ m.method # "start" => m.session \in Sessions
      /\ m.session \in Sessions \cup {NoSession} /\ m.method \in P!Methods
  BY WireTyped DEF ProvisioningInv, P!NodeHandles, Addressed, P!TypeOK
<1>2. ASSUME NEW s \in Sessions, m.method = "start", session[s] = "free",
             session' = [session EXCEPT ![s] = "open"], P!Reply(m, s, "ok")
      PROVE  ProvisioningInv'
  BY <1>1, <1>2, ReplyKeepsProvisioning DEF P!SessionStates
<1>3. ASSUME m.method = "finalize", session[m.session] = "open",
             session' = [session EXCEPT ![m.session] = "finalized"], P!Reply(m, m.session, "ok")
      PROVE  ProvisioningInv'
  BY <1>1, <1>3, ReplyKeepsProvisioning DEF P!SessionStates
<1>4. ASSUME m.method = "confirm", session[m.session] = "finalized",
             session' = [session EXCEPT ![m.session] = "live"], P!Reply(m, m.session, "ok")
      PROVE  ProvisioningInv'
  BY <1>1, <1>4, ReplyKeepsProvisioning DEF P!SessionStates
<1>5. ASSUME m.method = "cancel", P!Reply(m, m.session, "ok"),
             session' = [session EXCEPT ![m.session] = IF @ = "live" THEN @ ELSE "dropped"]
      PROVE  ProvisioningInv'
  BY <1>1, <1>5, ReplyKeepsProvisioning DEF P!SessionStates
<1>6. ASSUME P!Reply(m, m.session, "error"), UNCHANGED session
      PROVE  ProvisioningInv'
  BY <1>1, <1>6, ReplyKeepsProvisioning
<1> QED BY <1>2, <1>3, <1>4, <1>5, <1>6 DEF P!NodeHandles

\* Every step of the application, the network and the node.
LEMMA ProvisioningNext == ProvisioningInv /\ [P!Next]_provisioning => ProvisioningInv'
<1> SUFFICES ASSUME ProvisioningInv, [P!Next]_provisioning PROVE ProvisioningInv'
  OBVIOUS
<1>1. P!TypeOK /\ mine \in Sessions \cup {NoSession}
  BY DEF ProvisioningInv, P!TypeOK
<1>2. CASE P!Start
  BY <1>2, PostKeepsProvisioning DEF P!Start, P!Methods
<1>3. CASE P!Finalize
  BY <1>1, <1>3, PostKeepsProvisioning DEF P!Finalize, P!Methods
<1>4. CASE P!Confirm
  <2>1. mine \in Sessions
    BY <1>1, <1>4 DEF P!Confirm, P!TypeOK
  <2> QED BY <1>4, <2>1, PostKeepsProvisioning DEF P!Confirm, P!Methods
<1>5. CASE P!Cancel
  BY <1>1, <1>5, PostKeepsProvisioning DEF P!Cancel, P!Methods
<1>6. ASSUME NEW s \in Sessions, P!Expires(s) PROVE ProvisioningInv'
  <2>1. /\ session[s] \in {"open", "finalized"}
        /\ session' = [session EXCEPT ![s] = "dropped"]
        /\ UNCHANGED <<mine, stage, share, unsure, request, waiting, wire>>
    BY <1>6 DEF P!Expires, P!app
  <2>2. /\ session' \in [Sessions -> P!SessionStates]
        /\ \A t \in Sessions : session'[t] = "live" <=> session[t] = "live"
    BY <1>1, <2>1 DEF P!TypeOK, P!SessionStates
  <2>3. Addressed /\ Confirming /\ LiveBecause /\ Settled /\ Numbered
    BY DEF ProvisioningInv
  <2>4. P!TypeOK' /\ Numbered' /\ Addressed'
    BY <1>1, <2>1, <2>2, <2>3 DEF P!TypeOK, Numbered, Addressed
  <2>5. Confirming' /\ Settled'
    BY <2>1, <2>2, <2>3 DEF Confirming, Settled, Addressed
  <2>6. LiveBecause'
    BY <2>1, <2>2, <2>3 DEF LiveBecause, Awaited
  <2> QED BY <2>4, <2>5, <2>6 DEF ProvisioningInv
<1>7. CASE UNCHANGED provisioning
  BY <1>7 DEF provisioning, ProvisioningInv, P!TypeOK, Numbered, Addressed, Confirming,
       LiveBecause, Awaited, Settled
<1> QED
  BY <1>2, <1>3, <1>4, <1>5, <1>6, <1>7, AnsweredKeepsProvisioning, TimesOutKeepsProvisioning,
     LostKeepsProvisioning, NodeKeepsProvisioning DEF P!Next

\* While the answer of a confirm is awaited nothing was cancelled.
LEMMA ProvisioningTold == ProvisioningInv => P!ToldIsTrue
<1> SUFFICES ASSUME ProvisioningInv PROVE P!ToldIsTrue
  OBVIOUS
<1>1. Confirming /\ LiveBecause /\ Settled
  BY DEF ProvisioningInv
<1>2. \A s \in Sessions : Awaited(s) => stage # "cancelled"
  BY <1>1 DEF Awaited, Confirming
<1> QED BY <1>1, <1>2 DEF P!ToldIsTrue, LiveBecause, Settled
-----------------------------------------------------------------------------
(***************************************************************************)
(* Authentication                                                          *)
(***************************************************************************)
Tokens == [sub : Dids, from : SUBSET Nat, chain : SUBSET Dids]

\* What the clients hold and have asked for names tokens that were minted.
AuthInv ==
  /\ tokens \in Seq(Tokens) /\ Len(tokens) <= MaxTokens
  /\ proofs \in Seq(Nat) /\ proof \in 0..Len(proofs)
  /\ \A i \in 1..Len(proofs) : proofs[i] \in 1..Len(tokens)
  /\ dead \subseteq 1..Len(tokens)
  /\ identity \in [Dids -> {"unknown", "active", "revoked", "erased"}]
  /\ \A m \in calls : m.method # "transfer" =>
       /\ m.did \in Dids
       /\ m.method \in {"exchange", "revokeJwt"} => m.subject \in 1..Len(tokens)

LEMMA AuthInit == A!Init => AuthInv
<1> SUFFICES ASSUME A!Init PROVE AuthInv
  OBVIOUS
<1>1. /\ tokens = <<>> /\ proofs = <<>> /\ proof = 0 /\ dead = {} /\ calls = {}
      /\ identity = [d \in Dids |-> "unknown"] /\ Len(<<>>) = 0
  BY DEF A!Init
<1>2. MaxTokens \in Nat
  BY SessionAssumption DEF A!CountsAssumption
<1>3. <<>> \in Seq(Tokens) /\ <<>> \in Seq(Nat)
  OBVIOUS
<1> QED BY <1>1, <1>2, <1>3 DEF AuthInv

\* What a token names.
LEMMA TokenTyped ==
  tokens \in Seq(Tokens) => \A t \in 1..Len(tokens) :
     tokens[t].chain \subseteq Dids /\ tokens[t].sub \in Dids /\ tokens[t].from \subseteq Nat
<1> SUFFICES ASSUME tokens \in Seq(Tokens), NEW t \in 1..Len(tokens)
             PROVE  /\ tokens[t].chain \subseteq Dids /\ tokens[t].sub \in Dids
                    /\ tokens[t].from \subseteq Nat
  OBVIOUS
<1>1. tokens[t] \in Tokens
  OBVIOUS
<1>2. PICK k \in Tokens : k = tokens[t]
  BY <1>1
<1>3. k.chain \in SUBSET Dids /\ k.sub \in Dids /\ k.from \in SUBSET Nat
  BY DEF Tokens
<1> QED BY <1>2, <1>3

\* The application's steps that send nothing: tokens and identities stay, and
\* the proofs of the environment are of minted tokens.
LEMMA ApplicationKeeps ==
  ASSUME AuthInv, UNCHANGED <<identity, tokens, dead>>,
         calls' \subseteq calls,
         \/ UNCHANGED <<proof, proofs>>
         \/ \E t \in 1..Len(tokens) : proofs' = Append(proofs, t) /\ proof' = Len(proofs) + 1
  PROVE  AuthInv'
<1>1. /\ proofs' \in Seq(Nat) /\ proof' \in 0..Len(proofs')
      /\ \A i \in 1..Len(proofs') : proofs'[i] \in 1..Len(tokens)
  <2>1. CASE UNCHANGED <<proof, proofs>>
    BY <2>1 DEF AuthInv
  <2>2. ASSUME NEW t \in 1..Len(tokens), proofs' = Append(proofs, t), proof' = Len(proofs) + 1
        PROVE  <1>1!:
    <3>1. proofs \in Seq(Nat) /\ t \in Nat /\ Len(proofs) \in Nat
      BY DEF AuthInv
    <3>2. /\ proofs' \in Seq(Nat) /\ Len(proofs') = Len(proofs) + 1
          /\ proofs'[Len(proofs) + 1] = t
          /\ \A i \in 1..Len(proofs) : proofs'[i] = proofs[i]
      BY <2>2, <3>1
    <3> QED BY <2>2, <3>1, <3>2 DEF AuthInv
  <2> QED BY <2>1, <2>2
<1> QED BY <1>1 DEF AuthInv

\* A request: it names a registered DID, and a token that was minted.
LEMMA RequestKeeps ==
  ASSUME AuthInv, NEW method, NEW did, NEW token, NEW step,
         A!SendRequest(method, did, token, step),
         method # "transfer" => did \in Dids,
         method \in {"exchange", "revokeJwt"} => token \in 1..Len(tokens),
         UNCHANGED <<proof, proofs>>
  PROVE  AuthInv'
<1>1. PICK r : r = [method |-> method, did |-> did, subject |-> token, bearer |-> A!Bearer,
                    proof |-> proof, to |-> transfer.to, approval |-> transfer.approval,
                    step |-> step]
  OBVIOUS
<1>2. calls' = calls \cup {r} /\ UNCHANGED <<identity, tokens, dead>>
  BY <1>1 DEF A!SendRequest, A!engine
<1>3. r.method = method /\ r.did = did /\ r.subject = token
  BY <1>1
<1> QED BY <1>2, <1>3 DEF AuthInv

\* The node mints a token, and may make its subject active.
LEMMA MintKeeps ==
  ASSUME AuthInv, NEW d \in Dids, NEW parents \in SUBSET (1..Len(tokens)),
         A!Mint(d, parents), calls' \subseteq calls,
         \/ identity' = identity
         \/ identity' = [identity EXCEPT ![d] = "active"]
  PROVE  AuthInv'
<1>1. PICK k : k = [sub |-> d, from |-> parents \cup UNION {tokens[t].from : t \in parents},
                    chain |-> A!Chain(d) \cup UNION {tokens[t].chain : t \in parents}]
  OBVIOUS
<1>2. /\ Len(tokens) < MaxTokens /\ tokens' = Append(tokens, k)
      /\ UNCHANGED <<proof, proofs, dead>>
  BY <1>1 DEF A!Mint, A!application
<1>3. k \in Tokens
  <2>1. \A t \in parents : tokens[t].chain \subseteq Dids /\ tokens[t].from \subseteq Nat
    BY TokenTyped DEF AuthInv
  <2>2. A!Chain(d) \subseteq Dids /\ parents \subseteq Nat
    BY DEF A!Chain
  <2>3. UNION {tokens[t].chain : t \in parents} \subseteq Dids
    BY <2>1
  <2>4. UNION {tokens[t].from : t \in parents} \subseteq Nat
    BY <2>1
  <2>5. PICK above, chain : /\ above = parents \cup UNION {tokens[t].from : t \in parents}
                            /\ chain = A!Chain(d) \cup UNION {tokens[t].chain : t \in parents}
    OBVIOUS
  <2>6. above \in SUBSET Nat /\ chain \in SUBSET Dids
    BY <2>2, <2>3, <2>4, <2>5
  <2> QED BY <1>1, <2>5, <2>6 DEF Tokens
<1>4. MaxTokens \in Nat
  BY SessionAssumption DEF A!CountsAssumption
<1>5. /\ tokens' \in Seq(Tokens) /\ Len(tokens') = Len(tokens) + 1 /\ Len(tokens) \in Nat
  BY <1>2, <1>3 DEF AuthInv
<1>6. identity' \in [Dids -> {"unknown", "active", "revoked", "erased"}]
  BY DEF AuthInv
<1> QED BY <1>2, <1>4, <1>5, <1>6 DEF AuthInv

LEMMA NodeKeepsAuth ==
  ASSUME AuthInv, NEW m \in calls, A!NodeHandles(m)
  PROVE  AuthInv'
<1>1. calls' \subseteq calls
  BY DEF A!NodeHandles
<1>2. {} \in SUBSET (1..Len(tokens))
  OBVIOUS
<1>3. m.method # "transfer" => m.did \in Dids
  BY DEF AuthInv
<1>4. CASE A!NodeOnboards(m)
  <2>1. /\ m.did \in Dids /\ A!Mint(m.did, {})
        /\ identity' = [identity EXCEPT ![m.did] = "active"]
    BY <1>3, <1>4 DEF A!NodeOnboards
  <2> QED BY <1>1, <1>2, <2>1, MintKeeps
<1>5. CASE A!NodeRefreshes(m)
  <2>1. m.did \in Dids /\ A!Mint(m.did, {}) /\ identity' = identity
    BY <1>3, <1>5 DEF A!NodeRefreshes
  <2> QED BY <1>1, <1>2, <2>1, MintKeeps
<1>6. CASE A!NodeExchanges(m)
  <2>1. /\ m.did \in Dids /\ A!Mint(m.did, {m.subject}) /\ identity' = identity
        /\ {m.subject} \in SUBSET (1..Len(tokens))
    BY <1>3, <1>6 DEF A!NodeExchanges, A!Live
  <2> QED BY <1>1, <2>1, MintKeeps
<1>7. CASE A!NodeRevokes(m)
  <2>1. UNCHANGED <<proof, proofs, tokens>>
    BY <1>7 DEF A!NodeRevokes, A!Unserved, A!application
  <2>2. dead' \subseteq 1..Len(tokens)
    BY <1>7 DEF A!NodeRevokes, AuthInv
  <2>3. identity' \in [Dids -> {"unknown", "active", "revoked", "erased"}]
    BY <1>7 DEF A!NodeRevokes, AuthInv
  <2> QED BY <1>1, <2>1, <2>2, <2>3 DEF AuthInv
<1>8. CASE A!NodeTransfers(m) \/ A!NodeDrops(m)
  BY <1>1, <1>8, ApplicationKeeps DEF A!NodeTransfers, A!NodeDrops, A!application, A!engine
<1> QED BY <1>4, <1>5, <1>6, <1>7, <1>8 DEF A!NodeHandles

\* Every step of the application, the client and the node.
LEMMA AuthNext == AuthInv /\ [A!Next]_auth => AuthInv'
<1> SUFFICES ASSUME AuthInv, [A!Next]_auth PROVE AuthInv'
  OBVIOUS
<1>1. \A t \in 1..Len(tokens) : tokens[t].sub \in Dids
  BY TokenTyped DEF AuthInv
<1>2. ASSUME NEW d \in Dids, A!Onboard(d) \/ A!RevokeOrForget(d) PROVE AuthInv'
  <2>1. PICK method \in {"onboard", "link", "revokeDid", "forget"} :
          A!SendRequest(method, d, 0, "only") /\ UNCHANGED <<proof, proofs>>
    BY <1>2 DEF A!Onboard, A!RevokeOrForget, A!application
  <2>2. ~(method \in {"exchange", "revokeJwt"})
    OBVIOUS
  <2> QED BY <2>1, <2>2, RequestKeeps, Zenon
<1>3. ASSUME NEW t \in 1..Len(tokens), A!WithToken(t) PROVE AuthInv'
  <2>1. PICK method \in {"refresh", "exchange", "revokeJwt"}, d \in Dids :
          A!SendRequest(method, d, t, "only") /\ UNCHANGED <<proof, proofs>>
    BY <1>1, <1>3 DEF A!WithToken, A!application
  <2> QED BY <2>1, RequestKeeps, Zenon
<1>4. ASSUME NEW t \in 1..Len(tokens), A!MintProof(t) PROVE AuthInv'
  BY <1>4, ApplicationKeeps DEF A!MintProof, A!engine
<1>5. ASSUME NEW r \in Recipients, NEW a \in 0..MaxApprovals, A!Transfer(r, a) PROVE AuthInv'
  BY <1>5, ApplicationKeeps DEF A!Transfer, A!engine
<1>6. CASE A!TransferRequest
  <2>1. PICK d, t, step : A!SendRequest("transfer", d, t, step) /\ UNCHANGED <<proof, proofs>>
    BY <1>6 DEF A!TransferRequest
  <2>2. ~("transfer" \in {"exchange", "revokeJwt"})
    OBVIOUS
  <2> QED BY <2>1, <2>2, RequestKeeps, Zenon
<1>7. CASE A!TransferThrows
  BY <1>7, ApplicationKeeps DEF A!TransferThrows, A!engine
<1>8. ASSUME NEW a \in DOMAIN approvals, NEW v \in {"Approved", "Denied"}, A!Decide(a, v)
      PROVE  AuthInv'
  BY <1>8, ApplicationKeeps DEF A!Decide, A!application
<1>9. CASE A!Expires
  <2>1. /\ dead \subseteq dead' /\ dead' \subseteq 1..Len(tokens)
        /\ UNCHANGED <<proof, proofs, calls, identity, tokens>>
    BY <1>9 DEF A!Expires, A!application, AuthInv
  <2> QED BY <2>1 DEF AuthInv
<1>10. CASE UNCHANGED auth
  BY <1>1, <1>10, ApplicationKeeps DEF auth
<1> QED
  BY <1>2, <1>3, <1>4, <1>5, <1>6, <1>7, <1>8, <1>9, <1>10, NodeKeepsAuth DEF A!Next
-----------------------------------------------------------------------------
(***************************************************************************)
(* The clients of single requests                                          *)
(***************************************************************************)
Objects == [kind : {c.kind : c \in N!Calls}, at : Nat, live : BOOLEAN]
Requests == [call : N!Calls, of : Nat, on : SUBSET Nat]

NodeTyped ==
  /\ client \in DOMAIN N!Catalogue
  /\ objects \in Seq(Objects) /\ requests \in Seq(Requests)
  /\ known \subseteq 1..Len(objects)
  /\ expected \in 0..Len(requests) /\ doubtful \in 0..Len(requests)
  /\ toNode \subseteq 1..Len(requests)

\* A request belongs to a call that began before it or with it.
Began == \A r \in 1..Len(requests) : requests[r].of \in 1..Len(requests)

\* A request that was handled made at most one object.
MadeOnce ==
  /\ \A i \in 1..Len(objects) : objects[i].at \in 1..Len(requests) /\ objects[i].at \notin toNode
  /\ \A i, j \in 1..Len(objects) : objects[i].at = objects[j].at => i = j

\* The request is over, and these objects are all that it made, or more.
Accounts(r, names) ==
  /\ r \in 1..Len(requests) /\ r \notin toNode /\ names \subseteq 1..Len(objects)
  /\ \A i \in 1..Len(objects) : objects[i].at = r => i \in names

AnswersAccount == \A a \in toCaller : Accounts(a.request, a.names)
ConfirmedAccount == \A r \in confirmed : Accounts(r, known)

\* No two requests of a call are confirmed, and none of one that may be repeated.
OncePerCall ==
  /\ \A r, s \in confirmed : requests[r].of = requests[s].of => r = s
  /\ expected = 0 \/ doubtful = 0
  /\ \A p \in {expected, doubtful} \ {0}, r \in confirmed : requests[r].of # requests[p].of

NodeInv ==
  /\ NodeTyped /\ Began /\ MadeOnce /\ AnswersAccount /\ ConfirmedAccount /\ OncePerCall

LEMMA NodeInit == N!Init => NodeInv
  BY DEF N!Init, NodeInv, NodeTyped, Began, MadeOnce, AnswersAccount, ConfirmedAccount,
     OncePerCall

\* A step that makes neither an object nor a request.
LEMMA NodeRest ==
  ASSUME NodeInv, UNCHANGED <<client, requests>>,
         objects' \in Seq(Objects), Len(objects') = Len(objects),
         \A i \in 1..Len(objects) : objects'[i].at = objects[i].at,
         known \subseteq known', known' \subseteq 1..Len(objects),
         expected' \in 0..Len(requests), doubtful' \in 0..Len(requests),
         toNode' \subseteq toNode,
         \A a \in toCaller' : a \in toCaller \/ Accounts(a.request, a.names)',
         \A r \in confirmed' : r \in confirmed \/ Accounts(r, known)',
         OncePerCall'
  PROVE  NodeInv'
<1>1. /\ NodeTyped /\ Began /\ MadeOnce /\ AnswersAccount /\ ConfirmedAccount
      /\ N!Calls' = N!Calls
  BY DEF NodeInv, N!Calls
<1>2. Objects' = Objects /\ Requests' = Requests
  BY <1>1 DEF Objects, Requests
<1>3. NodeTyped'
  BY <1>1, <1>2 DEF NodeTyped
<1>4. Began' /\ MadeOnce'
  BY <1>1 DEF Began, MadeOnce
<1>5. AnswersAccount' /\ ConfirmedAccount'
  BY <1>1 DEF AnswersAccount, ConfirmedAccount, Accounts
<1> QED BY <1>3, <1>4, <1>5 DEF NodeInv

\* A request: a new call, or the repetition of one that failed.
LEMMA NodeSends ==
  ASSUME NodeInv, NEW r \in Requests, N!Send(r), doubtful' = 0,
         \/ r.of = Len(requests) + 1
         \/ /\ r.of \in 1..Len(requests)
            /\ \A s \in confirmed : requests[s].of # r.of
  PROVE  NodeInv'
<1>1. N!Calls' = N!Calls /\ UNCHANGED <<client, objects, known, confirmed, toCaller>>
  BY DEF N!Calls, N!Send
<1>2. /\ NodeTyped /\ Began /\ MadeOnce /\ AnswersAccount /\ ConfirmedAccount /\ OncePerCall
      /\ Len(requests) \in Nat
  BY DEF NodeInv, NodeTyped
<1>3. /\ requests' \in Seq(Requests) /\ Len(requests') = Len(requests) + 1
      /\ requests'[Len(requests) + 1] = r
      /\ \A s \in 1..Len(requests) : requests'[s] = requests[s]
      /\ 1..Len(requests') = 1..Len(requests) \cup {Len(requests) + 1}
      /\ Len(requests) + 1 \notin 1..Len(requests) /\ Len(requests) + 1 # 0
  BY <1>2 DEF N!Send, NodeTyped
<1>4. expected' = Len(requests) + 1 /\ toNode' = toNode \cup {Len(requests) + 1}
  BY DEF N!Send
<1>5. Objects' = Objects /\ Requests' = Requests
  BY <1>1 DEF Objects, Requests
<1>6. NodeTyped'
  <2>1. expected' \in 0..Len(requests') /\ doubtful' \in 0..Len(requests')
    BY <1>2, <1>3, <1>4
  <2>2. toNode' \subseteq 1..Len(requests')
    BY <1>2, <1>3, <1>4 DEF NodeTyped
  <2> QED BY <1>1, <1>2, <1>3, <1>5, <2>1, <2>2 DEF NodeTyped
<1>7. Began'
  BY <1>2, <1>3 DEF Began
<1>8. MadeOnce'
  BY <1>1, <1>2, <1>3, <1>4 DEF MadeOnce
<1>9. AnswersAccount' /\ ConfirmedAccount'
  BY <1>1, <1>2, <1>3, <1>4 DEF AnswersAccount, ConfirmedAccount, Accounts
<1>10. OncePerCall'
  <2>1. confirmed \subseteq 1..Len(requests)
    BY <1>2 DEF ConfirmedAccount, Accounts
  <2>2. \A s \in confirmed : requests[s].of # r.of
    BY <1>2, <2>1 DEF Began
  <2> QED BY <1>1, <1>2, <1>3, <1>4, <2>1, <2>2 DEF OncePerCall
<1> QED BY <1>6, <1>7, <1>8, <1>9, <1>10 DEF NodeInv

\* The node answers a request that it has, and makes nothing.
LEMMA NodeAnswersKeep ==
  ASSUME NodeInv, NEW r \in toNode, NEW names \in SUBSET (1..Len(objects)), N!Done(r, names),
         objects' \in Seq(Objects), Len(objects') = Len(objects),
         \A i \in 1..Len(objects) : objects'[i].at = objects[i].at,
         known' = known
  PROVE  NodeInv'
<1>1. NodeTyped /\ MadeOnce /\ OncePerCall
  BY DEF NodeInv
<1>2. PICK a : a = [request |-> r, names |-> names]
  OBVIOUS
<1>3. /\ toCaller' = toCaller \cup {a} /\ a.request = r /\ a.names = names
      /\ toNode' = toNode \ {r} /\ UNCHANGED <<client, requests, expected, doubtful, confirmed>>
  BY <1>2 DEF N!Done
<1>4. Accounts(a.request, a.names)'
  BY <1>1, <1>3 DEF Accounts, MadeOnce, NodeTyped
<1>5. OncePerCall'
  BY <1>1, <1>3 DEF OncePerCall
<1> QED BY <1>1, <1>3, <1>4, <1>5, NodeRest DEF NodeTyped

LEMMA NodeMakesKeeps ==
  ASSUME NodeInv, NEW r \in toNode, N!NodeMakes(r)
  PROVE  NodeInv'
<1>1. /\ NodeTyped /\ Began /\ MadeOnce /\ AnswersAccount /\ ConfirmedAccount /\ OncePerCall
      /\ Len(objects) \in Nat /\ DOMAIN objects = 1..Len(objects)
  BY DEF NodeInv, NodeTyped
<1>2. r \in 1..Len(requests) /\ requests[r] \in Requests
  BY <1>1 DEF NodeTyped
<1> DEFINE call == requests[r].call
           same == {i \in DOMAIN objects : requests[objects[i].at].of = requests[r].of}
<1>3. CASE N!Done(r, same) /\ UNCHANGED <<objects, known>>
  <2>1. same \in SUBSET (1..Len(objects))
    BY <1>1
  <2> QED BY <1>1, <1>3, <2>1, NodeAnswersKeep DEF NodeTyped
<1>4. ASSUME objects' = Append(objects, [kind |-> call.kind, at |-> r, live |-> TRUE]),
             known' = IF call.op = "named" THEN known \cup {Len(objects) + 1} ELSE known,
             N!Done(r, {Len(objects) + 1})
      PROVE  NodeInv'
  <2>1. PICK n, o : n = Len(objects) + 1 /\ o = [kind |-> call.kind, at |-> r, live |-> TRUE]
    OBVIOUS
  <2>2. o \in Objects /\ o.at = r
    BY <1>2, <2>1 DEF Objects, Requests
  <2>3. /\ objects' \in Seq(Objects) /\ Len(objects') = n /\ n \in Nat
        /\ 1..n = 1..Len(objects) \cup {n}
        /\ objects'[n] = o /\ n \notin 1..Len(objects)
        /\ \A i \in 1..Len(objects) : objects'[i] = objects[i]
    BY <1>1, <1>4, <2>1, <2>2 DEF NodeTyped
  <2>4. PICK a : a = [request |-> r, names |-> {n}]
    OBVIOUS
  <2>5. /\ toCaller' = toCaller \cup {a} /\ a.request = r /\ a.names = {n}
        /\ UNCHANGED <<client, requests, expected, doubtful, confirmed>>
        /\ toNode' = toNode \ {r} /\ known \subseteq known' /\ known' \subseteq known \cup {n}
    BY <1>4, <2>1, <2>4 DEF N!Done
  <2>6. N!Calls' = N!Calls
    BY <2>5 DEF N!Calls
  <2>7. Objects' = Objects /\ Requests' = Requests
    BY <2>6 DEF Objects, Requests
  <2>8. NodeTyped'
    <3>1. known' \subseteq 1..Len(objects')
      BY <1>1, <2>3, <2>5 DEF NodeTyped
    <3> QED BY <1>1, <2>3, <2>5, <2>7, <3>1 DEF NodeTyped
  <2>9. Began' /\ OncePerCall'
    BY <1>1, <2>5 DEF Began, OncePerCall
  <2> HIDE DEF call, same
  <2>10. \A i \in 1..Len(objects) : objects[i].at # r
    BY <1>1 DEF MadeOnce
  <2>11. MadeOnce'
    BY <1>1, <1>2, <2>2, <2>3, <2>5, <2>10 DEF MadeOnce
  <2>12. ASSUME NEW s, NEW names, NEW more, Accounts(s, names), names \subseteq more,
                more \subseteq 1..n
         PROVE  Accounts(s, more)'
    <3>1. s # r
      BY <2>12 DEF Accounts
    <3> QED BY <2>2, <2>3, <2>5, <2>12, <3>1 DEF Accounts
  <2>13. Accounts(r, {n})'
    BY <1>2, <2>2, <2>3, <2>5, <2>10 DEF Accounts
  <2>14. AnswersAccount'
    <3> SUFFICES ASSUME NEW b \in toCaller' PROVE Accounts(b.request, b.names)'
      BY DEF AnswersAccount
    <3>1. CASE b \in toCaller
      <4>1. Accounts(b.request, b.names) /\ b.names \subseteq 1..n
        BY <1>1, <2>3, <3>1 DEF AnswersAccount, Accounts
      <4> QED BY <2>12, <4>1
    <3> QED BY <2>5, <2>13, <3>1
  <2>15. ConfirmedAccount'
    <3>1. known' \subseteq 1..n
      BY <2>3, <2>8 DEF NodeTyped
    <3>2. ASSUME NEW s \in confirmed PROVE Accounts(s, known)'
      <4>1. Accounts(s, known)
        BY <1>1 DEF ConfirmedAccount
      <4>2. PICK more : more = known'
        OBVIOUS
      <4>3. known \subseteq more /\ more \subseteq 1..n
        BY <2>5, <3>1, <4>2
      <4>4. Accounts(s, more)'
        BY <2>12, <4>1, <4>3
      <4> QED BY <4>2, <4>4 DEF Accounts
    <3> QED BY <2>5, <3>2 DEF ConfirmedAccount
  <2> QED BY <2>8, <2>9, <2>11, <2>14, <2>15 DEF NodeInv
<1> QED BY <1>3, <1>4 DEF N!NodeMakes

LEMMA NodeEndsKeeps ==
  ASSUME NodeInv, NEW r \in toNode, N!NodeEnds(r)
  PROVE  NodeInv'
<1>1. NodeTyped /\ DOMAIN objects = 1..Len(objects) /\ Len(objects) \in Nat
  BY DEF NodeInv, NodeTyped
<1>2. PICK over : N!Over(over)
  BY DEF N!NodeEnds
<1>3. \A o \in Objects : /\ [o EXCEPT !.live = FALSE] \in Objects
                         /\ [o EXCEPT !.live = FALSE].at = o.at
  BY DEF Objects
<1>4. \A i \in 1..Len(objects) : objects[i] \in Objects
  BY <1>1 DEF NodeTyped
<1>5. objects' = [i \in 1..Len(objects) |->
         IF i \in over THEN [objects[i] EXCEPT !.live = FALSE] ELSE objects[i]]
  BY <1>1, <1>2 DEF N!Over
<1>6. \A i \in 1..Len(objects) : objects'[i] \in Objects /\ objects'[i].at = objects[i].at
  BY <1>3, <1>4, <1>5
<1>7. objects' \in Seq(Objects) /\ Len(objects') = Len(objects)
  <2>1. DOMAIN objects' = 1..Len(objects)
    BY <1>5
  <2>2. objects' \in [1..Len(objects) -> Objects]
    BY <1>5, <1>6
  <2> QED BY <1>1, <2>1, <2>2
<1>8. N!Done(r, {}) /\ known' = known /\ {} \in SUBSET (1..Len(objects))
  BY DEF N!NodeEnds
<1> QED BY <1>6, <1>7, <1>8, NodeAnswersKeep

LEMMA NodeKeeps ==
  ASSUME NodeInv, NEW r \in toNode, N!NodeHandles(r)
  PROVE  NodeInv'
<1>1. CASE N!NodeMakes(r)
  BY <1>1, NodeMakesKeeps
<1>2. CASE N!NodeEnds(r)
  BY <1>2, NodeEndsKeeps
<1>3. ASSUME NEW names, names = {} \/ names \in SUBSET N!Kept(requests[r].call.kind),
             N!Done(r, names), UNCHANGED <<objects, known>>
      PROVE  NodeInv'
  <2>1. DOMAIN objects = 1..Len(objects) /\ objects \in Seq(Objects)
    BY DEF NodeInv, NodeTyped
  <2>2. names \in SUBSET (1..Len(objects))
    BY <1>3, <2>1 DEF N!Kept
  <2> QED BY <1>3, <2>1, <2>2, NodeAnswersKeep
<1>4. CASE N!NodeAnswers(r)
  BY <1>3, <1>4 DEF N!NodeAnswers
<1>5. CASE N!Done(r, {}) /\ UNCHANGED <<objects, known>>
  BY <1>3, <1>5
<1> QED BY <1>1, <1>2, <1>4, <1>5 DEF N!NodeHandles

LEMMA NodeNext == NodeInv /\ [N!Next]_others => NodeInv'
<1> SUFFICES ASSUME NodeInv, [N!Next]_others PROVE NodeInv'
  OBVIOUS
<1>1. /\ NodeTyped /\ Began /\ AnswersAccount /\ ConfirmedAccount /\ OncePerCall
      /\ Len(requests) \in Nat
  BY DEF NodeInv, NodeTyped
<1>2. CASE N!Ask
  <2>1. PICK call \in N!Calls, on \in SUBSET known :
          N!Send([call |-> call, of |-> Len(requests) + 1, on |-> on])
    BY <1>2 DEF N!Ask
  <2>2. PICK r : r = [call |-> call, of |-> Len(requests) + 1, on |-> on]
    OBVIOUS
  <2>3. r \in Requests /\ r.of = Len(requests) + 1
    <3>1. on \in SUBSET Nat
      BY <1>1 DEF NodeTyped
    <3> QED BY <1>1, <2>2, <3>1 DEF Requests
  <2>4. N!Send(r) /\ doubtful' = 0
    BY <1>2, <2>1, <2>2 DEF N!Ask
  <2> QED BY <2>3, <2>4, NodeSends
<1>3. CASE N!Repeat
  <2>1. /\ doubtful \in 1..Len(requests) /\ doubtful # 0
        /\ N!Send(requests[doubtful]) /\ doubtful' = 0
    BY <1>1, <1>3 DEF N!Repeat, NodeTyped
  <2>2. /\ requests[doubtful] \in Requests /\ requests[doubtful].of \in 1..Len(requests)
        /\ \A s \in confirmed : requests[s].of # requests[doubtful].of
    BY <1>1, <2>1 DEF NodeTyped, Began, OncePerCall
  <2> QED BY <2>1, <2>2, NodeSends
<1>4. ASSUME UNCHANGED <<client, requests, objects>>,
             known \subseteq known', known' \subseteq 1..Len(objects),
             expected' \in 0..Len(requests), doubtful' \in 0..Len(requests),
             toNode' \subseteq toNode, toCaller' \subseteq toCaller,
             \A r \in confirmed' : r \in confirmed \/ Accounts(r, known)',
             OncePerCall'
      PROVE  NodeInv'
  BY <1>1, <1>4, NodeRest DEF NodeTyped
<1>5. CASE N!CallFails
  <2>1. /\ UNCHANGED <<client, requests, objects, known, toNode, toCaller, confirmed>>
        /\ expected' = 0 /\ doubtful' = expected
    BY <1>5 DEF N!CallFails
  <2>2. OncePerCall'
    BY <1>1, <2>1 DEF OncePerCall
  <2> QED BY <1>1, <1>4, <2>1, <2>2 DEF NodeTyped
<1>6. ASSUME NEW r \in toNode, N!NodeHandles(r) PROVE NodeInv'
  BY <1>6, NodeKeeps
<1>7. CASE \/ \E r \in toNode : N!RequestLost(r)
           \/ \E a \in toCaller : N!AnswerLost(a)
           \/ UNCHANGED others
  <2>1. /\ UNCHANGED <<client, objects, known, requests, expected, doubtful, confirmed>>
        /\ toNode' \subseteq toNode /\ toCaller' \subseteq toCaller
    BY <1>7 DEF N!RequestLost, N!AnswerLost, others
  <2>2. OncePerCall'
    BY <1>1, <2>1 DEF OncePerCall
  <2> QED BY <1>1, <1>4, <2>1, <2>2 DEF NodeTyped
<1>8. ASSUME NEW a \in toCaller, N!TakeAnswer(a) PROVE NodeInv'
  <2>1. /\ UNCHANGED <<client, objects, requests, doubtful, toNode>> /\ expected' = 0
        /\ known' = known \cup a.names /\ toCaller' \subseteq toCaller
        /\ a.request = expected /\ confirmed' = confirmed \cup {expected}
    BY <1>8 DEF N!TakeAnswer
  <2>2. Accounts(a.request, a.names) /\ expected # 0
    BY <1>1, <2>1 DEF AnswersAccount, Accounts
  <2>3. known \subseteq known' /\ known' \subseteq 1..Len(objects)
    BY <1>1, <2>1, <2>2 DEF NodeTyped, Accounts
  <2>4. PICK e : e = expected
    OBVIOUS
  <2>5. OncePerCall'
    BY <1>1, <2>1, <2>2 DEF OncePerCall
  <2>6. Accounts(e, known)'
    BY <2>1, <2>2, <2>3, <2>4 DEF Accounts
  <2>7. \A r \in confirmed' : r \in confirmed \/ Accounts(r, known)'
    BY <2>1, <2>4, <2>6
  <2>8. expected' \in 0..Len(requests) /\ doubtful' \in 0..Len(requests)
    BY <1>1, <2>1 DEF NodeTyped
  <2> QED BY <1>4, <2>1, <2>3, <2>5, <2>7, <2>8
<1> QED
  BY <1>2, <1>3, <1>5, <1>6, <1>7, <1>8 DEF N!Next

LEMMA NodeTypes == NodeInv => N!TypeOK
<1> SUFFICES ASSUME NodeInv PROVE N!TypeOK
  OBVIOUS
<1>1. NodeTyped /\ MadeOnce /\ AnswersAccount /\ ConfirmedAccount
  BY DEF NodeInv
<1>2. DOMAIN objects = 1..Len(objects) /\ DOMAIN requests = 1..Len(requests)
  BY <1>1 DEF NodeTyped
<1>3. \A i \in 1..Len(objects) : objects[i] \in Objects
  BY <1>1 DEF NodeTyped
<1>4. \A o \in Objects : o.live \in BOOLEAN
  BY Zenon DEF Objects
<1>5. \A i \in 1..Len(objects) : objects[i].live \in BOOLEAN
  BY <1>3, <1>4, Zenon
<1>6. \A i \in 1..Len(objects) : objects[i].at \in 1..Len(requests)
  BY <1>1 DEF MadeOnce
<1>7. \A i \in DOMAIN objects : objects[i].at \in DOMAIN requests /\ objects[i].live \in BOOLEAN
  BY <1>2, <1>5, <1>6, Zenon
<1>8. /\ client \in DOMAIN N!Catalogue
      /\ known \subseteq DOMAIN objects
      /\ expected \in 0..Len(requests) /\ doubtful \in 0..Len(requests)
      /\ confirmed \subseteq DOMAIN requests /\ toNode \subseteq DOMAIN requests
      /\ \A a \in toCaller : a.request \in DOMAIN requests /\ a.names \subseteq DOMAIN objects
  BY <1>1, <1>2 DEF NodeTyped, AnswersAccount, ConfirmedAccount, Accounts
<1> QED BY <1>7, <1>8, Zenon DEF N!TypeOK

LEMMA NodeSafe == NodeInv => N!SurplusUnconfirmed
<1> SUFFICES ASSUME NodeInv PROVE N!SurplusUnconfirmed
  OBVIOUS
<1>1. MadeOnce /\ ConfirmedAccount /\ OncePerCall /\ DOMAIN objects = 1..Len(objects)
  BY DEF NodeInv, NodeTyped
<1>2. \A i \in DOMAIN objects : i \in known \/ objects[i].at \notin confirmed
  BY <1>1 DEF ConfirmedAccount, Accounts
<1>3. \A i, j \in DOMAIN objects :
        i # j /\ N!CallOf(i) = N!CallOf(j) => ~({objects[i].at, objects[j].at} \subseteq confirmed)
  BY <1>1 DEF N!CallOf, MadeOnce, OncePerCall
<1> QED BY <1>2, <1>3 DEF N!SurplusUnconfirmed
-----------------------------------------------------------------------------
(***************************************************************************)
(* The clients together                                                    *)
(***************************************************************************)
ClientsInv == PasskeysInv /\ ProvisioningInv /\ FrostInv /\ AuthInv /\ NodeInv

LEMMA ClientsInitHolds == ClientsInit => ClientsInv
  BY PasskeysInit, ProvisioningInit, FrostInitHolds, AuthInit, NodeInit
  DEF ClientsInit, ClientsInv

LEMMA ClientsNextKeeps == ClientsInv /\ [ClientsNext]_all => ClientsInv'
<1> SUFFICES ASSUME ClientsInv, [ClientsNext]_all PROVE ClientsInv'
  OBVIOUS
<1>1. /\ [Next]_vars /\ [P!Next]_provisioning /\ [FrostNext]_frostVars
      /\ [A!Next]_auth /\ [N!Next]_others
  BY DEF ClientsNext, all
<1>2. PasskeysInv'
  BY <1>1, PasskeysNext DEF ClientsInv
<1>3. ProvisioningInv'
  BY <1>1, ProvisioningNext DEF ClientsInv
<1>4. FrostInv'
  BY <1>1, FrostNextKeeps DEF ClientsInv
<1>5. AuthInv'
  BY <1>1, AuthNext DEF ClientsInv
<1>6. NodeInv'
  BY <1>1, NodeNext DEF ClientsInv
<1> QED BY <1>2, <1>3, <1>4, <1>5, <1>6 DEF ClientsInv

LEMMA ClientsInvHolds == ClientsSpec => []ClientsInv
  BY ClientsInitHolds, ClientsNextKeeps, PTL DEF ClientsSpec

LEMMA AuthTypes == AuthInv => A!TypeOK
<1> SUFFICES ASSUME AuthInv PROVE A!TypeOK
  OBVIOUS
<1>1. DOMAIN proofs = 1..Len(proofs)
  BY DEF AuthInv
<1> QED BY <1>1 DEF AuthInv, A!TypeOK

\* The state of every client is well typed (passkey.ts, wallet-provisioning.ts,
\* custody.ts, auth.ts and the clients of single requests).
THEOREM ClientsTypes == ClientsSpec => []ClientsTypeOK
<1>1. ClientsInv => ClientsTypeOK
  <2> SUFFICES ASSUME ClientsInv PROVE ClientsTypeOK
    OBVIOUS
  <2>1. TypeOK
    BY PasskeysTypeOK DEF ClientsInv
  <2>2. P!TypeOK
    BY DEF ClientsInv, ProvisioningInv
  <2>3. FrostTypeOK
    BY FrostInvTypes DEF ClientsInv
  <2>4. A!TypeOK
    BY AuthTypes DEF ClientsInv
  <2>5. N!TypeOK
    BY NodeTypes DEF ClientsInv
  <2> QED BY <2>1, <2>2, <2>3, <2>4, <2>5 DEF ClientsTypeOK
<1> QED BY <1>1, ClientsInvHolds, PTL

\* start, finalize, confirm and cancel of wallet-provisioning.ts: what their answers
\* told the application of a session is so.
THEOREM ToldCorrect == ClientsSpec => []ToldIsTrue
<1>1. ClientsInv => ToldIsTrue
  BY ProvisioningTold DEF ClientsInv, ToldIsTrue
<1> QED BY <1>1, ClientsInvHolds, PTL

\* What the node has and a caller does not know of is due to requests that failed
\* (src/rpc.ts, and every client of single requests): of several objects of one
\* call and its repetitions, no two were made by requests that were answered.
THEOREM SurplusIsDoubtful == ClientsSpec => []SurplusUnconfirmed
<1>1. ClientsInv => SurplusUnconfirmed
  BY NodeSafe DEF ClientsInv, SurplusUnconfirmed
<1> QED BY <1>1, ClientsInvHolds, PTL
=============================================================================
