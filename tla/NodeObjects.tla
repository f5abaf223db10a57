----------------------------- MODULE NodeObjects ------------------------------
(***************************************************************************)
(* A caller of one of the single-request clients against a node that keeps *)
(* the objects the calls speak of.  A request or its answer may be lost or *)
(* late; the call then fails (RpcClient), and the caller may repeat it or  *)
(* read a list.  What a client's methods are is in the modules *Apis; what *)
(* the node does of a request is external.                                 *)
(***************************************************************************)
EXTENDS Naturals, Sequences, FiniteSets,
        WorkApis, ModelApis, PayApis, AssetApis, NetApis, AccountApis

CONSTANTS MaxRequests

ObjectsAssumption == MaxRequests \in Nat

VARIABLES
  client,     \* the client in use
  objects,    \* what the node keeps, by the order it was made in: [kind, at, live];
              \* at is the request that made it
  known,      \* those of them that the caller can name
  requests,   \* every request: [call, of, on, upTo], of the first request of the same call
  expected,   \* the request that is awaited, or 0
  doubtful,   \* the last call that failed, or 0
  confirmed,  \* requests whose answer was taken
  toNode,     \* requests under way
  toCaller    \* answers under way: [request, names]

vars == <<client, objects, known, requests, expected, doubtful, confirmed, toNode, toCaller>>

Catalogue == [
  task |-> Task, workflow |-> Workflow, capital |-> Capital, marketplace |-> Marketplace,
  agent |-> Agent, skill |-> Skill, tool |-> Tool, memory |-> Memory,
  resources |-> Resources, knowledge |-> Knowledge, mcpHost |-> McpHost,
  insurance |-> Insurance, sla |-> Sla, principalChain |-> PrincipalChain,
  lifecycle |-> Lifecycle, seedAgent |-> SeedAgent,
  provider |-> Provider, inference |-> Inference, multimodal |-> Multimodal,
  mediaGen |-> MediaGen, cortex |-> Cortex, training |-> Training, compute |-> Compute,
  storage |-> Storage, database |-> Database, files |-> Files, iroh |-> Iroh,
  snapshot |-> Snapshot, hosting |-> Hosting, device |-> Device, discovery |-> DiscoveryApi,
  settlement |-> Settlement \cup PaymentChannels, nanopayment |-> Nanopayment,
  payment |-> Payment, ap2 |-> Ap2, agentPayments |-> AgentPayments, bond |-> Bond,
  bridgeFee |-> BridgeFee, gateway |-> Gateway,
  token |-> Token, nft |-> Nft, contract |-> Contract, bridge |-> Bridge, ccip |-> Ccip,
  cct |-> Cct, debridge |-> Debridge, wormhole |-> Wormhole, wormholeNtt |-> WormholeNtt,
  hyperlane |-> Hyperlane, axelar |-> Axelar, erc8004 |-> Erc8004, erc7683 |-> Erc7683,
  erc7802 |-> Erc7802, stableAsset |-> StableAsset, secureMint |-> SecureMint,
  urwa |-> Urwa, compliance |-> Compliance, permit2 |-> Permit2, eip7702 |-> Eip7702,
  governance |-> Governance, staking |-> Staking, validators |-> Validator,
  babylon |-> Babylon, adaptiveBurn |-> AdaptiveBurn, circuitBreaker |-> CircuitBreaker,
  quota |-> Quota, apiKey |-> ApiKey, canton |-> Canton, cantonAgent |-> CantonAgent,
  events |-> Events, tee |-> Tee, zk |-> Zk, crypto |-> Crypto, caip |-> Caip,
  attestedClock |-> AttestedClock, chain |-> Chain,
  passkeys |-> PasskeyRpc, custody |-> Custody, mlDsa |-> MlDsa, wallet |-> Wallet,
  identity |-> IdentityApi, auth |-> AuthReads]

\* Two methods that differ in their name only behave alike.
Call(m) == [op |-> m.op, needs |-> m.needs, kind |-> m.kind]
Calls == {Call(m) : m \in Catalogue[client]}

Kept(kind) == {i \in DOMAIN objects : objects[i].live /\ objects[i].kind = kind}
KindsOf(on) == {objects[i].kind : i \in on}

Init ==
  /\ client \in DOMAIN Catalogue
  /\ objects = <<>> /\ known = {} /\ requests = <<>>
  /\ expected = 0 /\ doubtful = 0 /\ confirmed = {} /\ toNode = {} /\ toCaller = {}

Send(request) ==
  /\ requests' = Append(requests, request)
  /\ expected' = Len(requests) + 1
  /\ toNode' = toNode \cup {Len(requests) + 1}
  /\ UNCHANGED <<client, objects, known, confirmed, toCaller>>

MaySend == expected = 0 /\ Len(requests) < MaxRequests

\* A method is called on objects that the caller can name.
Ask ==
  /\ MaySend
  /\ \E call \in Calls, on \in SUBSET known :
       /\ KindsOf(on) = call.needs /\ Cardinality(on) = Cardinality(call.needs)
       /\ Send([call |-> call, of |-> Len(requests) + 1, on |-> on])
  /\ doubtful' = 0

\* A call that failed is made again, with the same arguments.
Repeat ==
  /\ MaySend /\ doubtful # 0
  /\ Send(requests[doubtful])
  /\ doubtful' = 0

Done(r, names) ==
  /\ toNode' = toNode \ {r}
  /\ toCaller' = toCaller \cup {[request |-> r, names |-> names]}
  /\ UNCHANGED <<client, requests, expected, doubtful, confirmed>>

\* An object that is made under a name of the call's can be named by the caller
\* whatever becomes of the answer.  The node may find that it has it already.
NodeMakes(r) ==
  LET call == requests[r].call
      made == Len(objects) + 1
      same == {i \in DOMAIN objects : requests[objects[i].at].of = requests[r].of}
  IN  \/ /\ call.op \in {"make", "named"}
         /\ objects' = Append(objects, [kind |-> call.kind, at |-> r, live |-> TRUE])
         /\ known' = IF call.op = "named" THEN known \cup {made} ELSE known
         /\ Done(r, {made})
      \/ /\ call.op = "named" /\ same # {}
         /\ Done(r, same) /\ UNCHANGED <<objects, known>>

Over(ended) ==
  objects' = [i \in DOMAIN objects |->
    IF i \in ended THEN [objects[i] EXCEPT !.live = FALSE] ELSE objects[i]]

NodeEnds(r) ==
  LET call == requests[r].call
  IN  /\ \/ call.op = "end" /\ Over({i \in requests[r].on : objects[i].kind = call.kind})
         \/ call.op = "endSome" /\ \E some \in SUBSET Kept(call.kind) : Over(some)
      /\ UNCHANGED known
      /\ Done(r, {})

NodeAnswers(r) ==
  /\ IF requests[r].call.op = "list"
     THEN \E some \in SUBSET Kept(requests[r].call.kind) : Done(r, some)
     ELSE Done(r, {})
  /\ UNCHANGED <<objects, known>>

\* A request on an object that is over is refused; a refusal may be lost too.
NodeHandles(r) ==
  IF \E i \in requests[r].on : ~objects[i].live
  THEN Done(r, {}) /\ UNCHANGED <<objects, known>>
  ELSE NodeMakes(r) \/ NodeEnds(r) \/ (requests[r].call.op \in {"use", "list"} /\ NodeAnswers(r))

RequestLost(r) ==
  /\ toNode' = toNode \ {r}
  /\ UNCHANGED <<client, objects, known, requests, expected, doubtful, confirmed, toCaller>>

\* An answer that nobody awaits any more is dropped, like a lost one.
AnswerLost(a) ==
  /\ toCaller' = toCaller \ {a}
  /\ UNCHANGED <<client, objects, known, requests, expected, doubtful, confirmed, toNode>>

TakeAnyAnswer(a) ==
  /\ expected # 0
  /\ known' = known \cup a.names
  /\ confirmed' = confirmed \cup {expected}
  /\ toCaller' = toCaller \ {a} /\ expected' = 0
  /\ UNCHANGED <<client, objects, requests, doubtful, toNode>>

\* An answer is that of the request it comes from: a fetch has one response.
TakeAnswer(a) ==
  /\ a.request = expected
  /\ known' = known \cup a.names
  /\ confirmed' = confirmed \cup {expected}
  /\ toCaller' = toCaller \ {a} /\ expected' = 0
  /\ UNCHANGED <<client, objects, requests, doubtful, toNode>>

CallFails ==
  /\ expected # 0
  /\ doubtful' = expected /\ expected' = 0
  /\ UNCHANGED <<client, objects, known, requests, confirmed, toNode, toCaller>>

Next ==
  \/ Ask \/ Repeat \/ CallFails
  \/ \E r \in toNode : NodeHandles(r) \/ RequestLost(r)
  \/ \E a \in toCaller : TakeAnswer(a) \/ AnswerLost(a)

Spec == Init /\ [][Next]_vars

TypeOK ==
  /\ client \in DOMAIN Catalogue
  /\ \A i \in DOMAIN objects : objects[i].at \in DOMAIN requests /\ objects[i].live \in BOOLEAN
  /\ known \subseteq DOMAIN objects
  /\ expected \in 0..Len(requests) /\ doubtful \in 0..Len(requests)
  /\ confirmed \subseteq DOMAIN requests
  /\ toNode \subseteq DOMAIN requests
  /\ \A a \in toCaller : a.request \in DOMAIN requests /\ a.names \subseteq DOMAIN objects

-----------------------------------------------------------------------------
CallOf(i) == requests[objects[i].at].of

\* What the node has and the caller does not know of is due to requests that
\* failed: an object the caller cannot name was made by a request whose answer
\* it never took, and of several objects that a call and its repetitions made,
\* all but one were made by such requests.  An answer that comes late, for a
\* call that was given up, accounts for nothing.
SurplusUnconfirmed ==
  /\ \A i \in DOMAIN objects : i \in known \/ objects[i].at \notin confirmed
  /\ \A i, j \in DOMAIN objects :
       i # j /\ CallOf(i) = CallOf(j) => ~({objects[i].at, objects[j].at} \subseteq confirmed)
=============================================================================
