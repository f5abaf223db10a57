# Tenzro TypeScript SDK: specification and proofs

TLA+ models of the parts of the SDK whose behaviour depends on the order of
events: promises that settle late or never, requests that are executed although
their answer is lost, reads that are stale when they are used, streams that are
cut, timers that race announcements. Paths are relative to the repository root;
the package's code is in `src/` (here `src/src/`).

The SDK is a library in one JavaScript event loop. There is no preemption: code
runs from one `await` to the next without interruption, and everything else -
other calls of the same client, timers, callbacks of the application, the node,
the network - moves in between. So one action of a model is the code between two
awaits, and a state of `pc` is an await.

## 1. Inventory

### Components

| Component | Files | State it keeps | Operations | Interacts with |
|---|---|---|---|---|
| RPC transport | `rpc.ts` | `requestId`; per call an `AbortController`, a timer | `call`, `get`, `post`, `postNoContent`, `postWithAuth`, `getWithAuth`; `Eip1193Transport.request` | every client below calls it; HTTP node or injected provider |
| Transaction submission | `client.ts`, `wallet.ts`, `settlement.ts`, `bond.ts` | locals of the async method (nonce, chain id, hash) | `sendTransaction`, `signAndSend`, `sendSelfCustody`, the escrow and bond operations | two reads and a submission over the transport; signer; caller's argument object; retry loop of the caller |
| Injected wallet discovery | `eip6963.ts`, `client.ts` | `settled`, `timer`, one listener on `window` | `discoverEip6963Provider`, `fromInjected` | wallet extensions through DOM events; a timeout |
| Streaming | `streaming.ts` | reader, decoder, `active`, abort controller | `chatStream`, `chatStreamCallback`, `subscribeEvents`, `openSseConnection` | `fetch` bodies, callbacks of the application, the transport for polls |
| Authentication | `auth.ts`, `dpop.ts` | none in memory: credentials in environment variables | onboarding, linking, exchange, refresh, revocation, approvals; DPoP proofs | the transport reads the credentials at every request |
| Wallet provisioning | `wallet-provisioning.ts` | the node's session, named by its id | `start`, `finalize`, `confirm`, `cancel` | the transport |
| Custody | `custody.ts` | the node's FROST session and escrow nonces | escrow challenge and unwrap; FROST start, commit, await-challenge, respond, finalize, abort | the transport, with credentials per request; long polls |
| Passkeys | `passkey.ts`, `passkey-rpc.ts`, `signer.ts` | key of the software authenticator, `validatorModule` | `createPasskeyWallet`, `signWithPasskey`, both authenticators, signature and key conversion | WebAuthn, Web Crypto, transport |
| Canonical encodings | `identity.ts`, `app.ts`, `wallet.ts`, `caip-helpers.ts`, `did-tenzro-helpers.ts`, `svm-cross-vm.ts` | none | preimages, identifiers, payload codec | signers and nodes that must compute the same bytes |
| App settlement | `app.ts`, `identity.ts` | locals of the async methods | authorised, pre-signed and enveloped writes | canonical encodings, signer, transport, the caller's objects |
| Payments and channels; tasks, workflows and agents; inference, training and data; tokens, bridges and assets; governance, network and assurance (with Canton) | the remaining clients (listed in `PROJECT.json`) | none: what they make is kept by the node | one request per method | the transport |
| Agent wallet | `agent-wallet.ts` | none | `getRisk` and spending policy calls | several reads composed into one snapshot |
| Block synchronisation | `client.ts` | the caller's cursor | `getBlockRange`, and the loop its comment gives to applications | a chain that grows and is pruned |
| Agent cards and message formats | `signed-agent-card.ts`, `a2a-extension.ts`, `ivms101.ts` | none | builders and validators of documents | - |
| Types, configuration, exports | `types.ts`, `config.ts`, `index.ts` | none | none | - |

### What is hard, and what makes each part correct

*Transport.* A timeout, a broken connection, an HTTP error, an unreadable body
and an RPC error can each come before or after the node executed the request.
Correct means: every method that fetches settles; no timer outlives its method; a
value is handed back only for an executed request; nothing is sent twice; the
promise settles once.

*Transaction submission.* Nonce and chain id are read in requests of their own
and submitted later; the signature takes as long as a human takes; the caller may
reuse its argument object; a retry loop repeats what may have happened already.
Correct means: a submission carries what the caller pinned or the node reported,
and something else only after a read that brought no number; a pinned nonce pays
once whatever is retried; whatever is paid is by an attempt that returned or whose
submission was seen to fail; the recipient is the one of the call, where the code
takes it at the call.

*Discovery.* Announcements, the timeout and other discoveries race, and a wallet
may announce itself while the promise executor is still running. Correct means:
one verdict, and the right one; no listener left behind; the wait ends.

*Streaming.* The network cuts the byte stream anywhere; the stream can end
early; callbacks throw or abort; poll answers are lost together with events the
node has forgotten. Correct means: tokens and messages in order and once; an end
that is reported is the server's end; after an abort nothing new is read; events
reach the callback without gap or repetition.

*Signed writes.* Bytes are taken from the caller's object, hashed and signed in
two awaits, and the request is then built from the object as it is; a lost answer
makes the caller send again. Correct means: the node applies only what the signer
was shown; a signature buys one write; nothing is applied that validation refuses.

*Encodings.* The node recomputes the bytes. Correct means: two contents never have
the same bytes; what is decoded is what was encoded; the bytes do not depend on
the order in which an object was filled.

*Sessions with the node.* Provisioning, FROST signing and authentication are
protocols over single requests, each of which may be executed although its answer
is lost or late. Correct means: what the application was told is so; an abort that
was acknowledged leaves no signature; each request carries a proof of its own.

*Passkeys.* The software authenticator makes its key in the background, and loses
it in a restart that the stored credential survives. Correct means: whatever
signature comes out for a wallet is by the key of that wallet.

*Everything else.* A method is one request. What a caller has to know is what
remains of a call whose answer was lost or given up: an object that nobody can
name, or two objects where one was asked for, must never stem from a call whose
answer the caller took.

`PROJECT.json` lists the hazards line by line, with the properties that cover
them, or with the reason why none does.

## 2. Modules

| Module | Models | Role |
|---|---|---|
| `RpcPromise` | what one request promises its caller | abstract specification |
| `RpcClient` | `src/rpc.ts` | detailed; implements `RpcPromise` |
| `RpcClient_proofs` | - | theorems about `RpcClient` |
| `TxSubmit` | `sendTransaction`, `signAndSend`, `sendSelfCustody`, `fetchNonceAndChainId` and its six callers, `withRetry` of `QUICKREF.md` | composite operations over promises of `RpcPromise` |
| `TxSubmit_proofs` | - | theorems about `TxSubmit` |
| `Discovery` | `src/eip6963.ts` | listener, timer, dispatch |
| `Discovery_proofs` | - | theorems about `Discovery` |
| `SseDecode` | splitting a chunk into lines | used by the next two |
| `ChatStream` | `chatStream`, `chatStreamCallback` | generator driven by its consumer |
| `SseConnection` | `openSseConnection` | background reader with abort |
| `EventPoll` | `subscribeEvents` | background poll loop |
| `Streaming_proofs` | - | theorems about the three consumers of streams |
| `SettlementLedger` | an account of what each signed write did | abstract specification |
| `SignedWrite` | `registerApp`, `setAppStatus`, `settleAuthorized`, `addCredential`, their pre-signed forms and `buildEnvelope` | detailed; implements `SettlementLedger` |
| `SignedWrite_proofs` | - | theorems about `SignedWrite` |
| `Bytes`, `Canonical`, `CrossVm`, `WebAuthnBytes`, `Identifiers` | fixed-width integers and framing; signed preimages; `svm-cross-vm.ts`; DER, COSE and `packAux`; DIDs, CAIP-2, base58 | pure operators |
| `Codecs` | one call of any of these functions | composes the five; states their properties |
| `Codecs_proofs` | - | theorems about the operators (integers, framing, preimages, claims order, cross-VM instructions, signatures, keys, identifiers) and about `Codecs` |
| `Provisioning` | `wallet-provisioning.ts` | application, network and node |
| `FrostSigning` | `CustodyClient` of `custody.ts`: escrow and FROST | wallet, network and node |
| `AuthSessions` | `auth.ts`, `dpop.ts`, the headers of `call`, the three requests of `signAndSend` | application, network and node |
| `PasskeyWallet` | `createPasskeyWallet`, `signWithPasskey`, both authenticators | wallets that share authenticators |
| `Wallets_proofs` | - | theorems about `FrostSigning` and `PasskeyWallet` |
| `Methods`, `WorkApis`, `ModelApis`, `PayApis`, `AssetApis`, `NetApis`, `AccountApis` | every method of the single-request clients | catalogue |
| `NodeObjects` | a caller of one of these clients whose answers may be lost | composes the catalogue |
| `Clients_proofs` | - | theorems about `Provisioning`, `AuthSessions` and `NodeObjects`, and about all clients together |
| `MC...` | - | instances for TLC |

### RpcClient

`pc[c]` is where call `c` stands: `idle`, `fetch` (awaits headers), `body`
(awaits `json()`), `provider` (awaits an injected provider), `done`. `timer[c]` is
the armed `setTimeout`, `outcome[c]` how the promise settled. `Start` is a method
up to its first await, `StartInjected` the early return of `call` into
`Eip1193Transport`, `HeadersArrive` the status check, `BodyArrives` the parse and
the error member, `ConnectionFails` and `TimerFires` the two branches of the catch
block; `Settle` is the `finally` block. `postNoContent` has no body to await.
`PeerAnswers`, `MessageLost` and `ConnectionReset` are the other side: it executes
a request it receives at most once, and a refusal may come before or after the
effect. The six methods differ in the model where they differ in the code: who
takes an id, who checks an error member, who reads a body. Every answer with status
200 is taken to be the executing node's: an intermediary's is not modelled.

The endpoint derivation of the constructor is static. Which credentials `call`
takes from the environment does not change the client's state; `AuthSessions`
models them.

### TxSubmit

`kind[o]` is the family of the operation, `given[o]` the nonce and chain id its
caller pinned, and whether its arguments pass the checks before the first await.
`pc[o]` walks through `nonce`, `chain`, `sign` and `submit`; `Proceed` is the code
that decides which of them comes next. The three families differ as the code does: a
`transfer` builds its request from the caller's object after the last read;
`selfCustody` decodes the recipient before the first read, hashes the amount as it is
before the signature, waits for a signer, and reads the amount again for the request
(`hashed`, `Amount`; `wallet.ts:286,294`); `settlement` (six operations in two files
with a copy of `fetchNonceAndChainId` each) replaces a failed read by nonce 0 or chain
1337 and submits all the same. `Parsed` is `parseInt`: an answer that is no hex number
becomes `NaN`, which `fetchNonceAndChainId` replaces by its default, which the hash of
`selfCustody` refuses (`BigInt(NaN)` throws), and which a `transfer` submits as null.
`Reject` is rejection as `withRetry` sees it. The node takes the account's nonces in
order, each once, may read a null as an omitted number, and may refuse for reasons of
its own; as in `RpcPromise`, a caller that sees its submission rejected - a JSON-RPC
error included - does not know whether it took effect. `floor`, `faults` and `doubted`
are histories for the properties: `live` when the attempt began, the reads of the
attempt that brought no number, and the attempts whose submission was seen to fail.

### Discovery

`Discover` runs the executor up to the dispatch; `AnswersInDispatch` is a wallet
that announces itself inside it, when `timer` is still in its temporal dead zone;
`ArmTimer` is the line `const timer = ...`; `TimerFires`, `AnswersLater` and
`WalletLoads` are later tasks. `Announced` is `onAnnounce` of every registered
listener. `package` settings compile for ES2022, so the dead zone is real.

### SseDecode, ChatStream, SseConnection

A body is a sequence of lines of three kinds (`data`, `done`, `other`). Each line
is three pieces on the wire (its head, its tail and its newline), and a chunk is
any run of pieces. `WholeLines` is what splitting one chunk at newlines yields
intact: nothing is carried from one chunk to the next, so a line cut inside is in
neither half. Characters are left out: no property depends on them.
`ChatStream` yields tokens to a consumer that may leave; `SseConnection` hands
messages to a callback that may abort or throw (an exception is swallowed by the
catch block around `JSON.parse`, `streaming.ts:224`, so throwing changes nothing).
A `read()` that is pending when `abort()` runs rejects; one that is already fulfilled
does not, and its chunk is handled when the continuation runs (`ReadFulfils`,
`ReadContinues`): neither the loop nor the dispatch asks the signal.
`OnlyCutLinesLost` speaks of the lines before the point where the stream stopped: the
first done line that was read, or the line at which the consumer left
(`StoppedBefore`); what is behind it was not lost but not wanted.

### EventPoll

`pc` is the loop: `subscribe`, `poll`, `deliver`, `sleep`, and its two ends. The
node keeps a queue per subscription and hands its content out with each poll; a
poll that fails ends the loop (`streaming.ts:180`), and an answer under way is
lost. Events are numbered from 1 in the order in which they happen.

### SignedWrite and SettlementLedger

`object[o]` is the caller's object, which `CallerEdits` changes at any await.
`signed[o]` are the bytes the signer is shown, `proof[o]` the content under the
durable proof of a credential, `sent` the requests, each with the content that was
in the object when it was built. `Prepare` runs to the await of the hash,
`HashResolves` to the signer, `SignerSigns` and `ProofSigned` to the request.
`PresignedFirst` and `PresignedAgain` are the pre-signed forms: one signature,
sent with every attempt. The node recomputes the bytes of a request and compares
them with what was signed, and takes a serial number (the nonce of an
authorization or an envelope) once. A value may fail the length checks
(`Acceptable`), have no canonical bytes because a number does not fit its field
(`Encodable`), and be changed by `Number()`, by which `settleAuthorized` sends chain
id and expiry (`Carried`). The pre-signed methods repeat the length checks only, so an
edit during the signature can send what the canonical bytes refuse; that it is never
applied (`InvalidNeverApplied`) rests on the signature. Not modelled is that `u32be`
wraps a margin that is negative: the check of its upper bound lets it pass, and node
and client then disagree about the bytes. `addCredential` may ask for a durable proof
or not; without it the request follows the envelope, as in `addService`. The refinement
maps what each write did to the ledger: nothing, or one entry that its signer saw.

### Bytes, Canonical, CrossVm, WebAuthnBytes, Identifiers, Codecs

Operators named after the functions. `Base` (256 in the code) and the widths are
parameters, so that TLC reaches the limits of a width with small numbers. Text is
a byte string; `Threw` is an exception. `WrittenBefore` models what `sortJson`
followed by `JSON.stringify` does: keys are inserted in byte order, and JavaScript
enumerates those that look like array indices first. A loop of the code is a
function of the step it is at: `Quotients(v, base, n)[i]` is `v` after `i` divisions
(`Shifted` for `v >>= 8n`), `Digits` stops when nothing is left, as the loops of
base58 and of a number's decimal text do, and `FromLe` reads its bytes from the last
to the first as `u64FromLeBytes` does. `SetUpTo` is `out.set` in `derToRawP256`,
which lets an `s` that is too long reach into the half of `r`.

`Codecs` has one call: its argument is any of a set, its result is what the function
gives. The sets are constants; `ArgumentsAssumption` says from which types they are.
The types are what the functions are given: texts whose length fits 32 bits, nonces
and hashes of the width that the code checks or draws, attestation objects in which
nothing before the key looks like one (`AnyObject`; the code takes the first match).
`buildTenzroCaip2` is given any text (`CaipTexts`), because it checks only the length.
`MCCodecs` gives the sets for a run.

### Provisioning, FrostSigning, AuthSessions

One action per method (`Post...` is its request), `Answered` or `TakeAnswer` for
its resolution, and an action for giving up: a timeout or a broken connection
after which the request may still be on its way and its answer may come late. The
node's side is external and as permissive as the doc comments allow: it may refuse
any request, evict a FROST session in any state (`custody.ts:559`), and answer late.
`unsure` (sessions with an unanswered confirm) and `aborts` (FROST sessions that some
answer called aborted) are histories that only properties read. `StartOver` gives a
session up that brought no signature, also one that may still be finalized by a
`respond` under way. The escrow's nonce is the wallet's to repeat or not: the SDK
forwards it. In `AuthSessions`, `proof` and `Bearer` are the environment; `proofs` are
the minted ones with the token they are bound to. Revoking a DID kills the tokens of
every DID below it, however deep (`Chain`), and revoking a token those that were
exchanged from it (`from`), as `auth.ts:186-196` and `passkey-rpc.ts:691-693` say.

### PasskeyWallet

`init[a]` is the `readyPromise` of a software instance, `creation[w]` where
`createPasskeyWallet` stands, `credential[w]` what it returned, `asked` the
assertions under way. `Restart` restores wallets from stored credentials over a
new software instance: its key is another one, and only the comparison of
credential ids keeps it from signing for the old wallet.

### NodeObjects and its catalogue

Each client's methods are described by what the code and its comments say of
them: `Make` (the node makes an object and names it in its answer), `Named` (an
argument of the call, or what follows from the arguments, names the object), `Use`,
`End`, `EndSome` (what it ends is not named by the call) and `List`, with the kinds of
objects that the arguments must name. `Ask`, `Repeat`, `TakeAnswer` and `CallFails`
are the transport's calls as the callers see them. The node may make an object again
for a repeated call, named or not, or answer with the one it has; a list may leave out
any of its objects, because most have a limit. `SurplusUnconfirmed` is what is left: an
object the caller cannot name, and all but one of the objects of a call and its
repetitions, were made by requests whose answers the caller never took. Methods that
differ only in their name are one choice for TLC (`Call`), so a run tries every kind
of call that a client has.

## 3. Runs

| Run | Instance | Shows |
|---|---|---|
| `rpc` | 2 calls, 3 kinds of method or an injected provider, modulus 2 | types, timers, results, every fetch settles, refinement of `RpcPromise` |
| `tx_kinds` | 2 concurrent operations of any family and pinning, one attempt, another sender | carried values and recipient, with reads that fail or bring no number |
| `tx_retry` | 1 operation, any family and pinning, 3 attempts, another sender | pinned nonce pays once, every payment is accounted for, the retry loop ends |
| `discovery_later` | 2 calls, 2 wanted wallets and 1 other, wanted ones answer later | verdict, listeners, settling |
| `discovery_sync` | a wanted wallet answers synchronously | violation: the promise never settles |
| `streaming` | every body of up to 3 lines and one of 4, every cut, aborts anywhere; 5 events, any failures | only cut lines are lost, order, reported ends, nothing read after an abort, no gap or repetition, a live loop delivers |
| `chat_complete` | the same bodies | violation: one token line, cut once, read to the end, is missing |
| `signed_writes` | 2 writes of any kind, 2 edits, 2 calls, values of which one fails the length checks, one has no canonical bytes and one is rounded | only signed and valid content is applied, once; refinement of `SettlementLedger` |
| `codecs` | 16 byte values, widths of 1 or 2, every argument at a limit | conversions restore, preimages are unambiguous, claims do not depend on insertion |
| `cose_last` | a key that ends its object | violation: the key is not found |
| `clients` | 2 provisioning sessions and 5 requests; 2 signings and 6 requests; 3 DIDs, one below the other, 2 tokens, 2 proofs; 2 wallets, 2 software authenticators and a platform, 2 signatures; 3 calls of each catalogued client | the properties of the four protocols, and what lost answers and repetitions leave behind |
| `dpop_reuse` | the same | violation: a request carries a proof that was taken |

`streaming` and `clients` run several components, one at a time: a variable says
which is in use and the others stutter. They share no state, so a run in which
several are in use at once is an interleaving of runs of one, and no property
relates two of them.

### Bounds

- `Calls`: calls interact through `requestId` only, so two show every
  interaction; the theorems hold for any number.
- `MAX_SAFE_INTEGER = 2`: the counter wraps within two requests. The theorems hold
  for the code's 2^53 - 1.
- `Kinds` of `rpc`: `call` (id, error member), `get` (stands for `post`,
  `postWithAuth`, `getWithAuth`: same control) and `postNoContent` (no body), and
  `injected`.
- `MaxAttempts` 1 with two operations, 3 with one: a third attempt is the first
  that follows a retry; two concurrent retried operations exceed what TLC explores
  in minutes, and are covered by the theorems.
- `MaxOthers` = 1: one foreign transaction makes a read nonce stale.
- `NodeChain` = 7 differs from 1337, the code's default.
- Bodies of three or four lines: a cut line before, between and after others.
- `MaxEvents` = 5: events before a poll, during it, and after a lost answer.
- `MaxCalls` = 2 and `MaxEdits` = 2 of `signed_writes`: a repetition after a lost
  answer, and the two edits that `ProofNeedsTwoEdits` is about.
- `Base` = 16 and widths of one or two: values just below, at and above what a
  width holds are among the arguments; framing, the preimages but one and the
  instruction codec are proved for all.
- `MaxRequests` = 5 of `Provisioning`: a whole session and one request too many,
  so that a late confirm meets a cancel. `MaxSent` = 6 of `FrostSigning`: a
  signing with its escrow round is six requests, and a second session may be started
  while requests of the first are on their way.
  `MaxUnderWay` = 2: a late request beside the one that is awaited.
- `MaxTokens` = 2: a parent and a child; three DIDs, so that a chain of control has
  two levels; `MaxCalls` = 1 of `AuthSessions`: one request under way while the node
  expires tokens and approvals. Nothing is claimed of requests that race a revocation.
- `MaxMethodCalls` = 3: a call, its repetition, and one that uses what it made.

`CHECK_DEADLOCK FALSE` is in the configurations whose system really stops: a
codec has answered (`codecs`, `cose_last`), or the bound on requests, proofs or
signatures is used up (`clients`, `dpop_reuse`).

### Fairness

Assumed is only what the runtime does: armed timers fire (`TimerFires`), code on
the stack and settled continuations run, sleeps end, a request of the transport
settles within its timeout (that is `EveryFetchSettles` of `RpcClient`, used as an
assumption in `TxSubmit` and `EventPoll`). Nothing is assumed of the node, the
network, the signer, a wallet extension or the application. Where the code has no
timer of its own - injected transport, signer, streaming fetch - no liveness is
claimed, and the hazards say so.

### Findings

1. `eip6963.ts:76` reads `timer` before it is initialised when a wallet answers the
   dispatch synchronously; the promise then never settles (`discovery_sync`).
2. `streaming.ts:107` drops a token whose line is cut by a chunk boundary, from
   what `streaming.ts:9` calls the complete output (`chat_complete`).
3. `passkey.ts:755` stops one position before the end, so a key that ends the
   attestation object - which is where the comment above says it is - is not found
   (`cose_last`).
4. `rpc.ts:107` reads the DPoP proof of the environment at every request, and
   `signAndSend` sends three requests in one call, where `dpop.ts:4-5` has a fresh
   proof on every request (`dpop_reuse`).

Not stated as runs, but visible in the models:

- an exception of `onMessage` is swallowed by the catch block meant for
  `JSON.parse` (`streaming.ts:222-225`), and one failed poll ends a subscription
  that the node keeps (`streaming.ts:180`);
- settlement and bond operations submit with a default nonce when their read fails;
- `README.md:102-105` describes nonce lookup and submission as one call; they are
  separate requests, and two transfers started together carry one nonce;
- claims are written in byte order except that keys like `"10"` come by number
  (`identity.ts:57`), unlike the sorted map that `identity.ts:38` names;
- `settleAuthorizedPresigned` and `registerAppPresigned` do not repeat the range
  checks of `bigUintBe`, and send chain id and expiry as `Number`: only the signature
  keeps what was edited meanwhile from being applied;
- an answer that is no hex number makes `signAndSend` and `sendTransaction` submit a
  null nonce or chain id (`wallet.ts:204`, `client.ts:661`);
- `buildTenzroCaip2` accepts 32 characters that are not hexadecimal, and
  `parseTenzroCaip2` does not recognise the result (`caip-helpers.ts:46`);
- `delegateTask` (`agent.ts:160`) does not send the agent id it is given.

## 4. Proofs

All theorems hold for every value of the constants that satisfies the modules'
`ASSUME`s; no theorem rests on a bound of a run.

`RpcClient_proofs`. The inductive invariant `IInv` is `TypeOK`, `TimerIffPending`,
`ResultMeansExecuted` and `Exchange`. `ResultMeansExecuted` is not
inductive: that a value was executed is decided when the peer answers, so
`Exchange` says what each state of the wire knows about the effect.
`TransportKeepsPromise` is the refinement: every
step maps to a step of `RpcPromise` or a stutter, from `IInv` before and after.

`TxSubmit_proofs`. `Locals` says what each await knows of the locals and of the
pending answer, `Log` that an attempt has one submission, in one place, `Nonces`
that the node executes each nonce once - a null in place of a number is none, and
may be executed as often as it is sent. The safety properties of the run are
inductive with these three: `PinnedPaysOnce` follows from `CarriesObserved` (every
submission of a pinned operation carries the given nonce) and `Nonces`;
`PaymentsAccounted` counts a rejected submission as doubtful whoever rejected it,
because a refusal may come after the effect. `ProceedKeeps` covers the code shared
by the first await of an attempt and the continuations after reads; `RejectKeeps`
the ways an operation ends without an answer (`ThrowKeeps`, `ReadFailsKeeps`,
`SubmissionFailsKeeps`); `AttemptKeeps` the start of an attempt, throws before the
first await included; `NodeStepKeeps` the node.

`Discovery_proofs`. `CallOf` links listener, flag, timer and promise of one call:
a call listens from its dispatch until it is settled, and has heard nothing while
it listens. `WaitCanAlwaysEnd` needs the assumption that no wanted wallet answers
synchronously - exactly the case that `discovery_sync` refutes.

`Streaming_proofs`. For `subscribeEvents`, `Line` says where each event is while
the loop lives: delivered, batch, answer and queue are consecutive and end with the
latest event. A lost answer breaks the line and ends the loop in the same step. For
the two readers, `Reading` says that a chunk holds lines received in full and that a
line the last chunk ended in is already counted as cut - without this, a line that
the next `read` completes would be neither delivered nor lost. `Handed` and
`Stopped` add that what was handed out comes before everything still in the chunk,
which is what keeps order when the next line is the least of the chunk
(`LeastLine`), and that an aborted connection has read nothing since. A `read()`
that is fulfilled but not continued (`ReadFulfils`, then `ReadContinues`) counts as read,
so a chunk that is dispatched after an abort was read before it. Bodies are any
sequences of lines, cut anywhere, so `TokensLostAreCut` speaks of every chunking; what
comes after `[DONE]` or after the consumer left is told apart (`StoppedBefore`).

`Wallets_proofs`. The passkey invariant says of every credential where it comes
from, of every wallet that its credential was returned by its authenticator, and of
every assertion under way that it names its wallet's credential; that signatures
are the wallet's (`KeysAreTheWallets`) needs all three, because a restart replaces
authenticators while assertions are asked for. For custody, `Known` says what a
message under way can still tell the wallet: while it is awaited it is about the
wallet's session, and an end it reports (aborted, finalized) is the session's,
because no step leaves an end. The node may evict a session in any state; `frost`
keeps the state it was last in, so `AbortIsFinal` speaks of what the wallet was told
before or after an eviction. Answers of the node that change one session go through
`SessionKeeps`, other answers through `AnswerKeeps`, evictions through `EvictsKeeps`.
The bounds of the model may be any natural numbers.

`Clients_proofs`. `ToldIsTrue` of provisioning is not inductive: the application is
told later than the node decides, so the invariant speaks of the messages under way.
`Confirming` says that a confirm is either the awaited one, about the application's
session, or was given up; `LiveBecause` that a live share was confirmed with the
application told, about to be told, or having given up. For tokens only the types
are proved: what the node keeps of a revocation is the node's. For the single-request clients, `NodeInv` relates requests,
answers and objects. A request makes at most one object (`MadeOnce`), even when the
node makes one for a repetition too; what an answer on its way names, and what the
caller knows of a request that was confirmed to it, is all that the request made
(`AnswersAccount`, `ConfirmedAccount`); and no two requests of one call are confirmed
(`OncePerCall`). `SurplusIsDoubtful` follows: an object the caller does not know was
made by a request whose failure it saw. `ClientsNextKeeps` puts the five invariants
together.

`SignedWrite_proofs`. The invariant ties `signed`, `proof` and `edits` to the
object - without an edit since the bytes were taken they agree - and every request
in `sent` to a consent; what the node applied is then a consent (`AppliedWasSigned`)
and its serial number is used once (`AtMostOncePerSignature`). `Encoded` says that
only arguments in range have canonical bytes, `Valid` that a request of a kind that
is validated passed the validation at the moment it was built; a request whose value
was edited out of range after its bytes were signed may still be sent, and that it is
never applied (`ValidationCorrect`) needs both, and the node's comparison of the two.
`LedgerImplemented` maps each step of the node to a ledger entry and every other
step to a stutter. The type invariant counts the calls made as the cardinality of
the pairs of an operation and a call of it that was made; `CallsBound` compares this
set with that of all such pairs.

`Codecs_proofs`. What a loop computes is an induction over its steps. It is proved
from `FirstNumber`, that a set of natural numbers which is not empty has a member
whose predecessor, if there is one, is outside: a loop that is right at the start and
right at each step has no first step at which it is wrong. In this way `UintLe` and
`UintBe` are shown to determine a number that fits (`UintDetermines`), `FromLe` to
restore it (`FromLeRestores`), and a list of framed records to be determined by its
concatenation.

- Framing and preimages. `FramingInjective`: a framed text can be taken off the front
  of a byte string in one way, if its length fits its 32 bits. `DomainsSeparated`: two
  kinds of byte string differ. `StatusInjective`, `ServiceInjective`,
  `CredentialInjective`, `EnvelopeInjective`, `SettlementInjective`, `ClaimInjective`,
  `HeaderInjective`, `AuxiliaryInjective` and `RegistrationInjective`: the encoder
  throws, or its bytes determine the fields, integers by their values and signing
  keys with their limits as a list of any length. The argument is `Splits`: two
  fronts that byte strings are cut after at the same place; a tag splits, and a front
  that splits still does when a framed text or a string of fixed width is added to
  it. The hypotheses are what the format can say: texts whose length fits 32 bits,
  nonces and hashes of their width, a topic that fits 64 bits (`u64be` drops the rest
  without an error, which is one of the hazards).
- Claims. `ByteBefore` is a strict total order on byte strings
  (`BeforeIrreflexive`, `BeforeTransitive`, `BeforeTotal`), so a finite set of keys
  has a listing in this order (`SortedExists`) and only one (`SortedOnce`).
  `SortJsonCorrect` says so of `SortJson`, which is defined by `CHOOSE`: that two
  insertions of one set of keys have one result does not rest on the choice.
  `ClaimsCorrect` is the run's `ClaimsOrderFree`.
- Cross-VM instructions. `InstructionsDecode`: an instruction the encoder accepts is
  decoded to itself. `InstructionsEncode`: bytes the decoder accepts are encoded to
  themselves, so no two byte strings are one instruction. Both hold for any widths
  (`InstructionWidthsAssumption`: the widths are natural numbers, and a VM type fits
  a byte), and need of the discriminators only that they have one width and differ.

- Digits. `Writes(d, base, v)` says that `d` holds the digits of `v`, least
  significant first and none too many. A number has one such sequence (`WritesOnce`),
  and the sequence one number (`DigitsDetermine`). From this `TransferInjective`: in
  the preimage of `transferTxHash` the amount is decimal text of any length, but the
  brace behind it is no digit, so it ends in one place and is one number. And
  `Base58KeepsNumber`: a round of `base58btcEncode` takes digits of `n` to digits of
  `Base * n` plus a byte (`AbsorbedWrites`), so the text has the number of the bytes,
  and a leading zero for each of theirs.
- Identifiers. `DidsRoundTrip`: a text parses just when a builder makes it.
  `ChainIdsRoundTrip`: a chain id built from any hexadecimal text is recognised, and
  some bytes have it. `OtherTextsUnrecognised`: any other text, whatever its length, is
  not taken for a chain id.
- Signatures and keys. `SignatureConverts`: what DER drops or adds in front of `r` and
  `s` comes back (`MinimalIntStrips`, `HalvesFilled`), for every two numbers, short or
  long form of the length. It needs of `CoordAssumption` that one byte can count the
  bytes of a signature, as 256 can count 70. `KeyExtracted` says exactly when the scan
  of `extractCosePublicKey` finds a key: when something follows it. The other case is
  the finding of `cose_last`, here for objects of every length.
- Results. `Answered` is the inductive invariant of `Codecs`: a result is the value of
  the call it answers. With the lemmas above it gives `UnambiguousCorrect` (contents of
  one kind by that kind's theorem, of two tagged kinds by `DomainsSeparated`, because
  each begins with its tag, `ContentTagged`) and `RoundTripsCorrect`, whose hypothesis
  is that something follows each key in its object.

Model-checked only: the liveness properties (`EveryFetchSettles`,
`EveryOperationEnds`, `EveryDiscoverySettles`, `AbortEnds`, `LiveLoopDelivers`),
because proofs under fairness and `ENABLED` are outside the provers used.

## 5. Not modelled

- `agent-wallet.ts`: reads composed into a snapshot; the code keeps no state and
  promises no consistency.
- The block loop of `client.ts:545`: it is a comment for applications, over paging
  rules that are the node's.
- `signed-agent-card.ts`, `a2a-extension.ts`, `ivms101.ts`: documents and their
  field checks. `types.ts`, `config.ts`, `index.ts`: no behaviour.
- Signers other than passkeys (`signer.ts`): one asynchronous call each, which
  `SignedWrite` and `TxSubmit` treat as any signer.
- What the node decides (prices, limits, permissions, whether an approval covers
  the transfer it comes with): it is not in this repository.
- Cryptography: hashes and signatures are the contents they are of.

## 6. Plan

1. Done: transport, transactions, discovery, streaming, signed writes, encodings,
   provisioning, custody, authentication, passkeys, and the catalogue of the
   single-request clients.
2. Done: the safety properties of every passing run are theorems.
3. Next: the block loop against a chain that grows and is pruned, once the paging
   rules of the node are documented.
