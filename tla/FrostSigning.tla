------------------------------ MODULE FrostSigning -----------------------------
(***************************************************************************)
(* The signing surface of src/custody.ts with a 2-of-2 key, driven by the  *)
(* wallet over requests that may be lost, late or given up.  First the     *)
(* wallet recovers its share: challenge (a nonce for one unwrap), unwrap.  *)
(* Then a FROST session: start, commit, await-challenge, respond,          *)
(* finalize, with abort at any time.  A session is evicted when its time   *)
(* is over, whatever its state; what is asked of it then is refused.  The  *)
(* SDK sends one request per call and returns the state the node answers   *)
(* with; the wallet decides what to call next.  Node and wallet are        *)
(* external.                                                               *)
(***************************************************************************)
EXTENDS Naturals, FiniteSets

CONSTANTS
  Signings,          \* session ids the node can allocate
  NoSigning,
  MaxSent,           \* bound: requests of the wallet
  MaxUnderWay        \* bound: requests and answers under way

ASSUME SigningsAssumption == NoSigning \notin Signings
ASSUME SentAssumption == MaxSent \in Nat /\ MaxUnderWay \in Nat

Paths == {"escrow/challenge", "escrow/unwrap", "start", "commit",
          "await-challenge", "respond", "finalize", "abort"}
FrostSessionState == {"pending", "committed", "finalized", "aborted"}

VARIABLES
  holds,         \* escrow nonce held by the wallet, 0 for none
  unsealed,      \* the wallet has the cleartext share
  current,       \* session_id, from start
  told,          \* state of the session as last answered, or "none"
  aborts,        \* sessions of which an answer said that they are aborted
  package,       \* signing_package_b64 received
  signature,     \* sessions whose signature_b64 was received
  sent,          \* number of requests
  awaited,       \* the request the wallet awaits, 0 for none
  net,           \* requests and answers under way
  escrow,        \* node: nonces that are still good
  nonces,        \* node: number of nonces minted
  frost,         \* node: state of each session, the last one of an evicted one
  evicted        \* node: sessions it no longer has

wallet == <<holds, unsealed, current, told, aborts, package, signature, sent, awaited>>
server == <<escrow, nonces, frost, evicted>>
frostVars == <<wallet, net, server>>

FrostInit ==
  /\ holds = 0 /\ unsealed \in BOOLEAN /\ current = NoSigning /\ told = "none"
  /\ aborts = {} /\ package = FALSE /\ signature = {} /\ sent = 0 /\ awaited = 0 /\ net = {}
  /\ escrow = {} /\ nonces = 0
  /\ frost = [s \in Signings |-> "none"] /\ evicted = {}
-----------------------------------------------------------------------------
(***************************************************************************)
(* The client: one authenticated request per method, each with a DPoP      *)
(* proof of its own.                                                       *)
(***************************************************************************)
PostWithAuth(path, nonce) ==
  /\ awaited = 0 /\ sent < MaxSent /\ Cardinality(net) < MaxUnderWay
  /\ sent' = sent + 1 /\ awaited' = sent + 1
  /\ net' = net \cup {[id |-> sent + 1, path |-> path, session |-> current,
                       nonce |-> nonce, state |-> "request"]}
  /\ UNCHANGED <<unsealed, current, told, aborts, package, signature, server>>

ShareEscrowChallenge ==
  /\ ~unsealed
  /\ PostWithAuth("escrow/challenge", 0)
  /\ UNCHANGED holds

\* The nonce is the WebAuthn challenge of one assertion.  A wallet should ask
\* for another one before it tries again; the SDK sends what it is given.
ShareEscrowUnwrap ==
  /\ ~unsealed /\ holds # 0
  /\ PostWithAuth("escrow/unwrap", holds)
  /\ holds' \in {0, holds}

FrostStart ==
  /\ unsealed /\ current = NoSigning
  /\ PostWithAuth("start", 0)
  /\ UNCHANGED holds

FrostCommit ==
  /\ told = "pending" /\ PostWithAuth("commit", 0) /\ UNCHANGED holds

FrostAwaitChallenge ==
  /\ current # NoSigning /\ ~package /\ told \in {"pending", "committed"}
  /\ PostWithAuth("await-challenge", 0) /\ UNCHANGED holds

FrostRespond ==
  /\ package /\ told = "committed" /\ PostWithAuth("respond", 0) /\ UNCHANGED holds

FrostFinalize ==
  /\ package /\ told \in {"committed", "finalized"} /\ current \notin signature
  /\ PostWithAuth("finalize", 0) /\ UNCHANGED holds

FrostAbort ==
  /\ current # NoSigning /\ told \in {"pending", "committed"}
  /\ PostWithAuth("abort", 0) /\ UNCHANGED holds

StateOfMethod(m) == IF m.path = "abort" THEN "aborted" ELSE m.state

\* Every method returns the state that is in its answer; abort's is "finalized"
\* when it came too late.
AnsweredState(m) == m.state

\* An answer to the call that is awaited; "error" is a rejection.
TakeAnswer(m) ==
  /\ m.state # "request"
  /\ net' = net \ {m}
  /\ awaited' = IF awaited = m.id THEN 0 ELSE awaited
  /\ IF awaited # m.id \/ m.state = "error"
     THEN UNCHANGED <<holds, unsealed, current, told, aborts, package, signature>>
     ELSE /\ holds' = IF m.path = "escrow/challenge" THEN m.nonce ELSE holds
          /\ unsealed' = (unsealed \/ m.path = "escrow/unwrap")
          /\ current' = IF m.path = "start" THEN m.session ELSE current
          /\ told' = IF m.path \in {"escrow/challenge", "escrow/unwrap"} THEN told
                     ELSE AnsweredState(m)
          /\ aborts' = IF m.path \notin {"escrow/challenge", "escrow/unwrap"}
                          /\ AnsweredState(m) = "aborted"
                       THEN aborts \cup {m.session} ELSE aborts
          /\ package' = (package \/ (m.path = "await-challenge" /\ m.state = "committed"))
          /\ signature' = IF m.path = "finalize" /\ m.state = "finalized"
                          THEN signature \cup {m.session} ELSE signature
  /\ UNCHANGED <<sent, server>>

\* Timeout or broken connection: the request or its answer is lost, or late.
GivenUp ==
  /\ awaited # 0
  /\ awaited' = 0
  /\ \E lost \in SUBSET {m \in net : m.id = awaited} : net' = net \ lost
  /\ UNCHANGED <<holds, unsealed, current, told, aborts, package, signature, sent, server>>

\* A new session when this one gave no signature: it was aborted, or a call on
\* it failed.
StartOver ==
  /\ awaited = 0 /\ current # NoSigning /\ current \notin signature
  /\ current' = NoSigning /\ told' = "none" /\ package' = FALSE
  /\ UNCHANGED <<holds, unsealed, aborts, signature, sent, awaited, net, server>>
-----------------------------------------------------------------------------
(***************************************************************************)
(* The network and the node                                                *)
(***************************************************************************)
Reply(m, r) == net' = (net \ {m}) \cup {r}

AnswerState(m, s) == Reply(m, [m EXCEPT !.state = s])

NodeMintsNonce(m) ==
  /\ m.path = "escrow/challenge"
  /\ nonces' = nonces + 1 /\ escrow' = escrow \cup {nonces + 1}
  /\ Reply(m, [m EXCEPT !.nonce = nonces + 1, !.state = "ok"])
  /\ UNCHANGED <<frost, evicted>>

\* The nonce is removed before the assertion is verified.
NodeUnwraps(m) ==
  /\ m.path = "escrow/unwrap"
  /\ escrow' = escrow \ {m.nonce}
  /\ \/ m.nonce \in escrow /\ AnswerState(m, "ok")
     \/ AnswerState(m, "error")
  /\ UNCHANGED <<nonces, frost, evicted>>

NodeStarts(m) ==
  /\ m.path = "start"
  /\ \E s \in Signings :
       /\ frost[s] = "none"
       /\ frost' = [frost EXCEPT ![s] = "pending"]
       /\ Reply(m, [m EXCEPT !.session = s, !.state = "pending"])
  /\ UNCHANGED <<escrow, nonces, evicted>>

\* commit and respond move the session from the one state they fit.
NodeAdvances(m) ==
  /\ \E step \in {<<"commit", "pending", "committed">>, <<"respond", "committed", "finalized">>} :
       /\ m.path = step[1] /\ m.session \notin evicted /\ frost[m.session] = step[2]
       /\ frost' = [frost EXCEPT ![m.session] = step[3]]
       /\ AnswerState(m, step[3])
  /\ UNCHANGED <<escrow, nonces, evicted>>

\* The long polls answer with the state as it is then.
NodeReports(m) ==
  /\ m.path \in {"await-challenge", "finalize"} /\ m.session \notin evicted
  /\ AnswerState(m, frost[m.session])
  /\ UNCHANGED server

\* Idempotent; a finalized session stays finalized.
NodeAborts(m) ==
  /\ m.path = "abort" /\ m.session \notin evicted
  /\ frost' = [frost EXCEPT ![m.session] = IF @ \in {"pending", "committed"} THEN "aborted" ELSE @]
  /\ AnswerState(m, frost'[m.session])
  /\ UNCHANGED <<escrow, nonces, evicted>>

\* Whatever does not fit the state, or is not authorized.
NodeRefuses(m) ==
  /\ m.path # "escrow/unwrap"
  /\ AnswerState(m, "error")
  /\ UNCHANGED server

\* expires_at_ms: a session is evicted regardless of its state; a nonce lasts
\* thirty seconds.
NodeEvicts ==
  /\ \/ \E n \in escrow : escrow' = escrow \ {n} /\ UNCHANGED evicted
     \/ \E s \in Signings \ evicted :
          frost[s] # "none" /\ evicted' = evicted \cup {s} /\ UNCHANGED escrow
  /\ UNCHANGED <<wallet, net, nonces, frost>>

NodeHandles(m) ==
  /\ m.state = "request"
  /\ \/ NodeMintsNonce(m) \/ NodeUnwraps(m) \/ NodeStarts(m) \/ NodeAdvances(m)
     \/ NodeReports(m) \/ NodeAborts(m) \/ NodeRefuses(m)
  /\ UNCHANGED wallet
-----------------------------------------------------------------------------
FrostNext ==
  \/ ShareEscrowChallenge \/ ShareEscrowUnwrap \/ FrostStart \/ FrostCommit
  \/ FrostAwaitChallenge \/ FrostRespond \/ FrostFinalize \/ FrostAbort
  \/ GivenUp \/ StartOver \/ NodeEvicts
  \/ \E m \in net : TakeAnswer(m) \/ NodeHandles(m)

FrostSpec == FrostInit /\ [][FrostNext]_frostVars
-----------------------------------------------------------------------------
FrostTypeOK ==
  /\ holds \in 0..nonces /\ unsealed \in BOOLEAN /\ package \in BOOLEAN
  /\ current \in Signings \cup {NoSigning} /\ told \in FrostSessionState \cup {"none"}
  /\ aborts \cup signature \cup evicted \subseteq Signings
  /\ sent \in 0..MaxSent /\ awaited \in 0..sent /\ escrow \subseteq 1..nonces
  /\ frost \in [Signings -> FrostSessionState \cup {"none"}]
  /\ \A m \in net : m.path \in Paths /\ m.session \in Signings \cup {NoSigning}

\* What the wallet is told of the end of a signing is how it ended, then or
\* later: of a session that any answer called aborted no signature comes into
\* being, not even from a respond that is still on its way or that was given
\* up, and a signature is held only for a session that was finalized; also
\* when the session has been evicted since.
AbortedNeverSigns ==
  /\ \A s \in aborts : frost[s] = "aborted"
  /\ \A s \in signature : frost[s] = "finalized"
=============================================================================
