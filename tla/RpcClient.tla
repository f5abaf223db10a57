------------------------------- MODULE RpcClient ------------------------------
(***************************************************************************)
(* src/rpc.ts: the transport every sub-client of the SDK is built on.      *)
(*                                                                         *)
(* RpcClient has six request methods - call (JSON-RPC) and get, post,      *)
(* postNoContent, postWithAuth, getWithAuth (Web API) - with one skeleton: *)
(* arm an abort timer, fetch, check the status, read the body, and in a    *)
(* finally block clear the timer.  An injected EIP-1193 transport replaces *)
(* the whole of call (but none of the other five) by provider.request; a   *)
(* call of a client with such a transport has the kind "injected".         *)
(*                                                                         *)
(* Methods run concurrently on one event loop, so every await is a point   *)
(* where other calls, the timers and the network move.  The continuation   *)
(* of a settled fetch is a microtask: no timer callback runs between the   *)
(* arrival of an answer and the code that looks at it.                     *)
(***************************************************************************)
EXTENDS Naturals

CONSTANTS
  Calls,             \* invocations of the client's methods
  Kinds,             \* the methods the invocations may use
  MAX_SAFE_INTEGER   \* Number.MAX_SAFE_INTEGER, the modulus of requestId

AllKinds ==
  {"call", "injected", "get", "post", "postNoContent", "postWithAuth", "getWithAuth"}

ASSUME KindsAssumption == Kinds \subseteq AllKinds
ASSUME ModulusAssumption == MAX_SAFE_INTEGER \in Nat \ {0}

VARIABLES
  requestId,   \* RpcClient.requestId: the id of the last JSON-RPC request
  pc,          \* where the async method stands
  kind,        \* the method called
  id,          \* const id of RpcClient.call
  timer,       \* setTimeout(() => controller.abort(), timeout) is armed
  outcome,     \* how the returned promise settled
  wire,        \* the HTTP exchange (or provider request) of the call
  answer,      \* what the peer answered
  executed     \* history: how many times the peer executed the request

client == <<requestId, pc, kind, id, timer, outcome>>
peer == <<wire, answer, executed>>
vars == <<client, peer>>

Pcs == {"idle", "fetch", "body", "provider", "done"}
Outcomes ==
  {"result", "rpcError", "httpError", "badBody", "networkError", "timeout"}
Answers == {"result", "rpcError", "httpError", "badBody"}
Wires == {"none", "request", "answer", "lost", "reset"}

\* Suspended at await fetch(...) or await response.json(), inside the try block.
InTry(c) == pc[c] \in {"fetch", "body"}
Pending(c) == InTry(c) \/ pc[c] = "provider"

Init ==
  /\ requestId = 0
  /\ pc = [c \in Calls |-> "idle"]
  /\ kind \in [Calls -> Kinds]
  /\ id = [c \in Calls |-> 0]
  /\ timer = [c \in Calls |-> FALSE]
  /\ outcome = [c \in Calls |-> "none"]
  /\ wire = [c \in Calls |-> "none"]
  /\ answer = [c \in Calls |-> "none"]
  /\ executed = [c \in Calls |-> 0]
-----------------------------------------------------------------------------
(***************************************************************************)
(* The client                                                              *)
(***************************************************************************)

NextIdUnwrapped == requestId + 1

\* (this.requestId + 1) % Number.MAX_SAFE_INTEGER
NextId == (requestId + 1) % MAX_SAFE_INTEGER

\* Only call() numbers its requests, and only when it fetches itself.
TakesId(c) == kind[c] = "call"

TakeId(c) ==
  IF TakesId(c)
  THEN /\ requestId' = NextId
       /\ id' = [id EXCEPT ![c] = NextId]
  ELSE UNCHANGED <<requestId, id>>

StartUnarmed(c) ==
  /\ pc[c] = "idle"
  /\ kind[c] # "injected"
  /\ TakeId(c)
  /\ pc' = [pc EXCEPT ![c] = "fetch"]
  /\ wire' = [wire EXCEPT ![c] = "request"]
  /\ UNCHANGED <<kind, timer, outcome, answer, executed>>

(***************************************************************************)
(* The synchronous prefix of a method: id, AbortController, timer, and the *)
(* call of fetch; the method is then suspended at the first await.         *)
(***************************************************************************)
Start(c) ==
  /\ pc[c] = "idle"
  /\ kind[c] # "injected"
  /\ TakeId(c)
  /\ pc' = [pc EXCEPT ![c] = "fetch"]
  /\ timer' = [timer EXCEPT ![c] = TRUE]
  /\ wire' = [wire EXCEPT ![c] = "request"]
  /\ UNCHANGED <<kind, outcome, answer, executed>>

\* if (this.transport) return this.transport.call(...): no id, no timer.
StartInjected(c) ==
  /\ pc[c] = "idle"
  /\ kind[c] = "injected"
  /\ pc' = [pc EXCEPT ![c] = "provider"]
  /\ wire' = [wire EXCEPT ![c] = "request"]
  /\ UNCHANGED <<requestId, kind, id, timer, outcome, answer, executed>>

SettleLeavingTimer(c, o) ==
  /\ pc' = [pc EXCEPT ![c] = "done"]
  /\ outcome' = [outcome EXCEPT ![c] = o]
  /\ UNCHANGED <<requestId, kind, id, timer>>

\* Return or throw out of the try block; finally clears the timer.
Settle(c, o) ==
  /\ pc' = [pc EXCEPT ![c] = "done"]
  /\ outcome' = [outcome EXCEPT ![c] = o]
  /\ timer' = [timer EXCEPT ![c] = FALSE]
  /\ UNCHANGED <<requestId, kind, id>>

HeadersArriveUnchecked(c) ==
  /\ pc[c] = "fetch" /\ wire[c] = "answer"
  /\ IF kind[c] = "postNoContent"
     THEN Settle(c, "result")
     ELSE /\ pc' = [pc EXCEPT ![c] = "body"]
          /\ UNCHANGED <<requestId, kind, id, timer, outcome>>
  /\ UNCHANGED peer

(***************************************************************************)
(* fetch resolves: a non-2xx status throws; postNoContent returns here     *)
(* without looking at the body; the others await response.json().          *)
(***************************************************************************)
HeadersArrive(c) ==
  /\ pc[c] = "fetch" /\ wire[c] = "answer"
  /\ \/ answer[c] = "httpError" /\ Settle(c, "httpError")
     \/ answer[c] # "httpError" /\ kind[c] = "postNoContent" /\ Settle(c, "result")
     \/ /\ answer[c] # "httpError" /\ kind[c] # "postNoContent"
        /\ pc' = [pc EXCEPT ![c] = "body"]
        /\ UNCHANGED <<requestId, kind, id, timer, outcome>>
  /\ UNCHANGED peer

(***************************************************************************)
(* response.json() settles.  A body that does not parse rejects.  call()   *)
(* turns a body with an error member into RpcCallError; get and post hand  *)
(* the parsed body back whatever it says.                                  *)
(***************************************************************************)
BodyArrives(c) ==
  /\ pc[c] = "body" /\ wire[c] = "answer"
  /\ Settle(c, answer[c])
  /\ UNCHANGED peer

\* fetch or json() rejects with something that is not an AbortError: rethrown.
ConnectionFails(c) ==
  /\ InTry(c) /\ wire[c] = "reset"
  /\ Settle(c, "networkError")
  /\ UNCHANGED peer

(***************************************************************************)
(* The timer callback aborts the controller.  A pending fetch or json()    *)
(* rejects with AbortError, which the catch block turns into the timeout   *)
(* error; on a method that has settled, abort() has no effect.             *)
(***************************************************************************)
TimerFires(c) ==
  /\ timer[c]
  /\ IF InTry(c)
     THEN Settle(c, "timeout")
     ELSE /\ timer' = [timer EXCEPT ![c] = FALSE]
          /\ UNCHANGED <<requestId, pc, kind, id, outcome>>
  /\ UNCHANGED peer

\* provider.request settles; Eip1193Transport passes it through.
ProviderSettles(c) ==
  /\ pc[c] = "provider" /\ wire[c] = "answer"
  /\ Settle(c, answer[c])
  /\ UNCHANGED peer
-----------------------------------------------------------------------------
(***************************************************************************)
(* The peer (node behind HTTP, or the injected provider): not in src/.     *)
(* It executes a request it receives once; aborting a fetch does not take  *)
(* the request back.  A refusal (RPC error, non-2xx) may come before or    *)
(* after the request took effect.                                          *)
(***************************************************************************)
AnswersTo(c) ==
  {"result"} \cup (IF kind[c] \in {"call", "injected"} THEN {"rpcError"} ELSE {})
             \cup (IF pc[c] = "provider" THEN {} ELSE {"httpError", "badBody"})

PeerAnswers(c) ==
  /\ wire[c] = "request"
  /\ \E a \in AnswersTo(c), e \in 0..1 :
       /\ a \in {"result", "badBody"} => e = 1
       /\ answer' = [answer EXCEPT ![c] = a]
       /\ executed' = [executed EXCEPT ![c] = @ + e]
  /\ wire' = [wire EXCEPT ![c] = "answer"]
  /\ UNCHANGED client

\* The request, or the answer to it, disappears without a sign.
MessageLost(c) ==
  /\ wire[c] \in {"request", "answer"}
  /\ wire' = [wire EXCEPT ![c] = "lost"]
  /\ UNCHANGED <<client, answer, executed>>

\* The connection breaks in a way the client is told of.
ConnectionReset(c) ==
  /\ wire[c] \in {"request", "answer"} /\ InTry(c)
  /\ wire' = [wire EXCEPT ![c] = "reset"]
  /\ UNCHANGED <<client, answer, executed>>
-----------------------------------------------------------------------------
ClientStep(c) ==
  \/ Start(c) \/ StartInjected(c)
  \/ HeadersArrive(c) \/ BodyArrives(c) \/ ConnectionFails(c)
  \/ TimerFires(c) \/ ProviderSettles(c)

PeerStep(c) == PeerAnswers(c) \/ MessageLost(c) \/ ConnectionReset(c)

\* Every method has returned and no request is still on its way to the peer; or
\* a call waits, without a timer, for a provider that will not answer.
Terminated ==
  /\ \A c \in Calls :
       \/ pc[c] = "done" /\ wire[c] # "request"
       \/ pc[c] = "provider" /\ wire[c] = "lost"
  /\ UNCHANGED vars

Next == (\E c \in Calls : ClientStep(c) \/ PeerStep(c)) \/ Terminated

Spec == Init /\ [][Next]_vars

\* The runtime runs a timer callback some time after its delay has passed.
FairSpec == Spec /\ \A c \in Calls : WF_vars(TimerFires(c))
-----------------------------------------------------------------------------
(***************************************************************************)
(* Properties                                                              *)
(***************************************************************************)

\* Types, and what each value of pc goes with.
TypeOK ==
  /\ requestId \in 0..(MAX_SAFE_INTEGER - 1)
  /\ pc \in [Calls -> Pcs]
  /\ kind \in [Calls -> Kinds]
  /\ id \in [Calls -> 0..(MAX_SAFE_INTEGER - 1)]
  /\ timer \in [Calls -> BOOLEAN]
  /\ outcome \in [Calls -> Outcomes \cup {"none"}]
  /\ wire \in [Calls -> Wires]
  /\ answer \in [Calls -> Answers \cup {"none"}]
  /\ executed \in [Calls -> 0..1]

\* A method that waits inside its try block can always be aborted, and no
\* timer outlives its method: an exit that missed clearTimeout would keep the
\* process alive, and a wait outside the timer would never end.
TimerIffPending == \A c \in Calls : timer[c] <=> InTry(c)

\* A value handed back stands for exactly one execution by the peer, whichever
\* method was used and whatever was refused, lost or aborted on the way.
ResultMeansExecuted ==
  \A c \in Calls : outcome[c] = "result" => executed[c] = 1

\* A method that fetches settles even if the network never says another word:
\* the one timer covers both the headers and the body.
EveryFetchSettles == \A c \in Calls : InTry(c) ~> pc[c] = "done"

\* The promise the caller holds, read off the state of the method.
PromiseOf(c) ==
  IF pc[c] = "idle" THEN "unmade"
  ELSE IF pc[c] # "done" THEN "pending"
  ELSE IF outcome[c] = "result" THEN "fulfilled" ELSE "rejected"

promises == [c \in Calls |-> PromiseOf(c)]

Promise == INSTANCE RpcPromise WITH promise <- promises, effect <- executed

\* The transport keeps the promise of RpcPromise: settled once and for all, a
\* value only for an executed request, a rejection that decides nothing, and
\* never a second execution.
ImplementsPromise == Promise!Spec
=============================================================================
