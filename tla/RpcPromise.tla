------------------------------ MODULE RpcPromise ------------------------------
(***************************************************************************)
(* What one method of the SDK's transport promises its caller, and nothing *)
(* of how it is kept: the returned promise settles at most once, a value   *)
(* is handed back only for a request the node executed exactly once, and a *)
(* rejection says nothing about execution - the request may have been      *)
(* executed before the rejection, may be executed after it, or never.      *)
(* The transport itself never repeats a request.                           *)
(*                                                                         *)
(* RpcClient implements this specification; the requests of TxSubmit,       *)
(* EventPoll and the other modules are promises of this kind.              *)
(***************************************************************************)
EXTENDS Naturals

CONSTANT Calls       \* the method invocations of one run of the program

VARIABLES
  promise,           \* promise[c]: what the caller of c observes
  effect             \* effect[c]: how many times the node executed c

pvars == <<promise, effect>>

PromiseStates == {"unmade", "pending", "fulfilled", "rejected"}

TypeOK ==
  /\ promise \in [Calls -> PromiseStates]
  /\ effect \in [Calls -> 0..1]

Init ==
  /\ promise = [c \in Calls |-> "unmade"]
  /\ effect = [c \in Calls |-> 0]

Make(c) ==
  /\ promise[c] = "unmade"
  /\ promise' = [promise EXCEPT ![c] = "pending"]
  /\ UNCHANGED effect

\* The node executes a request once, while the caller waits or after it gave up.
Execute(c) ==
  /\ promise[c] # "unmade"
  /\ effect[c] = 0
  /\ effect' = [effect EXCEPT ![c] = 1]
  /\ UNCHANGED promise

Fulfil(c) ==
  /\ promise[c] = "pending"
  /\ effect[c] = 1
  /\ promise' = [promise EXCEPT ![c] = "fulfilled"]
  /\ UNCHANGED effect

Reject(c) ==
  /\ promise[c] = "pending"
  /\ promise' = [promise EXCEPT ![c] = "rejected"]
  /\ UNCHANGED effect

Next == \E c \in Calls : Make(c) \/ Execute(c) \/ Fulfil(c) \/ Reject(c)

Spec == Init /\ [][Next]_pvars
=============================================================================
