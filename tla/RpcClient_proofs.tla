--------------------------- MODULE RpcClient_proofs ---------------------------
(***************************************************************************)
(* What RpcClient's runs check on two or three calls, proved for any set   *)
(* of calls, any modulus and either transport.                             *)
(*                                                                         *)
(* None of the invariants is inductive alone.  IInv adds what each stage   *)
(* of the exchange knows: an unsent request has no effect yet, an answer   *)
(* that carries a value follows an execution, and only call() can be       *)
(* answered with an RPC error.                                             *)
(***************************************************************************)
EXTENDS RpcClient, TLAPS

Exchange ==
  \A c \in Calls :
    /\ wire[c] = "none" <=> pc[c] = "idle"
    /\ pc[c] # "done" => outcome[c] = "none"
    /\ pc[c] = "done" => outcome[c] # "none"
    /\ wire[c] \in {"none", "request"} => executed[c] = 0
    /\ wire[c] = "answer" => answer[c] \in Answers
    /\ wire[c] = "answer" /\ answer[c] \in {"result", "badBody"} => executed[c] = 1
    /\ answer[c] = "rpcError" => kind[c] \in {"call", "injected"}

IInv ==
  /\ TypeOK
  /\ TimerIffPending
  /\ ResultMeansExecuted
  /\ Exchange
-----------------------------------------------------------------------------
\* (requestId + 1) % MAX_SAFE_INTEGER stays below the modulus.
LEMMA NextIdBounded ==
  ASSUME requestId \in 0..(MAX_SAFE_INTEGER - 1)
  PROVE  NextId \in 0..(MAX_SAFE_INTEGER - 1)
  BY ModulusAssumption DEF NextId
-----------------------------------------------------------------------------
LEMMA InitIInv == Init => IInv
<1> SUFFICES ASSUME Init PROVE IInv
  OBVIOUS
<1> USE KindsAssumption, ModulusAssumption DEF Init
<1>1. TypeOK
  BY DEF TypeOK, Pcs, Wires
<1>2. TimerIffPending /\ ResultMeansExecuted
  BY DEF TimerIffPending, ResultMeansExecuted, InTry
<1>3. Exchange
  BY DEF Exchange
<1> QED BY <1>1, <1>2, <1>3 DEF IInv

\* Every way out of the try block: what it needs and what it leaves.
LEMMA SettleStep ==
  ASSUME NEW c \in Calls, NEW o \in Outcomes, IInv,
         Pending(c), Settle(c, o), UNCHANGED peer,
         o = "result" => executed[c] = 1
  PROVE  IInv'
<1> USE DEF Settle, peer
<1>1. TypeOK'
  BY DEF IInv, TypeOK, Pcs
<1>2. TimerIffPending'
  BY DEF IInv, TypeOK, TimerIffPending, InTry
<1>3. ResultMeansExecuted'
  BY DEF IInv, TypeOK, ResultMeansExecuted
<1>4. Exchange'
  BY DEF IInv, TypeOK, Exchange, Pending, InTry, Outcomes
<1> QED BY <1>1, <1>2, <1>3, <1>4 DEF IInv

\* What starting a method establishes, whichever transport it uses: the two
\* start actions differ in the timer, the id and where the method waits.
LEMMA BeginStep ==
  ASSUME NEW c \in Calls, IInv, pc[c] = "idle",
         NEW at \in {"fetch", "provider"},
         TakeId(c),
         pc' = [pc EXCEPT ![c] = at],
         timer' = [timer EXCEPT ![c] = (at = "fetch")],
         wire' = [wire EXCEPT ![c] = "request"],
         UNCHANGED <<kind, outcome, answer, executed>>
  PROVE  IInv'
<1>1. /\ requestId' \in 0..(MAX_SAFE_INTEGER - 1)
      /\ id' \in [Calls -> 0..(MAX_SAFE_INTEGER - 1)]
  BY NextIdBounded DEF TakeId, IInv, TypeOK
<1>2. TypeOK'
  <2>1. /\ pc' \in [Calls -> Pcs]
        /\ timer' \in [Calls -> BOOLEAN]
        /\ wire' \in [Calls -> Wires]
    BY DEF IInv, TypeOK, Pcs, Wires
  <2> QED BY <1>1, <2>1 DEF IInv, TypeOK
<1>3. TimerIffPending'
  <2> SUFFICES ASSUME NEW d \in Calls PROVE timer'[d] <=> InTry(d)'
    BY DEF TimerIffPending
  <2>1. CASE d = c
    <3>1. timer'[d] = (at = "fetch") /\ pc'[d] = at
      BY <2>1 DEF IInv, TypeOK
    <3> QED BY <3>1 DEF InTry
  <2>2. CASE d # c
    <3>1. timer'[d] = timer[d] /\ pc'[d] = pc[d]
      BY <2>2 DEF IInv, TypeOK
    <3> QED BY <3>1 DEF IInv, TimerIffPending, InTry
  <2> QED BY <2>1, <2>2
<1>4. ResultMeansExecuted'
  BY DEF IInv, ResultMeansExecuted
<1>5. Exchange'
  <2> SUFFICES ASSUME NEW d \in Calls
               PROVE  /\ wire'[d] = "none" <=> pc'[d] = "idle"
                      /\ pc'[d] # "done" => outcome'[d] = "none"
                      /\ pc'[d] = "done" => outcome'[d] # "none"
                      /\ wire'[d] \in {"none", "request"} => executed'[d] = 0
                      /\ wire'[d] = "answer" => answer'[d] \in Answers
                      /\ wire'[d] = "answer" /\ answer'[d] \in {"result", "badBody"}
                           => executed'[d] = 1
                      /\ answer'[d] = "rpcError" => kind'[d] \in {"call", "injected"}
    BY DEF Exchange
  <2>1. CASE d = c
    BY <2>1 DEF IInv, TypeOK, Exchange
  <2>2. CASE d # c
    BY <2>2 DEF IInv, TypeOK, Exchange
  <2> QED BY <2>1, <2>2
<1> QED BY <1>1, <1>2, <1>3, <1>4, <1>5 DEF IInv

LEMMA StartInv ==
  ASSUME NEW c \in Calls, IInv, Start(c)
  PROVE  IInv'
<1>1. [timer EXCEPT ![c] = TRUE] = [timer EXCEPT ![c] = ("fetch" = "fetch")]
  OBVIOUS
<1> QED BY <1>1, BeginStep DEF Start

LEMMA StartInjectedInv ==
  ASSUME NEW c \in Calls, IInv, StartInjected(c)
  PROVE  IInv'
<1>1. ~TakesId(c) /\ TakeId(c)
  BY DEF StartInjected, TakesId, TakeId
<1>2. timer[c] = FALSE
  BY DEF StartInjected, IInv, TypeOK, TimerIffPending, InTry
<1>3. timer' = [timer EXCEPT ![c] = ("provider" = "fetch")]
  BY <1>2 DEF StartInjected, IInv, TypeOK
<1> QED BY <1>1, <1>3, BeginStep DEF StartInjected

LEMMA HeadersArriveInv ==
  ASSUME NEW c \in Calls, IInv, HeadersArrive(c)
  PROVE  IInv'
<1> USE DEF HeadersArrive
<1>1. Pending(c)
  BY DEF Pending, InTry
<1>2. CASE answer[c] = "httpError" /\ Settle(c, "httpError")
  BY <1>1, <1>2, SettleStep DEF Outcomes
<1>3. CASE /\ answer[c] # "httpError" /\ kind[c] = "postNoContent"
           /\ Settle(c, "result")
  <2>1. executed[c] = 1
    BY <1>3 DEF IInv, Exchange, Answers
  <2> QED BY <1>1, <1>3, <2>1, SettleStep DEF Outcomes
<1>4. CASE /\ pc' = [pc EXCEPT ![c] = "body"]
           /\ UNCHANGED <<requestId, kind, id, timer, outcome>>
  <2> USE DEF peer
  <2>1. TypeOK'
    BY <1>4 DEF IInv, TypeOK, Pcs
  <2>2. TimerIffPending'
    BY <1>4 DEF IInv, TypeOK, TimerIffPending, InTry
  <2>3. ResultMeansExecuted'
    BY <1>4 DEF IInv, ResultMeansExecuted
  <2>4. Exchange'
    BY <1>4 DEF IInv, TypeOK, Exchange
  <2> QED BY <2>1, <2>2, <2>3, <2>4 DEF IInv
<1> QED BY <1>2, <1>3, <1>4

LEMMA AnswerSettles ==
  ASSUME NEW c \in Calls, IInv, Pending(c), wire[c] = "answer",
         Settle(c, answer[c]), UNCHANGED peer
  PROVE  IInv'
<1>1. answer[c] \in Outcomes /\ (answer[c] = "result" => executed[c] = 1)
  BY DEF IInv, Exchange, Answers, Outcomes
<1> QED BY <1>1, SettleStep

LEMMA TimerFiresInv ==
  ASSUME NEW c \in Calls, IInv, TimerFires(c)
  PROVE  IInv'
<1>1. InTry(c) /\ Pending(c)
  BY DEF TimerFires, IInv, TimerIffPending, Pending
<1> QED BY <1>1, SettleStep DEF TimerFires, Outcomes

LEMMA PeerStepInv ==
  ASSUME NEW c \in Calls, IInv, PeerStep(c)
  PROVE  IInv'
<1>1. UNCHANGED client
  BY DEF PeerStep, PeerAnswers, MessageLost, ConnectionReset
<1> USE DEF client
<1>2. TypeOK' /\ ResultMeansExecuted' /\ Exchange'
  <2>1. CASE PeerAnswers(c)
    <3>1. PICK a \in AnswersTo(c), e \in 0..1 :
            /\ a \in {"result", "badBody"} => e = 1
            /\ answer' = [answer EXCEPT ![c] = a]
            /\ executed' = [executed EXCEPT ![c] = @ + e]
      BY <2>1 DEF PeerAnswers
    <3>2. /\ executed[c] = 0 /\ pc[c] # "idle" /\ wire[c] = "request"
          /\ wire' = [wire EXCEPT ![c] = "answer"]
      BY <2>1 DEF PeerAnswers, IInv, Exchange
    <3>3. a \in Answers /\ (a = "rpcError" => kind[c] \in {"call", "injected"})
      BY DEF AnswersTo, Answers
    <3>4. executed' = [executed EXCEPT ![c] = e]
      BY <3>1, <3>2 DEF IInv, TypeOK
    <3>5. TypeOK'
      BY <1>1, <3>1, <3>2, <3>3, <3>4 DEF IInv, TypeOK, Wires
    <3>6. ResultMeansExecuted'
      <4>1. \A d \in Calls : executed'[d] = executed[d] \/ executed[d] = 0
        BY <3>2, <3>4 DEF IInv, TypeOK
      <4> QED BY <1>1, <4>1 DEF IInv, TypeOK, ResultMeansExecuted
    <3>7. Exchange'
      BY <1>1, <3>1, <3>2, <3>3, <3>4 DEF IInv, TypeOK, Exchange
    <3> QED BY <3>5, <3>6, <3>7
  <2>2. CASE MessageLost(c) \/ ConnectionReset(c)
    <3>1. PICK w \in {"lost", "reset"} : wire' = [wire EXCEPT ![c] = w]
      BY <2>2 DEF MessageLost, ConnectionReset
    <3>2. wire[c] # "none" /\ UNCHANGED <<answer, executed>>
      BY <2>2 DEF MessageLost, ConnectionReset
    <3> QED BY <1>1, <3>1, <3>2 DEF IInv, TypeOK, Wires, ResultMeansExecuted, Exchange
  <2> QED BY <2>1, <2>2 DEF PeerStep
<1>3. TimerIffPending'
  BY <1>1 DEF IInv, TimerIffPending, InTry
<1> QED BY <1>2, <1>3 DEF IInv

LEMMA ClientStepInv ==
  ASSUME NEW c \in Calls, IInv, ClientStep(c)
  PROVE  IInv'
<1>1. CASE Start(c)
  BY <1>1, StartInv
<1>2. CASE StartInjected(c)
  BY <1>2, StartInjectedInv
<1>3. CASE HeadersArrive(c)
  BY <1>3, HeadersArriveInv
<1>4. CASE BodyArrives(c)
  BY <1>4, AnswerSettles DEF BodyArrives, Pending, InTry
<1>5. CASE ConnectionFails(c)
  BY <1>5, SettleStep DEF ConnectionFails, Pending, Outcomes
<1>6. CASE TimerFires(c)
  BY <1>6, TimerFiresInv
<1>7. CASE ProviderSettles(c)
  BY <1>7, AnswerSettles DEF ProviderSettles, Pending
<1> QED BY <1>1, <1>2, <1>3, <1>4, <1>5, <1>6, <1>7 DEF ClientStep

LEMMA NextIInv == IInv /\ [Next]_vars => IInv'
<1> SUFFICES ASSUME IInv, [Next]_vars PROVE IInv'
  OBVIOUS
<1>1. CASE UNCHANGED vars
  BY <1>1 DEF vars, client, peer, IInv, TypeOK, TimerIffPending, InTry,
              ResultMeansExecuted, Exchange
<1>2. CASE Terminated
  BY <1>1, <1>2 DEF Terminated
<1>3. ASSUME NEW c \in Calls, ClientStep(c) PROVE IInv'
  BY <1>3, ClientStepInv
<1>4. ASSUME NEW c \in Calls, PeerStep(c) PROVE IInv'
  BY <1>4, PeerStepInv
<1> QED BY <1>1, <1>2, <1>3, <1>4 DEF Next

\* The strengthened invariant holds in every reachable state.
THEOREM InductiveInvariant == Spec => []IInv
  BY InitIInv, NextIInv, PTL DEF Spec

\* Every variable keeps its type: in particular a request id never leaves
\* 0 .. MAX_SAFE_INTEGER - 1, and no request is executed twice.
THEOREM TypeCorrect == Spec => []TypeOK
<1>1. IInv => TypeOK
  BY DEF IInv
<1> QED BY <1>1, InductiveInvariant, PTL

\* The abort timer is armed exactly while a method waits inside its try block.
THEOREM TimerCorrect == Spec => []TimerIffPending
<1>1. IInv => TimerIffPending
  BY DEF IInv
<1> QED BY <1>1, InductiveInvariant, PTL

\* A returned value stands for exactly one execution.
THEOREM ResultCorrect == Spec => []ResultMeansExecuted
<1>1. IInv => ResultMeansExecuted
  BY DEF IInv
<1> QED BY <1>1, InductiveInvariant, PTL
-----------------------------------------------------------------------------
(***************************************************************************)
(* Refinement                                                              *)
(***************************************************************************)

\* Leaving the try block fulfils or rejects the promise of the caller.
LEMMA SettleImplements ==
  ASSUME NEW c \in Calls, NEW o \in Outcomes, IInv,
         Pending(c), Settle(c, o), executed' = executed,
         o = "result" => executed[c] = 1
  PROVE  Promise!Next
<1>1. promises[c] = "pending"
  BY DEF promises, PromiseOf, Pending, InTry
<1>2. pc'[c] = "done" /\ outcome'[c] = o
  BY DEF Settle, IInv, TypeOK
<1>3. promises' = [promises EXCEPT ![c] = IF o = "result" THEN "fulfilled" ELSE "rejected"]
  <2>1. PromiseOf(c)' = IF o = "result" THEN "fulfilled" ELSE "rejected"
    BY <1>2 DEF PromiseOf
  <2>2. \A d \in Calls : d # c => PromiseOf(d)' = PromiseOf(d)
    BY DEF PromiseOf, Settle, IInv, TypeOK
  <2> QED BY <2>1, <2>2 DEF promises
<1>4. Promise!Fulfil(c) \/ Promise!Reject(c)
  BY <1>1, <1>3 DEF Promise!Fulfil, Promise!Reject
<1> QED BY <1>4 DEF Promise!Next

LEMMA BeginImplements ==
  ASSUME NEW c \in Calls, NEW at \in {"fetch", "provider"}, IInv,
         pc[c] = "idle", pc' = [pc EXCEPT ![c] = at],
         outcome' = outcome, executed' = executed
  PROVE  Promise!Next
<1>1. promises[c] = "unmade"
  BY DEF promises, PromiseOf
<1>2. promises' = [promises EXCEPT ![c] = "pending"]
  BY DEF promises, PromiseOf, IInv, TypeOK
<1>3. Promise!Make(c)
  BY <1>1, <1>2 DEF Promise!Make
<1> QED BY <1>3 DEF Promise!Next

LEMMA StutterImplements ==
  ASSUME \A d \in Calls : PromiseOf(d)' = PromiseOf(d), executed' = executed
  PROVE  UNCHANGED Promise!pvars
  BY DEF Promise!pvars, promises

LEMMA StepImplements ==
  ASSUME IInv, [Next]_vars
  PROVE  [Promise!Next]_Promise!pvars
<1>1. ASSUME UNCHANGED client, executed' = executed
      PROVE  UNCHANGED Promise!pvars
  BY <1>1, StutterImplements DEF client, PromiseOf
<1>2. CASE UNCHANGED vars \/ Terminated
  BY <1>1, <1>2 DEF vars, peer, Terminated
<1>3. ASSUME NEW c \in Calls, ClientStep(c)
      PROVE  [Promise!Next]_Promise!pvars
  <2>1. CASE Start(c)
    BY <2>1, BeginImplements DEF Start
  <2>2. CASE StartInjected(c)
    BY <2>2, BeginImplements DEF StartInjected
  <2>3. CASE HeadersArrive(c)
    <3>1. Pending(c) /\ executed' = executed
      BY <2>3 DEF HeadersArrive, Pending, InTry, peer
    <3>2. CASE answer[c] = "httpError" /\ Settle(c, "httpError")
      BY <3>1, <3>2, SettleImplements DEF Outcomes
    <3>3. CASE /\ answer[c] # "httpError" /\ kind[c] = "postNoContent"
               /\ Settle(c, "result")
      <4>1. executed[c] = 1
        BY <2>3, <3>3 DEF HeadersArrive, IInv, Exchange, Answers
      <4> QED BY <3>1, <3>3, <4>1, SettleImplements DEF Outcomes
    <3>4. CASE pc' = [pc EXCEPT ![c] = "body"] /\ outcome' = outcome
      <4>1. pc[c] = "fetch"
        BY <2>3 DEF HeadersArrive
      <4>2. \A d \in Calls : PromiseOf(d)' = PromiseOf(d)
        BY <3>4, <4>1 DEF PromiseOf, IInv, TypeOK
      <4> QED BY <3>1, <4>2, StutterImplements
    <3> QED BY <2>3, <3>2, <3>3, <3>4 DEF HeadersArrive
  <2>4. CASE BodyArrives(c) \/ ProviderSettles(c)
    <3>1. /\ Pending(c) /\ wire[c] = "answer" /\ executed' = executed
          /\ Settle(c, answer[c])
      BY <2>4 DEF BodyArrives, ProviderSettles, Pending, InTry, peer
    <3>2. answer[c] \in Outcomes /\ (answer[c] = "result" => executed[c] = 1)
      BY <3>1 DEF IInv, Exchange, Answers, Outcomes
    <3> QED BY <3>1, <3>2, SettleImplements
  <2>5. CASE ConnectionFails(c)
    BY <2>5, SettleImplements DEF ConnectionFails, Pending, Outcomes, peer
  <2>6. CASE TimerFires(c)
    <3>1. InTry(c) /\ Pending(c)
      BY <2>6 DEF TimerFires, IInv, TimerIffPending, Pending
    <3> QED BY <2>6, <3>1, SettleImplements DEF TimerFires, Outcomes, peer
  <2> QED BY <1>3, <2>1, <2>2, <2>3, <2>4, <2>5, <2>6 DEF ClientStep
<1>4. ASSUME NEW c \in Calls, PeerStep(c)
      PROVE  [Promise!Next]_Promise!pvars
  <2>1. CASE PeerAnswers(c)
    <3>1. PICK e \in 0..1 : executed' = [executed EXCEPT ![c] = @ + e]
      BY <2>1 DEF PeerAnswers
    <3>2. executed[c] = 0 /\ pc[c] # "idle" /\ UNCHANGED client
      BY <2>1 DEF PeerAnswers, IInv, Exchange
    <3>3. CASE e = 0
      <4>1. executed' = executed
        BY <3>1, <3>2, <3>3 DEF IInv, TypeOK
      <4> QED BY <1>1, <3>2, <4>1
    <3>4. CASE e = 1
      <4>1. promises' = promises /\ promises[c] # "unmade"
        BY <3>2 DEF client, promises, PromiseOf
      <4>2. executed' = [executed EXCEPT ![c] = 1]
        BY <3>1, <3>2, <3>4 DEF IInv, TypeOK
      <4>3. Promise!Execute(c)
        BY <3>2, <4>1, <4>2 DEF Promise!Execute
      <4> QED BY <4>3 DEF Promise!Next
    <3> QED BY <3>3, <3>4
  <2>2. CASE MessageLost(c) \/ ConnectionReset(c)
    BY <1>1, <2>2 DEF MessageLost, ConnectionReset
  <2> QED BY <1>4, <2>1, <2>2 DEF PeerStep
<1> QED BY <1>2, <1>3, <1>4 DEF Next

\* The transport implements RpcPromise: one settlement, values only for
\* executed requests, no second execution, for any number of concurrent calls.
THEOREM TransportKeepsPromise == Spec => ImplementsPromise
<1>1. Init => Promise!Init
  BY DEF Init, Promise!Init, promises, PromiseOf
<1> QED
  BY <1>1, StepImplements, InductiveInvariant, PTL
  DEF Spec, ImplementsPromise, Promise!Spec
=============================================================================
