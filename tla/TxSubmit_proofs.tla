---------------------------- MODULE TxSubmit_proofs ----------------------------
(***************************************************************************)
(* What TxSubmit's runs check on two operations, proved for any number of  *)
(* concurrent operations, retries and other transactions of the account.   *)
(*                                                                         *)
(* The safety properties speak of submissions; the inductive invariant     *)
(* adds what makes them so: what each await knows of the locals (Locals),  *)
(* how a submission follows from the attempt that made it (Log), and that  *)
(* the node takes each nonce once (Nonces).                                *)
(***************************************************************************)
EXTENDS TxSubmit, TLAPS

Pending == {"nonce", "chain", "sign"}

\* What an operation knows while it waits.
LocalsOf(o) ==
  /\ kind[o] = "settlement" => ~PinnedNonce(o) /\ ~PinnedChain(o)
  /\ pc[o] = "idle" => attempt[o] = 0
  /\ pc[o] = "backoff" => attempt[o] < MaxAttempts
  /\ pc[o] \in Busy => attempt[o] # 0
  /\ pc[o] \in {"chain", "sign", "submit"} => nonce[o] # Unset
  /\ pc[o] \in {"sign", "submit"} => chain[o] # Unset
  /\ pc[o] = "sign" => kind[o] = "selfCustody"
  /\ pc[o] \in Busy /\ PinnedNonce(o) => pc[o] # "nonce" /\ nonce[o] = given[o].nonce
  /\ pc[o] \in Busy /\ PinnedChain(o) => pc[o] # "chain" /\ chain[o] = given[o].chain
  /\ pc[o] \in Busy /\ ~PinnedNonce(o) /\ nonce[o] # Unset => NonceOfAttempt(o, nonce[o])
  /\ pc[o] \in Busy /\ chain[o] # Unset => ChainOfAttempt(o, chain[o])
  /\ pc[o] = "nonce" /\ reply[o] \notin {Unset, NaN} =>
       floor[o] <= reply[o] /\ reply[o] <= live
  /\ pc[o] = "chain" => reply[o] \in {NodeChain, NaN, Unset}
  /\ floor[o] <= live

Locals == \A o \in Ops : LocalsOf(o)

\* One submission per attempt, in one place, and none before its attempt.
Log ==
  /\ \A t \in Txs : t.attempt <= attempt[t.op]
  /\ \A t \in Txs : pc[t.op] \in Pending => t.attempt # attempt[t.op]
  /\ \A t, u \in Txs : t.op = u.op /\ t.attempt = u.attempt => t = u

\* The node executes nonces in order, each once; a null counts as no nonce.
Nonces ==
  /\ \A t \in executed : t.nonce < live
  /\ \A t, u \in executed : t.nonce = u.nonce /\ t.nonce # NaN => t = u

IInv ==
  /\ TypeOK
  /\ Locals
  /\ Log
  /\ Nonces
  /\ CarriesObserved
  /\ PaysRecipientOfCall
  /\ PaymentsAccounted
-----------------------------------------------------------------------------
\* undefined and NaN are no natural numbers, and not the same.
LEMMA UnsetNotNat == Unset \notin Nat /\ NaN \notin Nat /\ Unset # NaN
  BY DEF Unset, NaN

LEMMA NodeChainNumber == NodeChain \in Nat /\ NodeChain # Unset
  BY ChainAssumption, UnsetNotNat

\* Whose submission a transaction is, and what fields it has.
LEMMA TxFields ==
  ASSUME TypeOK, NEW t \in Txs
  PROVE  /\ t.op \in Ops /\ t.attempt \in 1..MaxAttempts /\ t.attempt \in Nat
         /\ t.nonce \in Nat \cup {NaN} /\ t.chain \in Nat \cup {NaN}
  BY AttemptsAssumption DEF TypeOK, TxType

(***************************************************************************)
(* Attempt k of o rejects, and submits nothing: before its first await     *)
(* (k is new), between two reads, or when its submission has been answered *)
(* by an error, which leaves a doubt about attempt k.                      *)
(***************************************************************************)
LEMMA RejectKeeps ==
  ASSUME IInv, NEW o \in Ops, NEW k \in 1..MaxAttempts, NEW f \in Nat,
         NEW fs \in SUBSET {"nonce", "chain"}, NEW to \in 0..1,
         Reject(o, k), UNCHANGED <<inputs, args, node, sent>>,
         attempt' = [attempt EXCEPT ![o] = k],
         toAtCall' = [toAtCall EXCEPT ![o] = to],
         floor' = [floor EXCEPT ![o] = f],
         faults' = [faults EXCEPT ![o] = fs],
         attempt[o] <= k, f <= live, pc[o] # "returned",
         \/ k = attempt[o] /\ f = floor[o] /\ fs = faults[o] /\ to = toAtCall[o]
         \/ \A t \in Txs : t.op = o => t.attempt # k,
         doubted' = doubted \/ doubted' = [doubted EXCEPT ![o] = @ \cup {k}],
         \A t \in sent \cup executed : t.op = o => t.attempt \in doubted'[o]
  PROVE  IInv'
<1>1. /\ TypeOK /\ Locals /\ Log /\ Nonces /\ CarriesObserved /\ PaysRecipientOfCall
      /\ PaymentsAccounted
  BY DEF IInv
<1>2. /\ kind' = kind /\ given' = given /\ args' = args /\ executed' = executed
      /\ refused' = refused /\ live' = live /\ others' = others /\ sent' = sent
  BY DEF inputs, node
<1>3. /\ pc' = [pc EXCEPT ![o] = pc'[o]]
      /\ pc'[o] = "backoff" \/ pc'[o] = "threw"
      /\ pc'[o] = "backoff" => k < MaxAttempts
  BY <1>1 DEF Reject, TypeOK
<1>4. /\ nonce' = [nonce EXCEPT ![o] = Unset] /\ chain' = [chain EXCEPT ![o] = Unset]
      /\ reply' = [reply EXCEPT ![o] = Unset] /\ hashed' = [hashed EXCEPT ![o] = 0]
  BY DEF Reject, Leave
<1>5. /\ \A p \in Ops : p # o => /\ pc'[p] = pc[p] /\ doubted'[p] = doubted[p]
                                 /\ attempt'[p] = attempt[p] /\ floor'[p] = floor[p]
                                 /\ faults'[p] = faults[p] /\ toAtCall'[p] = toAtCall[p]
      /\ attempt'[o] = k /\ floor'[o] = f /\ faults'[o] = fs /\ toAtCall'[o] = to
  BY <1>1, <1>3 DEF TypeOK
<1>6. Txs' = Txs
  BY <1>2 DEF Txs
<1>7. TypeOK'
  <2>1. pc' \in [Ops -> Pcs]
    BY <1>1, <1>3 DEF TypeOK, Pcs, Ended
  <2>2. /\ nonce' \in [Ops -> Nat \cup {Unset, NaN}]
        /\ chain' \in [Ops -> Nat \cup {Unset, NaN}]
        /\ reply' \in [Ops -> Nat \cup {Unset, NaN}] /\ hashed' \in [Ops -> 0..1]
    BY <1>1, <1>4 DEF TypeOK
  <2>3. /\ attempt' \in [Ops -> 0..MaxAttempts] /\ toAtCall' \in [Ops -> 0..1]
        /\ floor' \in [Ops -> Nat] /\ faults' \in [Ops -> SUBSET {"nonce", "chain"}]
    BY <1>1, AttemptsAssumption DEF TypeOK
  <2>4. doubted' \in [Ops -> SUBSET (1..MaxAttempts)]
    BY <1>1 DEF TypeOK
  <2> QED BY <1>1, <1>2, <1>6, <2>1, <2>2, <2>3, <2>4 DEF TypeOK
<1>8. Locals'
  <2>1. ASSUME NEW p \in Ops, p # o PROVE LocalsOf(p)'
    <3>1. /\ nonce'[p] = nonce[p] /\ chain'[p] = chain[p] /\ reply'[p] = reply[p]
          /\ LocalsOf(p)
      BY <1>1, <1>4, <2>1 DEF Locals, TypeOK
    <3> QED BY <1>2, <1>5, <2>1, <3>1
        DEF LocalsOf, PinnedNonce, PinnedChain, NonceOfAttempt, ChainOfAttempt, Substitute
  <2>2. LocalsOf(o)'
    BY <1>1, <1>2, <1>3, <1>4, <1>5 DEF TypeOK, Locals, LocalsOf, PinnedNonce, PinnedChain, Busy
  <2> QED BY <2>1, <2>2 DEF Locals
<1>9. Log'
  <2> SUFFICES ASSUME NEW t \in Txs
               PROVE  t.attempt <= attempt'[t.op] /\ (pc'[t.op] \in Pending => t.attempt # attempt'[t.op])
    BY <1>1, <1>6 DEF Log
  <2>1. t.op \in Ops /\ t.attempt \in Nat /\ attempt[o] \in Nat /\ t.attempt <= attempt[t.op]
    BY <1>1, TxFields DEF Log, TypeOK
  <2> QED BY <1>1, <1>3, <1>5, <2>1 DEF Log, Pending
<1>10. Nonces'
  BY <1>1, <1>2 DEF Nonces
<1>11. CarriesObserved' /\ PaysRecipientOfCall'
  <2> SUFFICES ASSUME NEW t \in Txs
               PROVE  /\ PinnedNonce(t.op) => t.nonce = given[t.op].nonce
                      /\ PinnedChain(t.op) => t.chain = given[t.op].chain
                      /\ t.attempt = attempt'[t.op] =>
                           /\ ~PinnedNonce(t.op) => NonceOfAttempt(t.op, t.nonce)'
                           /\ ChainOfAttempt(t.op, t.chain)'
                           /\ (kind[t.op] = "transfer" => PinnedNonce(t.op) /\ PinnedChain(t.op))
                                => t.to = toAtCall'[t.op]
    BY <1>2, <1>6 DEF CarriesObserved, PaysRecipientOfCall, PinnedNonce, PinnedChain,
                      NonceOfAttempt, ChainOfAttempt, Substitute
  <2>1. t.op \in Ops
    BY <1>1, TxFields
  <2>2. CASE t.op = o /\ t.attempt = k
    <3>1. k = attempt[o] /\ f = floor[o] /\ fs = faults[o] /\ to = toAtCall[o]
      BY <2>2
    <3> QED BY <1>1, <1>2, <1>5, <2>2, <3>1 DEF CarriesObserved, PaysRecipientOfCall,
               NonceOfAttempt, ChainOfAttempt, Substitute
  <2>3. CASE ~(t.op = o /\ t.attempt = k)
    BY <1>1, <1>2, <1>5, <2>1, <2>3 DEF CarriesObserved, PaysRecipientOfCall,
       NonceOfAttempt, ChainOfAttempt, Substitute
  <2> QED BY <2>2, <2>3
<1>12. PaymentsAccounted'
  <2>1. ASSUME NEW t \in sent \cup executed
        PROVE  \/ t.attempt \in doubted'[t.op]
               \/ pc'[t.op] \in {"submit", "returned"} /\ t.attempt = attempt'[t.op]
    <3>1. t.op \in Ops
      BY <1>1, <2>1, TxFields DEF Txs
    <3> QED BY <1>1, <1>5, <2>1, <3>1 DEF PaymentsAccounted
  <2>2. ASSUME NEW p \in Ops, pc'[p] = "returned"
        PROVE  \E t \in executed : t.op = p /\ t.attempt = attempt'[p]
    BY <1>1, <1>3, <1>5, <2>2 DEF PaymentsAccounted, Mine
  <2> QED BY <1>2, <2>1, <2>2 DEF PaymentsAccounted, Mine
<1> QED
  BY <1>7, <1>8, <1>9, <1>10, <1>11, <1>12 DEF IInv

(***************************************************************************)
(* Proceed, in an attempt k that has submitted nothing yet and begins with *)
(* the caller's pinned arguments or continues with what it read.           *)
(***************************************************************************)
LEMMA ProceedKeeps ==
  ASSUME IInv, NEW o \in Ops, NEW k \in 1..MaxAttempts, NEW f \in Nat,
         NEW fs \in SUBSET {"nonce", "chain"},
         NEW n \in Nat \cup {Unset, NaN}, NEW c \in Nat \cup {Unset, NaN}, NEW to \in 0..1,
         Proceed(o, k, n, c, to),
         attempt' = [attempt EXCEPT ![o] = k],
         toAtCall' = [toAtCall EXCEPT ![o] = to],
         floor' = [floor EXCEPT ![o] = f],
         faults' = [faults EXCEPT ![o] = fs],
         UNCHANGED <<inputs, args, node, doubted>>,
         attempt[o] <= k, f <= live, pc[o] # "returned",
         \A t \in Txs : t.op = o => t.attempt # k,
         \A t \in sent \cup executed : t.op = o => t.attempt \in doubted[o],
         PinnedNonce(o) => n = given[o].nonce,
         PinnedChain(o) => c = given[o].chain,
         ~PinnedNonce(o) /\ n # Unset =>
           (f <= n /\ n <= live) \/ ("nonce" \in fs /\ n = Substitute(o, 0)),
         c # Unset => c = NodeChain \/ ("chain" \in fs /\ c = Substitute(o, DefaultChain)),
         kind[o] = "transfer" /\ PinnedNonce(o) /\ PinnedChain(o) => to = args[o]
  PROVE  IInv'
<1> DEFINE t0 == Tx(o, k, n, c, to)
<1>1. /\ TypeOK /\ Locals /\ Log /\ Nonces /\ CarriesObserved /\ PaysRecipientOfCall
      /\ PaymentsAccounted
  BY DEF IInv
<1>0. CASE Reject(o, k) /\ UNCHANGED sent
  <2>1. UNCHANGED <<inputs, args, node, sent>> /\ doubted' = doubted
    BY <1>0
  <2> QED BY <1>0, <2>1, RejectKeeps
<1>2. /\ kind' = kind /\ given' = given /\ args' = args /\ executed' = executed
      /\ refused' = refused /\ live' = live /\ others' = others /\ doubted' = doubted
  BY DEF inputs, node
<1> SUFFICES ASSUME ~(Reject(o, k) /\ UNCHANGED sent) PROVE IInv'
  BY <1>0
<1>3. /\ pc' = [pc EXCEPT ![o] = pc'[o]]
      /\ pc'[o] = "nonce" \/ pc'[o] = "chain" \/ pc'[o] = "sign" \/ pc'[o] = "submit"
      /\ pc'[o] = "nonce" <=> n = Unset
      /\ pc'[o] = "chain" => c = Unset
      /\ pc'[o] \in {"sign", "submit"} => c # Unset
      /\ pc'[o] = "sign" => kind[o] = "selfCustody"
  BY <1>1 DEF Proceed, TypeOK
<1>4. /\ nonce' = [nonce EXCEPT ![o] = n] /\ chain' = [chain EXCEPT ![o] = c]
      /\ reply' = [reply EXCEPT ![o] = Unset]
      /\ hashed' = hashed \/ hashed' = [hashed EXCEPT ![o] = args[o]]
  BY DEF Proceed
<1>5. \/ sent' = sent
      \/ sent' = sent \cup {t0} /\ pc'[o] = "submit" /\ n # Unset /\ c # Unset
  BY <1>1 DEF Proceed, TypeOK
<1>6. /\ t0.op = o /\ t0.attempt = k /\ t0.nonce = n /\ t0.chain = c
      /\ t0.to = IF kind[o] = "transfer" THEN args[o] ELSE to
  BY DEF Tx, Recipient
<1>7. n # Unset /\ c # Unset => t0 \in TxType
  <2>1. Recipient(o, to) \in 0..1 /\ Amount(o, to) \in 0..1 /\ hashed[o] \in 0..1
    BY <1>1 DEF TypeOK, Recipient, Amount
  <2> QED BY <2>1 DEF Tx, TxType
<1>8. \A t \in Txs' : t \in Txs \/ (t = t0 /\ pc'[o] = "submit" /\ n # Unset /\ c # Unset)
  BY <1>2, <1>5 DEF Txs
<1>9. TypeOK'
  <2>1. Txs' \subseteq TxType
    BY <1>1, <1>7, <1>8 DEF TypeOK
  <2>2. pc' \in [Ops -> Pcs]
    BY <1>1, <1>3 DEF TypeOK, Pcs, Busy
  <2>3. /\ attempt' \in [Ops -> 0..MaxAttempts] /\ toAtCall' \in [Ops -> 0..1]
        /\ floor' \in [Ops -> Nat] /\ faults' \in [Ops -> SUBSET {"nonce", "chain"}]
    BY <1>1, AttemptsAssumption DEF TypeOK
  <2>4. /\ nonce' \in [Ops -> Nat \cup {Unset, NaN}] /\ chain' \in [Ops -> Nat \cup {Unset, NaN}]
        /\ reply' \in [Ops -> Nat \cup {Unset, NaN}] /\ hashed' \in [Ops -> 0..1]
    BY <1>1, <1>4 DEF TypeOK
  <2> QED BY <1>1, <1>2, <2>1, <2>2, <2>3, <2>4 DEF TypeOK
<1>10. /\ \A p \in Ops : p # o => /\ pc'[p] = pc[p] /\ nonce'[p] = nonce[p]
                                  /\ chain'[p] = chain[p] /\ reply'[p] = reply[p]
                                  /\ attempt'[p] = attempt[p] /\ floor'[p] = floor[p]
                                  /\ faults'[p] = faults[p] /\ toAtCall'[p] = toAtCall[p]
       /\ attempt'[o] = k /\ floor'[o] = f /\ faults'[o] = fs /\ toAtCall'[o] = to
       /\ nonce'[o] = n /\ chain'[o] = c /\ reply'[o] = Unset
  BY <1>1, <1>3, <1>4 DEF TypeOK
<1>11. Locals'
  <2>1. ASSUME NEW p \in Ops, p # o PROVE LocalsOf(p)'
    <3>1. LocalsOf(p)
      BY <1>1 DEF Locals
    <3> QED BY <1>2, <1>10, <2>1, <3>1
        DEF LocalsOf, PinnedNonce, PinnedChain, NonceOfAttempt, ChainOfAttempt, Substitute
  <2>2. LocalsOf(o)'
    <3>1. LocalsOf(o) /\ attempt'[o] # 0
      BY <1>1, <1>10 DEF Locals
    <3>2. ~PinnedNonce(o) /\ n # Unset => NonceOfAttempt(o, n)'
      BY <1>2, <1>10 DEF NonceOfAttempt, Substitute
    <3>3. c # Unset => ChainOfAttempt(o, c)'
      BY <1>2, <1>10 DEF ChainOfAttempt, Substitute
    <3>4. PinnedChain(o) => c # Unset
      BY DEF PinnedChain
    <3>5. PinnedNonce(o) => n # Unset
      BY DEF PinnedNonce
    <3> QED BY <1>2, <1>3, <1>10, <3>1, <3>2, <3>3, <3>4, <3>5
        DEF LocalsOf, PinnedNonce, PinnedChain, Busy, NonceOfAttempt, ChainOfAttempt
  <2> QED BY <2>1, <2>2 DEF Locals
<1>12. ASSUME NEW t \in Txs
       PROVE  t.op \in Ops /\ t.attempt \in Nat /\ t # t0
  BY <1>1, <1>6, <1>12, TxFields
<1>13. Log'
  <2>1. ASSUME NEW t \in Txs' PROVE t.attempt <= attempt'[t.op]
    BY <1>1, <1>6, <1>8, <1>10, <1>12, <2>1 DEF Log, TypeOK
  <2>2. ASSUME NEW t \in Txs', pc'[t.op] \in Pending PROVE t.attempt # attempt'[t.op]
    BY <1>1, <1>6, <1>8, <1>10, <1>12, <2>2 DEF Log, Pending
  <2>3. ASSUME NEW t \in Txs', NEW u \in Txs', t.op = u.op, t.attempt = u.attempt
        PROVE  t = u
    BY <1>1, <1>6, <1>8, <1>12, <2>3 DEF Log
  <2> QED BY <2>1, <2>2, <2>3 DEF Log
<1>14. Nonces'
  BY <1>1, <1>2 DEF Nonces
<1>15. CarriesObserved' /\ PaysRecipientOfCall'
  <2> SUFFICES ASSUME NEW t \in Txs'
               PROVE  /\ PinnedNonce(t.op) => t.nonce = given[t.op].nonce
                      /\ PinnedChain(t.op) => t.chain = given[t.op].chain
                      /\ t.attempt = attempt'[t.op] =>
                           /\ ~PinnedNonce(t.op) => NonceOfAttempt(t.op, t.nonce)'
                           /\ ChainOfAttempt(t.op, t.chain)'
                           /\ (kind[t.op] = "transfer" => PinnedNonce(t.op) /\ PinnedChain(t.op))
                                => t.to = toAtCall'[t.op]
    BY <1>2 DEF CarriesObserved, PaysRecipientOfCall, PinnedNonce, PinnedChain,
                NonceOfAttempt, ChainOfAttempt, Substitute
  <2>1. CASE t \in Txs /\ t.op # o
    BY <1>1, <1>2, <1>10, <1>12, <2>1 DEF CarriesObserved, PaysRecipientOfCall,
       NonceOfAttempt, ChainOfAttempt, Substitute
  <2>2. CASE t \in Txs /\ t.op = o
    BY <1>1, <1>10, <1>12, <2>2 DEF CarriesObserved
  <2>3. CASE t = t0 /\ n # Unset /\ c # Unset
    <3>1. ~PinnedNonce(o) => NonceOfAttempt(o, n)'
      BY <1>2, <1>10, <2>3 DEF NonceOfAttempt, Substitute
    <3>2. ChainOfAttempt(o, c)'
      BY <1>2, <1>10, <2>3 DEF ChainOfAttempt, Substitute
    <3>3. t.op = o /\ t.nonce = n /\ t.chain = c /\ t.to = t0.to
      BY <1>6, <2>3
    <3>4. (kind[o] = "transfer" => PinnedNonce(o) /\ PinnedChain(o)) => t.to = toAtCall'[o]
      BY <1>6, <1>10, <3>3
    <3> QED BY <3>1, <3>2, <3>3, <3>4 DEF NonceOfAttempt, ChainOfAttempt, Substitute
  <2> QED BY <1>8, <2>1, <2>2, <2>3
<1>16. PaymentsAccounted'
  <2>1. ASSUME NEW t \in sent' \cup executed'
        PROVE  \/ t.attempt \in doubted[t.op]
               \/ pc'[t.op] \in {"submit", "returned"} /\ t.attempt = attempt'[t.op]
    <3>1. CASE t \in sent \cup executed
      <4>1. t \in Txs
        BY <3>1 DEF Txs
      <4> QED BY <1>1, <1>10, <1>12, <3>1, <4>1 DEF PaymentsAccounted
    <3>2. CASE t = t0 /\ pc'[o] = "submit"
      BY <1>6, <1>10, <3>2
    <3> QED BY <1>2, <1>5, <2>1, <3>1, <3>2
  <2>2. ASSUME NEW p \in Ops, pc'[p] = "returned"
        PROVE  \E t \in executed : t.op = p /\ t.attempt = attempt'[p]
    <3>1. p # o
      BY <1>3, <2>2
    <3> QED BY <1>1, <1>10, <2>2, <3>1 DEF PaymentsAccounted, Mine
  <2> QED BY <1>2, <2>1, <2>2 DEF PaymentsAccounted, Mine
<1> QED
  BY <1>9, <1>11, <1>13, <1>14, <1>15, <1>16 DEF IInv

(***************************************************************************)
(* The node moves on: live grows, pending reads are answered, submissions  *)
(* leave sent, and no operation takes a step.                              *)
(***************************************************************************)
LEMMA NodeKeeps ==
  ASSUME IInv, UNCHANGED <<inputs, args, pc, locals, history>>,
         reply' \in [Ops -> Nat \cup {Unset, NaN}],
         \A o \in Ops : \/ reply'[o] = reply[o]
                        \/ pc[o] = "nonce" /\ reply'[o] \in {live, NaN}
                        \/ pc[o] = "chain" /\ reply'[o] \in {NodeChain, NaN},
         live' \in Nat, live <= live', others' \in 0..MaxOthers,
         Txs' = Txs, sent' \cup executed' \subseteq sent \cup executed,
         executed \subseteq executed', Nonces'
  PROVE  IInv'
<1>1. /\ TypeOK /\ Locals /\ Log /\ Nonces /\ CarriesObserved /\ PaysRecipientOfCall
      /\ PaymentsAccounted
  BY DEF IInv
<1>2. /\ kind' = kind /\ given' = given /\ args' = args /\ pc' = pc /\ attempt' = attempt
      /\ nonce' = nonce /\ chain' = chain /\ toAtCall' = toAtCall /\ floor' = floor
      /\ hashed' = hashed /\ faults' = faults /\ doubted' = doubted
  BY DEF inputs, locals, history
<1>3. TypeOK' /\ Log'
  BY <1>1, <1>2 DEF TypeOK, Log
<1>4. ASSUME NEW o \in Ops, NEW n \in Nat \cup {Unset, NaN}, NonceOfAttempt(o, n)
      PROVE  NonceOfAttempt(o, n)'
  <2>1. floor[o] \in Nat /\ live \in Nat
    BY <1>1 DEF TypeOK
  <2> QED BY <1>2, <1>4, <2>1, UnsetNotNat DEF NonceOfAttempt, Substitute, Unset, NaN
<1>5. Locals'
  <2> SUFFICES ASSUME NEW o \in Ops PROVE LocalsOf(o)'
    BY DEF Locals
  <2>1. /\ reply[o] \in Nat \cup {Unset, NaN} /\ nonce[o] \in Nat \cup {Unset, NaN}
        /\ floor[o] \in Nat /\ live \in Nat
    BY <1>1 DEF TypeOK
  <2>2. LocalsOf(o)
    BY <1>1 DEF Locals
  <2>3. NonceOfAttempt(o, nonce[o]) => NonceOfAttempt(o, nonce[o])'
    <3>1. ASSUME NonceOfAttempt(o, nonce[o]) PROVE NonceOfAttempt(o, nonce[o])'
      <4>1. PICK n \in Nat \cup {Unset, NaN} : n = nonce[o]
        BY <2>1
      <4>2. NonceOfAttempt(o, n)'
        BY <1>4, <3>1, <4>1
      <4> QED BY <1>2, <4>1, <4>2 DEF NonceOfAttempt
    <3> QED BY <3>1
  <2>4. ChainOfAttempt(o, chain[o]) => ChainOfAttempt(o, chain[o])'
    BY <1>2 DEF ChainOfAttempt, Substitute
  <2>5. /\ pc[o] = "nonce" /\ reply'[o] \notin {Unset, NaN} =>
             floor[o] <= reply'[o] /\ reply'[o] <= live'
        /\ pc[o] = "chain" => reply'[o] \in {NodeChain, NaN, Unset}
        /\ floor[o] <= live'
    BY <2>1, <2>2 DEF LocalsOf
  <2> QED BY <1>2, <2>2, <2>3, <2>4, <2>5 DEF LocalsOf, PinnedNonce, PinnedChain
<1>6. CarriesObserved'
  <2> SUFFICES ASSUME NEW t \in Txs
               PROVE  /\ PinnedNonce(t.op) => t.nonce = given[t.op].nonce
                      /\ PinnedChain(t.op) => t.chain = given[t.op].chain
                      /\ t.attempt = attempt[t.op] =>
                           /\ ~PinnedNonce(t.op) => NonceOfAttempt(t.op, t.nonce)'
                           /\ ChainOfAttempt(t.op, t.chain)'
    BY <1>2 DEF CarriesObserved, PinnedNonce, PinnedChain, NonceOfAttempt, ChainOfAttempt
  <2>1. t.op \in Ops /\ t.nonce \in Nat \cup {Unset, NaN}
    BY <1>1, TxFields
  <2>2. NonceOfAttempt(t.op, t.nonce) => NonceOfAttempt(t.op, t.nonce)'
    BY <1>4, <2>1
  <2>3. ChainOfAttempt(t.op, t.chain) => ChainOfAttempt(t.op, t.chain)'
    BY <1>2 DEF ChainOfAttempt, Substitute
  <2> QED BY <1>1, <2>2, <2>3 DEF CarriesObserved
<1>7. PaysRecipientOfCall'
  BY <1>1, <1>2 DEF PaysRecipientOfCall, PinnedNonce, PinnedChain
<1>8. PaymentsAccounted'
  BY <1>1, <1>2 DEF PaymentsAccounted, Mine
<1> QED
  BY <1>3, <1>5, <1>6, <1>7, <1>8 DEF IInv

\* A call of the operation begins with nothing of its own submitted.
LEMMA AttemptKeeps ==
  ASSUME IInv, NEW o \in Ops, pc[o] \in {"idle", "backoff"}, Attempt(o)
  PROVE  IInv'
<1>1. TypeOK /\ LocalsOf(o) /\ Log /\ PaymentsAccounted
  BY DEF IInv, Locals
<1>2. /\ attempt[o] \in 0..MaxAttempts /\ attempt[o] + 1 \in 1..MaxAttempts
      /\ live \in Nat /\ args[o] \in 0..1
      /\ given[o].nonce \in Nat \cup {Unset} /\ given[o].chain \in {NodeChain, Unset}
  BY <1>1, AttemptsAssumption DEF TypeOK, LocalsOf
<1>3. PICK k \in 1..MaxAttempts, n \in Nat \cup {Unset, NaN}, c \in Nat \cup {Unset, NaN},
           fs \in SUBSET {"nonce", "chain"} :
        k = attempt[o] + 1 /\ n = given[o].nonce /\ c = given[o].chain /\ fs = {}
  BY <1>2, NodeChainNumber
<1>4. /\ attempt' = [attempt EXCEPT ![o] = k]
      /\ toAtCall' = [toAtCall EXCEPT ![o] = args[o]]
      /\ floor' = [floor EXCEPT ![o] = live]
      /\ faults' = [faults EXCEPT ![o] = fs]
      /\ UNCHANGED <<inputs, args, node, doubted>>
  BY <1>3 DEF Attempt
<1>5. \A t \in Txs : t.op = o => t.attempt # k
  BY <1>1, <1>2, <1>3, TxFields DEF Log
<1>6. \A t \in sent \cup executed : t.op = o => t.attempt \in doubted[o]
  BY <1>1 DEF PaymentsAccounted
<1>7. attempt[o] <= k /\ live <= live /\ pc[o] # "returned"
  BY <1>2, <1>3
<1>8. CASE ~given[o].valid
  <2>1. Reject(o, k) /\ UNCHANGED <<inputs, args, node, sent>> /\ doubted' = doubted
    BY <1>3, <1>8 DEF Attempt
  <2> QED BY <1>2, <1>4, <1>5, <1>6, <1>7, <2>1, RejectKeeps, ZenonT(60)
<1>9. CASE given[o].valid
  <2>1. Proceed(o, k, n, c, args[o])
    BY <1>3, <1>9 DEF Attempt
  <2>2. /\ PinnedNonce(o) => n = given[o].nonce
        /\ PinnedChain(o) => c = given[o].chain
        /\ ~PinnedNonce(o) /\ n # Unset =>
             (live <= n /\ n <= live) \/ ("nonce" \in fs /\ n = Substitute(o, 0))
        /\ c # Unset => c = NodeChain \/ ("chain" \in fs /\ c = Substitute(o, DefaultChain))
        /\ kind[o] = "transfer" /\ PinnedNonce(o) /\ PinnedChain(o) => args[o] = args[o]
    BY <1>2, <1>3 DEF PinnedNonce
  <2> QED BY <1>2, <1>4, <1>5, <1>6, <1>7, <2>1, <2>2, ProceedKeeps, ZenonT(60)
<1> QED BY <1>8, <1>9

\* A read has ended, and the operation goes on with the locals n and c.
LEMMA ContinueKeeps ==
  ASSUME IInv, NEW o \in Ops, pc[o] \in {"nonce", "chain"},
         NEW n \in Nat \cup {NaN}, NEW c \in Nat \cup {Unset, NaN}, Continue(o, n, c),
         NEW fs \in SUBSET {"nonce", "chain"}, faults' = [faults EXCEPT ![o] = fs],
         pc[o] = "chain" => n = nonce[o],
         pc[o] = "nonce" => c = chain[o],
         ~PinnedNonce(o) =>
           (floor[o] <= n /\ n <= live) \/ ("nonce" \in fs /\ n = Substitute(o, 0)),
         c # Unset => c = NodeChain \/ ("chain" \in fs /\ c = Substitute(o, DefaultChain))
  PROVE  IInv'
<1>1. TypeOK /\ LocalsOf(o) /\ Log /\ PaymentsAccounted
  BY DEF IInv, Locals
<1>2. /\ attempt[o] \in 1..MaxAttempts /\ floor[o] \in Nat /\ floor[o] <= live
      /\ toAtCall[o] \in 0..1
  BY <1>1, AttemptsAssumption DEF TypeOK, LocalsOf, Busy
<1>3. Proceed(o, attempt[o], n, c, toAtCall[o])
  BY DEF Continue
<1>4. /\ attempt' = [attempt EXCEPT ![o] = attempt[o]]
      /\ toAtCall' = [toAtCall EXCEPT ![o] = toAtCall[o]]
      /\ floor' = [floor EXCEPT ![o] = floor[o]]
      /\ UNCHANGED <<inputs, args, node, doubted>>
  BY <1>1 DEF Continue, TypeOK
<1>5. \A t \in Txs : t.op = o => t.attempt # attempt[o]
  BY <1>1 DEF Log, Pending
<1>6. \A t \in sent \cup executed : t.op = o => t.attempt \in doubted[o]
  BY <1>1 DEF PaymentsAccounted
<1>7. /\ attempt[o] <= attempt[o] /\ pc[o] # "returned"
      /\ PinnedNonce(o) => n = given[o].nonce
      /\ PinnedChain(o) => c = given[o].chain
      /\ ~PinnedNonce(o) /\ n # Unset =>
           (floor[o] <= n /\ n <= live) \/ ("nonce" \in fs /\ n = Substitute(o, 0))
      /\ kind[o] = "transfer" /\ PinnedNonce(o) /\ PinnedChain(o) => toAtCall[o] = args[o]
  BY <1>1, <1>2 DEF LocalsOf, Busy
<1>8. PICK m \in Nat \cup {Unset, NaN}, k \in 1..MaxAttempts, f \in Nat, to \in 0..1 :
        m = n /\ k = attempt[o] /\ f = floor[o] /\ to = toAtCall[o]
  BY <1>2
<1>9. /\ Proceed(o, k, m, c, to) /\ attempt' = [attempt EXCEPT ![o] = k]
      /\ toAtCall' = [toAtCall EXCEPT ![o] = to] /\ floor' = [floor EXCEPT ![o] = f]
      /\ UNCHANGED <<inputs, args, node, doubted>>
      /\ \A t \in Txs : t.op = o => t.attempt # k
  BY <1>3, <1>4, <1>5, <1>8
<1>10. /\ attempt[o] <= k /\ f <= live /\ pc[o] # "returned"
       /\ PinnedNonce(o) => m = given[o].nonce
       /\ PinnedChain(o) => c = given[o].chain
       /\ ~PinnedNonce(o) /\ m # Unset =>
            (f <= m /\ m <= live) \/ ("nonce" \in fs /\ m = Substitute(o, 0))
       /\ kind[o] = "transfer" /\ PinnedNonce(o) /\ PinnedChain(o) => to = args[o]
  BY <1>2, <1>7, <1>8
<1> QED
  BY <1>6, <1>9, <1>10, ProceedKeeps, ZenonT(60)

\* The signature arrives and the attempt makes its one submission.
LEMMA SignedKeeps ==
  ASSUME IInv, NEW o \in Ops, Signed(o)
  PROVE  IInv'
<1> DEFINE t0 == Tx(o, attempt[o], nonce[o], chain[o], toAtCall[o])
<1>1. /\ TypeOK /\ Locals /\ Log /\ Nonces /\ CarriesObserved
      /\ PaysRecipientOfCall /\ PaymentsAccounted /\ LocalsOf(o)
  BY DEF IInv, Locals
<1>2. /\ pc[o] = "sign" /\ pc' = [pc EXCEPT ![o] = "submit"] /\ sent' = sent \cup {t0}
      /\ kind' = kind /\ given' = given /\ args' = args /\ executed' = executed
      /\ refused' = refused /\ live' = live /\ others' = others /\ faults' = faults
      /\ attempt' = attempt /\ nonce' = nonce /\ chain' = chain /\ toAtCall' = toAtCall
      /\ reply' = reply /\ floor' = floor /\ hashed' = hashed /\ doubted' = doubted
  BY DEF Signed, inputs, locals, node, history
<1>3. kind[o] = "selfCustody" /\ attempt[o] \in 1..MaxAttempts /\ toAtCall[o] \in 0..1
      /\ nonce[o] \in Nat \cup {NaN} /\ chain[o] \in Nat \cup {NaN}
  BY <1>1, <1>2, AttemptsAssumption DEF TypeOK, LocalsOf, Busy
<1>4. /\ t0.op = o /\ t0.attempt = attempt[o] /\ t0.nonce = nonce[o] /\ t0.chain = chain[o]
      /\ t0.to = toAtCall[o] /\ t0 \in TxType
  <2>1. args[o] \in 0..1 /\ hashed[o] \in 0..1
    BY <1>1 DEF TypeOK
  <2> QED BY <1>3, <2>1 DEF Tx, Recipient, Amount, TxType
<1>5. Txs' = Txs \cup {t0}
  BY <1>2 DEF Txs
<1>6. \A t \in Txs : t.op \in Ops /\ (t.op = o => t.attempt # attempt[o])
  BY <1>1, <1>2, TxFields DEF Log, Pending
<1>7. TypeOK'
  <2>1. pc' \in [Ops -> Pcs]
    BY <1>1, <1>2 DEF TypeOK, Pcs, Busy
  <2> QED BY <1>1, <1>2, <1>4, <1>5, <2>1 DEF TypeOK
<1>8. Locals'
  <2> SUFFICES ASSUME NEW p \in Ops PROVE LocalsOf(p)'
    BY DEF Locals
  <2>1. LocalsOf(p) /\ pc'[p] = IF p = o THEN "submit" ELSE pc[p]
    BY <1>1, <1>2 DEF Locals, TypeOK
  <2>2. NonceOfAttempt(p, nonce[p])' <=> NonceOfAttempt(p, nonce[p])
    BY <1>2 DEF NonceOfAttempt, Substitute
  <2>3. ChainOfAttempt(p, chain[p])' <=> ChainOfAttempt(p, chain[p])
    BY <1>2 DEF ChainOfAttempt, Substitute
  <2> QED BY <1>2, <1>3, <2>1, <2>2, <2>3, UnsetNotNat DEF LocalsOf, PinnedNonce, PinnedChain, Busy
<1>9. Log'
  <2>1. \A t \in Txs' : t.attempt <= attempt'[t.op]
    BY <1>1, <1>2, <1>3, <1>4, <1>5 DEF Log
  <2>2. \A t \in Txs' : pc'[t.op] \in Pending => t.attempt # attempt'[t.op]
    BY <1>1, <1>2, <1>4, <1>5, <1>6 DEF Log, TypeOK, Pending
  <2>3. \A t, u \in Txs' : t.op = u.op /\ t.attempt = u.attempt => t = u
    BY <1>1, <1>4, <1>5, <1>6 DEF Log
  <2> QED BY <2>1, <2>2, <2>3 DEF Log
<1>10. PaymentsAccounted'
  BY <1>1, <1>2, <1>4 DEF PaymentsAccounted, Mine, TypeOK
<1>11. Nonces'
  BY <1>1, <1>2 DEF Nonces
<1>12. CarriesObserved'
  <2> SUFFICES ASSUME NEW t \in Txs'
               PROVE  /\ PinnedNonce(t.op) => t.nonce = given[t.op].nonce
                      /\ PinnedChain(t.op) => t.chain = given[t.op].chain
                      /\ t.attempt = attempt[t.op] =>
                           /\ ~PinnedNonce(t.op) => NonceOfAttempt(t.op, t.nonce)
                           /\ ChainOfAttempt(t.op, t.chain)
    BY <1>2 DEF CarriesObserved, PinnedNonce, PinnedChain, NonceOfAttempt, ChainOfAttempt, Substitute
  <2>1. CASE t \in Txs
    BY <1>1, <2>1 DEF CarriesObserved
  <2>2. CASE t = t0
    BY <1>1, <1>2, <1>3, <1>4, <2>2, UnsetNotNat DEF LocalsOf, Busy
  <2> QED BY <1>5, <2>1, <2>2
<1>13. PaysRecipientOfCall'
  BY <1>1, <1>2, <1>4, <1>5 DEF PaysRecipientOfCall, PinnedNonce, PinnedChain
<1> QED
  BY <1>7, <1>8, <1>9, <1>10, <1>11, <1>12, <1>13 DEF IInv

\* The hash comes back and the method returns.
LEMMA SubmittedKeeps ==
  ASSUME IInv, NEW o \in Ops, Submitted(o)
  PROVE  IInv'
<1>1. /\ TypeOK /\ Locals /\ Log /\ Nonces /\ CarriesObserved /\ PaysRecipientOfCall
      /\ PaymentsAccounted
  BY DEF IInv
<1>2. /\ pc[o] = "submit" /\ pc' = [pc EXCEPT ![o] = "returned"]
      /\ kind' = kind /\ given' = given /\ args' = args /\ executed' = executed
      /\ refused' = refused /\ live' = live /\ others' = others /\ faults' = faults
      /\ attempt' = attempt /\ toAtCall' = toAtCall /\ sent' = sent /\ floor' = floor
      /\ doubted' = doubted
  BY DEF Submitted, inputs, node, history
<1>3. /\ nonce' = [nonce EXCEPT ![o] = Unset] /\ chain' = [chain EXCEPT ![o] = Unset]
      /\ reply' = [reply EXCEPT ![o] = Unset] /\ hashed' = [hashed EXCEPT ![o] = 0]
  BY DEF Submitted, Leave
<1>4. Txs' = Txs
  BY <1>2 DEF Txs
<1>5. TypeOK'
  <2>1. pc' \in [Ops -> Pcs]
    BY <1>1, <1>2 DEF TypeOK, Pcs, Ended
  <2>2. /\ nonce' \in [Ops -> Nat \cup {Unset, NaN}] /\ chain' \in [Ops -> Nat \cup {Unset, NaN}]
        /\ reply' \in [Ops -> Nat \cup {Unset, NaN}] /\ hashed' \in [Ops -> 0..1]
    BY <1>1, <1>3 DEF TypeOK
  <2> QED BY <1>1, <1>2, <1>4, <2>1, <2>2 DEF TypeOK
<1>6. Locals'
  <2>1. ASSUME NEW p \in Ops, p # o PROVE LocalsOf(p)'
    <3>1. /\ nonce'[p] = nonce[p] /\ chain'[p] = chain[p] /\ reply'[p] = reply[p]
          /\ pc'[p] = pc[p] /\ LocalsOf(p)
      BY <1>1, <1>2, <1>3, <2>1 DEF Locals, TypeOK
    <3> QED BY <1>2, <3>1
        DEF LocalsOf, PinnedNonce, PinnedChain, NonceOfAttempt, ChainOfAttempt, Substitute
  <2>2. LocalsOf(o)'
    BY <1>1, <1>2, <1>3 DEF TypeOK, Locals, LocalsOf, PinnedNonce, PinnedChain, Busy
  <2> QED BY <2>1, <2>2 DEF Locals
<1>7. Log'
  BY <1>1, <1>2, <1>4, TxFields DEF Log, TypeOK, Pending
<1>8. PaymentsAccounted'
  <2>1. \E t \in executed : Mine(o, t)
    BY DEF Submitted
  <2> QED BY <1>1, <1>2, <2>1 DEF PaymentsAccounted, Mine, TypeOK
<1>9. Nonces' /\ CarriesObserved' /\ PaysRecipientOfCall'
  BY <1>1, <1>2, <1>4 DEF Nonces, CarriesObserved, PaysRecipientOfCall, PinnedNonce, PinnedChain,
     NonceOfAttempt, ChainOfAttempt, Substitute
<1> QED
  BY <1>5, <1>6, <1>7, <1>8, <1>9 DEF IInv

\* A read that is answered: what parseInt makes of the value becomes a local.
LEMMA ReadKeeps ==
  ASSUME IInv, NEW o \in Ops, NonceRead(o) \/ ChainRead(o)
  PROVE  IInv'
<1>1. TypeOK /\ LocalsOf(o)
  BY DEF IInv, Locals
<1>2. /\ reply[o] \in Nat \cup {Unset, NaN} /\ nonce[o] \in Nat \cup {Unset, NaN}
      /\ chain[o] \in Nat \cup {Unset, NaN} /\ faults[o] \in SUBSET {"nonce", "chain"}
  BY <1>1 DEF TypeOK
<1>3. CASE NonceRead(o)
  <2>1. /\ pc[o] = "nonce" /\ reply[o] # Unset
        /\ Continue(o, Parsed(o, reply[o], 0), chain[o])
    BY <1>3 DEF NonceRead
  <2>2. PICK n \in Nat \cup {NaN}, c \in Nat \cup {Unset, NaN} :
          n = Parsed(o, reply[o], 0) /\ c = chain[o]
    BY <1>2, <2>1 DEF Parsed
  <2>3. PICK fs \in SUBSET {"nonce", "chain"} :
          /\ faults' = [faults EXCEPT ![o] = fs] /\ faults[o] \subseteq fs
          /\ reply[o] = NaN => "nonce" \in fs
    <3>1. CASE reply[o] = NaN
      <4>1. /\ faults' = [faults EXCEPT ![o] = faults[o] \cup {"nonce"}]
            /\ faults[o] \cup {"nonce"} \in SUBSET {"nonce", "chain"}
        BY <1>2, <1>3, <3>1 DEF NonceRead, Fault
      <4> QED BY <4>1
    <3>2. CASE reply[o] # NaN
      <4>1. faults' = [faults EXCEPT ![o] = faults[o]]
        BY <1>1, <1>3, <3>2 DEF NonceRead, TypeOK
      <4> QED BY <1>2, <3>2, <4>1
    <3> QED BY <3>1, <3>2
  <2>4. ~PinnedNonce(o)
    BY <1>1, <2>1 DEF LocalsOf, Busy
  <2>5. (floor[o] <= n /\ n <= live) \/ ("nonce" \in fs /\ n = Substitute(o, 0))
    BY <1>1, <2>1, <2>2, <2>3 DEF LocalsOf, Parsed, Substitute
  <2>6. c # Unset => c = NodeChain \/ ("chain" \in fs /\ c = Substitute(o, DefaultChain))
    BY <1>1, <2>1, <2>2, <2>3 DEF LocalsOf, ChainOfAttempt, Busy
  <2>7. Continue(o, n, c) /\ pc[o] \in {"nonce", "chain"}
        /\ (pc[o] = "chain" => n = nonce[o]) /\ (pc[o] = "nonce" => c = chain[o])
    BY <2>1, <2>2
  <2> QED BY <2>3, <2>5, <2>6, <2>7, ContinueKeeps
<1>4. CASE ChainRead(o)
  <2>1. /\ pc[o] = "chain" /\ reply[o] # Unset
        /\ Continue(o, nonce[o], Parsed(o, reply[o], DefaultChain))
    BY <1>4 DEF ChainRead
  <2>2. PICK n \in Nat \cup {NaN}, c \in Nat \cup {Unset, NaN} :
          n = nonce[o] /\ c = Parsed(o, reply[o], DefaultChain)
    <3>1. nonce[o] \in Nat \cup {NaN}
      BY <1>1, <1>2, <2>1 DEF LocalsOf
    <3>2. Parsed(o, reply[o], DefaultChain) \in Nat \cup {Unset, NaN}
      BY <1>2 DEF Parsed, DefaultChain
    <3> QED BY <3>1, <3>2
  <2>3. PICK fs \in SUBSET {"nonce", "chain"} :
          /\ faults' = [faults EXCEPT ![o] = fs] /\ faults[o] \subseteq fs
          /\ reply[o] = NaN => "chain" \in fs
    <3>1. CASE reply[o] = NaN
      <4>1. /\ faults' = [faults EXCEPT ![o] = faults[o] \cup {"chain"}]
            /\ faults[o] \cup {"chain"} \in SUBSET {"nonce", "chain"}
        BY <1>2, <1>4, <3>1 DEF ChainRead, Fault
      <4> QED BY <4>1
    <3>2. CASE reply[o] # NaN
      <4>1. faults' = [faults EXCEPT ![o] = faults[o]]
        BY <1>1, <1>4, <3>2 DEF ChainRead, TypeOK
      <4> QED BY <1>2, <3>2, <4>1
    <3> QED BY <3>1, <3>2
  <2>4. ~PinnedNonce(o) =>
          (floor[o] <= n /\ n <= live) \/ ("nonce" \in fs /\ n = Substitute(o, 0))
    BY <1>1, <2>1, <2>2, <2>3 DEF LocalsOf, NonceOfAttempt, Busy
  <2>5. c # Unset => c = NodeChain \/ ("chain" \in fs /\ c = Substitute(o, DefaultChain))
    BY <1>1, <2>1, <2>2, <2>3 DEF LocalsOf, Parsed, Substitute
  <2>6. Continue(o, n, c) /\ pc[o] \in {"nonce", "chain"}
        /\ (pc[o] = "chain" => n = nonce[o]) /\ (pc[o] = "nonce" => c = chain[o])
    BY <2>1, <2>2
  <2> QED BY <2>3, <2>4, <2>5, <2>6, ContinueKeeps
<1> QED BY <1>3, <1>4

\* A step that throws out of the current attempt, and what it leaves in doubt.
LEMMA ThrowKeeps ==
  ASSUME IInv, NEW o \in Ops, pc[o] \in Busy, Throw(o), UNCHANGED sent,
         \/ doubted' = doubted /\ pc[o] # "submit"
         \/ doubted' = [doubted EXCEPT ![o] = @ \cup {attempt[o]}]
  PROVE  IInv'
<1>1. TypeOK /\ LocalsOf(o) /\ Log /\ PaymentsAccounted
  BY DEF IInv, Locals
<1>2. /\ attempt[o] \in 1..MaxAttempts /\ floor[o] \in Nat /\ floor[o] <= live
      /\ toAtCall[o] \in 0..1 /\ faults[o] \in SUBSET {"nonce", "chain"}
      /\ pc[o] # "returned"
  BY <1>1, AttemptsAssumption DEF TypeOK, LocalsOf, Busy
<1>3. /\ Reject(o, attempt[o]) /\ UNCHANGED <<inputs, args, node, sent>>
      /\ attempt' = [attempt EXCEPT ![o] = attempt[o]]
      /\ toAtCall' = [toAtCall EXCEPT ![o] = toAtCall[o]]
      /\ floor' = [floor EXCEPT ![o] = floor[o]]
      /\ faults' = [faults EXCEPT ![o] = faults[o]]
  BY <1>1 DEF Throw, TypeOK
<1>4. \A t \in sent \cup executed : t.op = o => t.attempt \in doubted'[o]
  BY <1>1, <1>2 DEF PaymentsAccounted, Busy, TypeOK
<1>5. attempt[o] <= attempt[o]
  BY <1>2
<1>6. doubted' = doubted \/ doubted' = [doubted EXCEPT ![o] = @ \cup {attempt[o]}]
  OBVIOUS
<1> QED BY <1>2, <1>3, <1>4, <1>5, <1>6, RejectKeeps, ZenonT(60)

\* A read that fails: fetchNonceAndChainId goes on, the others throw.
LEMMA ReadFailsKeeps ==
  ASSUME IInv, NEW o \in Ops, NonceFails(o) \/ ChainFails(o)
  PROVE  IInv'
<1>1. TypeOK /\ LocalsOf(o)
  BY DEF IInv, Locals
<1>2. pc[o] \in {"nonce", "chain"} /\ pc[o] \in Busy /\ pc[o] # "submit"
  BY DEF NonceFails, ChainFails, Busy
<1>3. CASE kind[o] # "settlement"
  <2>1. Throw(o) /\ UNCHANGED sent /\ doubted' = doubted
    BY <1>3 DEF NonceFails, ChainFails
  <2> QED BY <1>2, <2>1, ThrowKeeps
<1>4. CASE kind[o] = "settlement" /\ NonceFails(o)
  <2>1. pc[o] = "nonce" /\ Continue(o, 0, chain[o]) /\ Fault(o, "nonce")
    BY <1>4 DEF NonceFails
  <2>2. PICK n \in Nat \cup {NaN}, c \in Nat \cup {Unset, NaN},
             fs \in SUBSET {"nonce", "chain"} :
          n = 0 /\ c = chain[o] /\ fs = faults[o] \cup {"nonce"}
    BY <1>1 DEF TypeOK
  <2>3. /\ Continue(o, n, c) /\ (pc[o] = "chain" => n = nonce[o])
        /\ pc[o] = "nonce" => c = chain[o]
        /\ faults' = [faults EXCEPT ![o] = fs]
    BY <2>1, <2>2 DEF Fault
  <2>4. "nonce" \in fs /\ n = Substitute(o, 0)
    BY <1>4, <2>2 DEF Substitute
  <2>5. c # Unset => c = NodeChain \/ ("chain" \in fs /\ c = Substitute(o, DefaultChain))
    BY <1>1, <1>2, <2>2 DEF LocalsOf, ChainOfAttempt
  <2> QED BY <1>2, <2>3, <2>4, <2>5, ContinueKeeps
<1>5. CASE kind[o] = "settlement" /\ ChainFails(o)
  <2>1. pc[o] = "chain" /\ Continue(o, nonce[o], DefaultChain) /\ Fault(o, "chain")
    BY <1>5 DEF ChainFails
  <2>2. PICK n \in Nat \cup {NaN}, c \in Nat \cup {Unset, NaN},
             fs \in SUBSET {"nonce", "chain"} :
          n = nonce[o] /\ c = DefaultChain /\ fs = faults[o] \cup {"chain"}
    <3>1. /\ nonce[o] \in Nat \cup {NaN} /\ DefaultChain \in Nat
          /\ faults[o] \cup {"chain"} \in SUBSET {"nonce", "chain"}
      BY <1>1, <2>1 DEF TypeOK, LocalsOf, DefaultChain
    <3> QED BY <3>1
  <2>3. /\ Continue(o, n, c) /\ (pc[o] = "chain" => n = nonce[o])
        /\ pc[o] = "nonce" => c = chain[o]
        /\ faults' = [faults EXCEPT ![o] = fs]
    BY <2>1, <2>2 DEF Fault
  <2>4. "chain" \in fs /\ c = Substitute(o, DefaultChain)
    BY <1>5, <2>2 DEF Substitute
  <2>5. ~PinnedNonce(o) =>
          (floor[o] <= n /\ n <= live) \/ ("nonce" \in fs /\ n = Substitute(o, 0))
    BY <1>1, <1>2, <2>1, <2>2 DEF LocalsOf, NonceOfAttempt
  <2> QED BY <1>2, <2>3, <2>4, <2>5, ContinueKeeps
<1> QED BY <1>3, <1>4, <1>5

\* The hash, the signer or the submission fails; only the last leaves a doubt.
LEMMA SubmissionFailsKeeps ==
  ASSUME IInv, NEW o \in Ops, SignFails(o) \/ SubmitFails(o)
  PROVE  IInv'
<1>1. pc[o] \in Busy /\ Throw(o) /\ UNCHANGED sent
  BY DEF SignFails, SubmitFails, Busy
<1>2. \/ doubted' = doubted /\ pc[o] # "submit"
      \/ doubted' = [doubted EXCEPT ![o] = @ \cup {attempt[o]}]
  BY DEF SignFails, SubmitFails
<1> QED BY <1>1, <1>2, ThrowKeeps

\* Editing the arguments moves no submission.
LEMMA EditKeeps ==
  ASSUME IInv, NEW o \in Ops, CallerEdits(o)
  PROVE  IInv'
<1>1. /\ kind' = kind /\ given' = given /\ pc' = pc /\ executed' = executed
      /\ refused' = refused /\ live' = live /\ others' = others /\ faults' = faults
      /\ attempt' = attempt /\ nonce' = nonce /\ chain' = chain /\ toAtCall' = toAtCall
      /\ reply' = reply /\ floor' = floor /\ sent' = sent /\ hashed' = hashed
      /\ doubted' = doubted /\ args' = [args EXCEPT ![o] = 1]
  BY DEF CallerEdits, inputs, locals, node, history
<1>2. Txs' = Txs
  BY <1>1 DEF Txs
<1>3. TypeOK'
  BY <1>1, <1>2 DEF IInv, TypeOK
<1>4. Locals' /\ Log' /\ Nonces' /\ PaymentsAccounted'
  BY <1>1, <1>2 DEF IInv, Locals, LocalsOf, Log, Nonces, PinnedNonce, PinnedChain,
     NonceOfAttempt, ChainOfAttempt, Substitute, PaymentsAccounted, Mine
<1>5. CarriesObserved' /\ PaysRecipientOfCall'
  BY <1>1, <1>2 DEF IInv, CarriesObserved, PaysRecipientOfCall, PinnedNonce, PinnedChain,
     NonceOfAttempt, ChainOfAttempt, Substitute
<1> QED BY <1>3, <1>4, <1>5 DEF IInv

\* The node answers a read, executes or refuses, or takes another's transaction.
LEMMA NodeStepKeeps ==
  ASSUME IInv, Node
  PROVE  IInv'
<1>1. TypeOK /\ Nonces /\ live \in Nat /\ reply \in [Ops -> Nat \cup {Unset, NaN}]
  BY DEF IInv, TypeOK
<1>2. ASSUME NEW o \in Ops, NodeReads(o) PROVE IInv'
  <2>1. /\ UNCHANGED <<inputs, args, pc, locals, history>> /\ sent' = sent
        /\ executed' = executed /\ refused' = refused /\ live' = live /\ others' = others
        /\ pc[o] \in {"nonce", "chain"}
    BY <1>2 DEF NodeReads, node
  <2>2. PICK r \in {IF pc[o] = "nonce" THEN live ELSE NodeChain, NaN} :
          reply' = [reply EXCEPT ![o] = r]
    BY <1>2 DEF NodeReads
  <2>3. Txs' = Txs /\ Nonces'
    BY <1>1, <2>1 DEF Txs, Nonces
  <2>4. /\ reply' \in [Ops -> Nat \cup {Unset, NaN}]
        /\ \A p \in Ops : \/ reply'[p] = reply[p]
                          \/ pc[p] = "nonce" /\ reply'[p] \in {live, NaN}
                          \/ pc[p] = "chain" /\ reply'[p] \in {NodeChain, NaN}
    BY <1>1, <2>1, <2>2, NodeChainNumber
  <2>5. live' \in Nat /\ live <= live' /\ others' \in 0..MaxOthers
    BY <1>1, <2>1 DEF TypeOK
  <2> QED BY <2>1, <2>3, <2>4, <2>5, NodeKeeps
<1>3. ASSUME NEW t \in sent, NodeExecutes(t) PROVE IInv'
  <2>1. /\ UNCHANGED <<inputs, args, pc, locals, history>> /\ reply' = reply
        /\ sent' = sent \ {t} /\ executed' = executed \cup {t} /\ refused' = refused
        /\ t.nonce \in {live, NaN} /\ live' = live + 1 /\ others' = others
    BY <1>3 DEF NodeExecutes
  <2>2. Txs' = Txs
    BY <2>1 DEF Txs
  <2>3. \A u \in executed : u.nonce \in Nat \cup {NaN} /\ u.nonce < live
    BY <1>1, TxFields DEF Txs, Nonces
  <2>4. Nonces'
    BY <1>1, <2>1, <2>3 DEF Nonces, NaN
  <2>5. live' \in Nat /\ live <= live' /\ others' \in 0..MaxOthers
    BY <1>1, <2>1 DEF TypeOK
  <2> QED BY <1>1, <2>1, <2>2, <2>4, <2>5, NodeKeeps
<1>4. ASSUME NEW t \in sent, NodeRefuses(t) PROVE IInv'
  <2>1. /\ UNCHANGED <<inputs, args, pc, locals, history>> /\ reply' = reply
        /\ sent' = sent \ {t} /\ executed' = executed /\ refused' = refused \cup {t}
        /\ live' = live /\ others' = others
    BY <1>4 DEF NodeRefuses
  <2>2. Txs' = Txs /\ Nonces'
    BY <1>1, <2>1 DEF Txs, Nonces
  <2>3. live' \in Nat /\ live <= live' /\ others' \in 0..MaxOthers
    BY <1>1, <2>1 DEF TypeOK
  <2> QED BY <1>1, <2>1, <2>2, <2>3, NodeKeeps
<1>5. ASSUME OtherSends PROVE IInv'
  <2>1. /\ UNCHANGED <<inputs, args, pc, locals, history>> /\ reply' = reply /\ sent' = sent
        /\ executed' = executed /\ refused' = refused /\ live' = live + 1
        /\ others < MaxOthers /\ others' = others + 1
    BY <1>5 DEF OtherSends
  <2>2. Txs' = Txs
    BY <2>1 DEF Txs
  <2>3. \A u \in executed : u.nonce \in Nat \cup {NaN}
    BY <1>1, TxFields DEF Txs
  <2>4. Nonces'
    BY <1>1, <2>1, <2>3 DEF Nonces, NaN
  <2>5. live' \in Nat /\ live <= live' /\ others' \in 0..MaxOthers
    BY <1>1, <2>1, OthersAssumption DEF TypeOK
  <2> QED BY <1>1, <2>1, <2>2, <2>4, <2>5, NodeKeeps
<1> QED BY <1>2, <1>3, <1>4, <1>5 DEF Node

LEMMA InitEstablishes == Init => IInv
<1> SUFFICES ASSUME Init PROVE IInv
  OBVIOUS
<1>1. Txs = {} /\ executed = {} /\ sent = {} /\ refused = {} /\ live \in Nat
  BY DEF Init, Txs
<1>2. /\ given \in [Ops -> [nonce : Nat \cup {Unset}, chain : {NodeChain, Unset},
                            valid : BOOLEAN]]
      /\ \A o \in Ops : kind[o] = "settlement" => ~PinnedNonce(o) /\ ~PinnedChain(o)
  <2>1. PICK pin \in [Ops -> PinChoices], n \in [Ops -> live..(live + 1)],
             ok \in [Ops -> BOOLEAN] :
          /\ \A o \in Ops : kind[o] = "settlement" => pin[o] = {}
          /\ given = [o \in Ops |->
                        [nonce |-> IF "nonce" \in pin[o] THEN n[o] ELSE Unset,
                         chain |-> IF "chain" \in pin[o] THEN NodeChain ELSE Unset,
                         valid |-> ok[o]]]
    BY DEF Init
  <2>2. \A o \in Ops : n[o] \in Nat
    BY <1>1
  <2>3. ASSUME NEW o \in Ops
        PROVE  given[o] \in [nonce : Nat \cup {Unset}, chain : {NodeChain, Unset},
                             valid : BOOLEAN]
    BY <2>1, <2>2
  <2>4. ASSUME NEW o \in Ops, kind[o] = "settlement"
        PROVE  given[o].nonce = Unset /\ given[o].chain = Unset
    BY <2>1, <2>4
  <2>5. given \in [Ops -> [nonce : Nat \cup {Unset}, chain : {NodeChain, Unset},
                           valid : BOOLEAN]]
    BY <2>1, <2>3
  <2> QED BY <2>4, <2>5 DEF PinnedNonce, PinnedChain
<1>3. TypeOK
  BY <1>1, <1>2, AttemptsAssumption, OthersAssumption DEF Init, TypeOK, Pcs
<1>4. Locals
  <2> SUFFICES ASSUME NEW o \in Ops PROVE LocalsOf(o)
    BY DEF Locals
  <2>1. /\ pc[o] = "idle" /\ attempt[o] = 0 /\ nonce[o] = Unset /\ chain[o] = Unset
        /\ floor[o] = live /\ live <= live
    BY <1>1 DEF Init
  <2> QED BY <1>2, <2>1 DEF LocalsOf, Busy
<1>5. Log /\ Nonces /\ CarriesObserved /\ PaysRecipientOfCall
  BY <1>1 DEF Log, Nonces, CarriesObserved, PaysRecipientOfCall
<1>6. PaymentsAccounted
  BY <1>1 DEF Init, PaymentsAccounted
<1> QED BY <1>3, <1>4, <1>5, <1>6 DEF IInv

LEMMA NextKeeps == IInv /\ [Next]_vars => IInv'
<1> SUFFICES ASSUME IInv, [Next]_vars PROVE IInv'
  OBVIOUS
<1>1. ASSUME NEW o \in Ops, Begin(o) \/ Retry(o) PROVE IInv'
  BY <1>1, AttemptKeeps DEF Begin, Retry
<1>2. ASSUME NEW o \in Ops, Answered(o) PROVE IInv'
  BY <1>2, ReadKeeps, SubmittedKeeps DEF Answered
<1>3. ASSUME NEW o \in Ops, Unanswered(o) PROVE IInv'
  BY <1>3, ReadFailsKeeps, SubmissionFailsKeeps DEF Unanswered
<1>4. ASSUME NEW o \in Ops, Signs(o) PROVE IInv'
  BY <1>4, SignedKeeps, SubmissionFailsKeeps DEF Signs
<1>5. ASSUME NEW o \in Ops, CallerEdits(o) PROVE IInv'
  BY <1>5, EditKeeps
<1>6. CASE Node
  BY <1>6, NodeStepKeeps
<1>7. CASE UNCHANGED vars
  <2>1. /\ kind' = kind /\ given' = given /\ args' = args /\ pc' = pc /\ executed' = executed
        /\ refused' = refused /\ live' = live /\ others' = others /\ faults' = faults
        /\ attempt' = attempt /\ nonce' = nonce /\ chain' = chain /\ toAtCall' = toAtCall
        /\ reply' = reply /\ floor' = floor /\ sent' = sent /\ hashed' = hashed
        /\ doubted' = doubted
    BY <1>7 DEF vars, inputs, locals, node, history
  <2> QED BY <2>1 DEF IInv, TypeOK, Locals, LocalsOf, Log, Nonces, Txs, Mine,
             CarriesObserved, PaysRecipientOfCall, PaymentsAccounted, PinnedNonce, PinnedChain,
             NonceOfAttempt, ChainOfAttempt, Substitute
<1>8. ASSUME NEW o \in Ops, Sdk(o) PROVE IInv'
  BY <1>1, <1>2, <1>3, <1>4, <1>8 DEF Sdk
<1>9. CASE Terminated
  BY <1>7, <1>9 DEF Terminated
<1> QED
  BY <1>5, <1>6, <1>7, <1>8, <1>9 DEF Next
-----------------------------------------------------------------------------
\* Every reachable state satisfies the strengthened invariant.
THEOREM InductiveInvariant == Spec => []IInv
  BY InitEstablishes, NextKeeps, PTL DEF Spec

\* Types, and the bound of withRetry: no operation is tried more than
\* MaxAttempts times.
THEOREM TypeCorrect == Spec => []TypeOK
<1>1. IInv => TypeOK
  BY DEF IInv
<1> QED BY <1>1, InductiveInvariant, PTL

\* However many operations, retries and unanswered submissions there are, an
\* operation with a pinned nonce is executed once: all its submissions carry
\* the nonce its caller gave, and the node takes a nonce once.
THEOREM PinnedNeverPaysTwice == Spec => []PinnedPaysOnce
<1>1. IInv => PinnedPaysOnce
  <2> SUFFICES ASSUME IInv, NEW t \in executed, NEW u \in executed, t.op = u.op, PinnedNonce(t.op)
               PROVE  t = u
    BY DEF PinnedPaysOnce
  <2>1. t \in Txs /\ u \in Txs /\ t.op \in Ops /\ TypeOK
    BY TxFields DEF IInv, Txs
  <2>2. given[t.op].nonce \in Nat
    BY <2>1 DEF TypeOK, PinnedNonce
  <2>3. t.nonce = given[t.op].nonce /\ u.nonce = given[t.op].nonce
    BY <2>1 DEF IInv, CarriesObserved, PinnedNonce
  <2> QED BY <2>2, <2>3, UnsetNotNat DEF IInv, Nonces
<1> QED BY <1>1, InductiveInvariant, PTL

\* A submission carries a pinned value, a value the node reported during the
\* attempt, or, after a read that brought no number, the one substitute.
THEOREM ObservedValues == Spec => []CarriesObserved
<1>1. IInv => CarriesObserved
  BY DEF IInv
<1> QED BY <1>1, InductiveInvariant, PTL

\* A recipient decoded before the first await is the one that is paid.
THEOREM RecipientOfCall == Spec => []PaysRecipientOfCall
<1>1. IInv => PaysRecipientOfCall
  BY DEF IInv
<1> QED BY <1>1, InductiveInvariant, PTL

\* Whatever was paid, or still may be, goes back to the attempt whose hash the
\* caller has or waits for, or to one whose submission it saw rejected.
THEOREM AccountsComplete == Spec => []PaymentsAccounted
<1>1. IInv => PaymentsAccounted
  BY DEF IInv
<1> QED BY <1>1, InductiveInvariant, PTL
=============================================================================
