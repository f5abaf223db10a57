-------------------------- MODULE SignedWrite_proofs --------------------------
(***************************************************************************)
(* What the node applies was signed, for any number of writes, attempts,   *)
(* edits and signers.                                                      *)
(*                                                                         *)
(* None of the properties is inductive.  Inv follows a signature from the  *)
(* canonical bytes taken at the call (Consenting, Encoded) over the edits  *)
(* made between two awaits (Watched) into the request built from the object as  *)
(* it is then (RequestsKnown), and the requests of an operation by their   *)
(* attempt (OneEach, FreshAttempt) to the writes of the node (Applied).    *)
(***************************************************************************)
EXTENDS SignedWrite, FiniteSetTheorems, TLAPS

CanonicalBytes == [domain : AllKinds, ref : Refs, value : Values]

Requests == sent \cup writes

Signing == {"hash", "sign", "proof"}

\* The type of each variable, on which the proofs rest.
Typed ==
  /\ kind \in [Ops -> AllKinds]
  /\ presigned \in [Ops -> BOOLEAN]
  /\ object \in [Ops -> Contents]
  /\ pc \in [Ops -> Pcs]
  /\ signed \in [Ops -> CanonicalBytes \cup {None}]
  /\ serials \in Nat
  /\ serial \in [Ops -> Nat]
  /\ proof \in [Ops -> Values \cup {None}]
  /\ edits \in [Ops -> Nat]
  /\ attempt \in [Ops -> Nat]
  /\ consented \subseteq CanonicalBytes
  /\ ledger \in [Refs -> Values \cup {None}]

\* Canonical bytes are signed before they are sent.
Consenting ==
  \A o \in Ops :
    /\ presigned[o] /\ attempt[o] > 0 =>
         signed[o] \in consented /\ proof[o] \in {None, signed[o].value}
    /\ attempt[o] = 0 => proof[o] = None
    /\ pc[o] \in Signing =>
         ~presigned[o] /\ signed[o] \in CanonicalBytes /\ attempt[o] > 0
    /\ pc[o] = "proof" => signed[o] \in consented

\* Only arguments in range have canonical bytes to sign, and only what was signed
\* is paid.
InRange(p) == p.domain \in ByReference => p.value \in Encodable

Encoded ==
  /\ \A p \in consented : InRange(p)
  /\ \A o \in Ops : pc[o] \in Signing => InRange(signed[o])
  /\ \A r \in Refs : ledger[r] # None => ledger[r] \in Encodable

\* What one edit can do between the canonical bytes and the two signatures.
Watched ==
  \A o \in Ops :
    /\ pc[o] \in Signing /\ edits[o] = 0 => object[o].value = signed[o].value
    /\ pc[o] = "proof" /\ edits[o] <= 1 /\ object[o].value = signed[o].value =>
         proof[o] = object[o].value

\* A request repeats what its operation has signed, and under which attempt.
Known(r) ==
  /\ r.op \in Ops /\ r.kind = kind[r.op] /\ r.body \in Contents
  /\ r.signed \in consented
  /\ r.attempt \in Nat /\ 0 < r.attempt /\ r.attempt <= attempt[r.op]
  /\ presigned[r.op] => r.serial = serial[r.op]

\* A request passed the client's validation ...
Valid(r) == r.kind \in Checked => r.body.value \in Acceptable

\* ... and its durable proof is over its claims unless they were edited twice.
ProofGood(r) ==
  /\ r.kind = "credential" /\ r.signed.value = r.body.value
  /\ r.proof \notin {None, r.body.value}
  => r.edits >= 2

RequestsKnown == \A r \in Requests : Known(r) /\ Valid(r) /\ ProofGood(r)

\* One request for each attempt ...
OneEach ==
  \A r, s \in Requests : r.op = s.op /\ r.attempt = s.attempt => r = s

\* ... and none yet for the attempt that is being signed.
FreshAttempt ==
  \A o \in Ops : pc[o] \in Signing =>
    \A r \in Requests : r.op = o => r.attempt < attempt[o]

\* The node applied what was authentic, and each envelope once.
Applied ==
  /\ \A w \in writes : w.signed = Preimage(w.kind, w.body) /\ w.serial \in used
  /\ \A v, w \in writes : v.serial = w.serial => v = w

Inv ==
  /\ Typed /\ Consenting /\ Encoded /\ Watched
  /\ RequestsKnown /\ OneEach /\ FreshAttempt /\ Applied
-----------------------------------------------------------------------------
\* Nothing is under way in the initial states.
LEMMA InitInv == Init => Inv
  BY KindsAssumption DEF Init, Inv, Typed, Consenting, Encoded, Watched, RequestsKnown,
     OneEach, FreshAttempt, Applied, Requests, Signing, Pcs, AllKinds

\* The requests there are stay as they were known.
LEMMA RequestsStay ==
  ASSUME Inv, Requests' \subseteq Requests, consented \subseteq consented',
         UNCHANGED <<kind, presigned, attempt>>,
         \A o \in Ops : presigned[o] => serial'[o] = serial[o]
  PROVE  RequestsKnown' /\ OneEach'
<1>1. ASSUME NEW r \in Requests' PROVE Known(r)' /\ Valid(r)' /\ ProofGood(r)'
  <2>1. Known(r) /\ Valid(r) /\ ProofGood(r)
    BY <1>1 DEF Inv, RequestsKnown
  <2>2. Known(r)'
    BY <2>1 DEF Known
  <2>3. QED  BY <2>1, <2>2 DEF Valid, ProofGood
<1>2. RequestsKnown'
  BY <1>1 DEF RequestsKnown
<1>3. OneEach'
  BY DEF Inv, OneEach
<1>4. QED  BY <1>2, <1>3

\* The Presigned method: a request built from the object as it is now.
LEMMA SendKeeps ==
  ASSUME Inv, NEW o \in Ops, Send(o), Typed', pc' \in [Ops -> Pcs],
         UNCHANGED <<kind, presigned, object, ledger, used, writes>>,
         consented \subseteq consented', \A p \in consented' : InRange(p),
         \A p \in Ops : p # o =>
           /\ signed'[p] = signed[p] /\ serial'[p] = serial[p] /\ proof'[p] = proof[p]
           /\ edits'[p] = edits[p] /\ attempt'[p] = attempt[p],
         attempt[o] <= attempt'[o], 0 < attempt'[o],
         signed'[o] \in consented',
         presigned[o] => proof'[o] \in {None, signed'[o].value}
                         /\ (attempt[o] > 0 => serial'[o] = serial[o]),
         \A r \in Requests : r.op = o => r.attempt < attempt'[o],
         kind[o] = "credential" /\ signed'[o].value = object[o].value
           /\ proof'[o] \notin {None, object[o].value} => edits'[o] >= 2
  PROVE  Inv'
<1>1. PICK new : new = Request(o, object[o])
  OBVIOUS
<1>2. pc'[o] \in {"submit", "done"} /\ \A p \in Ops : p # o => pc'[p] = pc[p]
  BY DEF Send, Throw, Inv, Typed
<1>3. sent' = sent \/ (~Refused(o) /\ sent' = sent \cup {new})
  BY <1>1 DEF Send, Throw
<1>4. /\ new.op = o /\ new.kind = kind[o] /\ new.attempt = attempt'[o]
      /\ new.body = Carried(kind[o], object[o]) /\ new.signed = signed'[o] /\ new.serial = serial'[o]
      /\ new.proof = proof'[o] /\ new.edits = edits'[o]
  BY <1>1 DEF Request
<1>5. object[o] \in Contents /\ attempt'[o] \in Nat
  BY DEF Inv, Typed
<1>18. /\ new.body \in Contents
       /\ new.body.value \in Acceptable <=> object[o].value \in Acceptable
       /\ kind[o] # "settle" => new.body = object[o]
  BY <1>4, <1>5, ValuesAssumption DEF Carried, Contents
<1>6. Known(new)'
  BY <1>4, <1>5, <1>18 DEF Known
<1>7. ~Refused(o) => Valid(new)'
  BY <1>4, <1>18 DEF Valid, Refused
<1>8. ProofGood(new)'
  BY <1>4, <1>18 DEF ProofGood
<1>9. ASSUME NEW r \in Requests
      PROVE  Known(r)' /\ Valid(r)' /\ ProofGood(r)'
  <2>1. Known(r) /\ Valid(r) /\ ProofGood(r)
    BY DEF Inv, RequestsKnown
  <2>2. r.op = o => r.attempt <= attempt'[o]
    BY <2>1, <1>5 DEF Known
  <2>3. r.op = o => attempt[o] > 0
    BY <2>1 DEF Known, Inv, Typed
  <2>4. presigned[r.op] => serial'[r.op] = serial[r.op]
    BY <2>1, <2>3 DEF Known
  <2>5. attempt'[r.op] \in Nat /\ r.attempt <= attempt'[r.op]
    BY <2>1, <2>2 DEF Known, Typed
  <2>6. Known(r)'
    BY <2>1, <2>4, <2>5 DEF Known
  <2>7. QED  BY <2>1, <2>6 DEF Valid, ProofGood
<1>10. \A r \in Requests' : r \in Requests \/ (~Refused(o) /\ r = new)
  BY <1>3 DEF Requests
<1>11. RequestsKnown'
  BY <1>6, <1>7, <1>8, <1>9, <1>10 DEF RequestsKnown
<1>12. OneEach'
  <2>1. ASSUME NEW r \in Requests', NEW s \in Requests', r.op = s.op, r.attempt = s.attempt
        PROVE  r = s
    <3>1. ASSUME r \in Requests, s \in Requests PROVE r = s
      BY <2>1, <3>1 DEF Inv, OneEach
    <3>2. ASSUME r = new, s \in Requests PROVE r = s
      <4>1. s.attempt \in Nat /\ s.attempt < attempt'[o]
        BY <2>1, <3>2, <1>4 DEF Inv, RequestsKnown, Known
      <4>2. QED  BY <2>1, <3>2, <4>1, <1>4, <1>5
    <3>3. ASSUME s = new, r \in Requests PROVE r = s
      <4>1. r.attempt \in Nat /\ r.attempt < attempt'[o]
        BY <2>1, <3>3, <1>4 DEF Inv, RequestsKnown, Known
      <4>2. QED  BY <2>1, <3>3, <4>1, <1>4, <1>5
    <3>4. QED  BY <1>10, <3>1, <3>2, <3>3
  <2>2. QED  BY <2>1 DEF OneEach
<1>13. FreshAttempt'
  BY <1>2, <1>4, <1>10 DEF Inv, FreshAttempt, Signing
<1>14. Consenting'
  BY <1>2 DEF Inv, Typed, Consenting, Signing
<1>15. Watched'
  BY <1>2 DEF Inv, Watched, Signing
<1>16. Applied'
  BY DEF Inv, Applied
<1>19. Encoded'
  BY <1>2 DEF Inv, Encoded, InRange, Signing
<1>17. QED  BY <1>11, <1>12, <1>13, <1>14, <1>15, <1>16, <1>19 DEF Inv
-----------------------------------------------------------------------------
\* The canonical bytes of an object are canonical bytes.
LEMMA PreimageType ==
  ASSUME NEW k \in AllKinds, NEW c \in Contents
  PROVE  /\ Preimage(k, c) \in CanonicalBytes /\ Preimage(k, c).value = c.value
         /\ Preimage(k, c).domain = k
  BY DEF Preimage, CanonicalBytes, Contents

\* A first or a repeated call.
LEMMA CallKeeps ==
  ASSUME Inv, NEW o \in Ops, Call(o)
  PROVE  Inv'
<1>1. /\ pc[o] = "idle"
      /\ attempt' = [attempt EXCEPT ![o] = @ + 1]
      /\ edits' = [edits EXCEPT ![o] = 0]
      /\ UNCHANGED <<kind, presigned, object, answer, ledger, used, writes>>
  BY DEF Call, args, node
<1>2. /\ attempt' \in [Ops -> Nat] /\ attempt'[o] = attempt[o] + 1 /\ attempt[o] \in Nat
      /\ edits' \in [Ops -> Nat] /\ edits'[o] = 0
      /\ \A p \in Ops : p # o => attempt'[p] = attempt[p] /\ edits'[p] = edits[p]
  BY <1>1 DEF Inv, Typed
<1>3. \A r \in Requests : r.op = o => r.attempt < attempt'[o]
  <2>1. ASSUME NEW r \in Requests, r.op = o PROVE r.attempt < attempt'[o]
    <3>1. r.attempt \in Nat /\ r.attempt <= attempt[o]
      BY <2>1 DEF Inv, RequestsKnown, Known
    <3>2. QED  BY <3>1, <1>2
  <2>2. QED  BY <2>1
<1>4. Preimage(kind[o], object[o]) \in CanonicalBytes
      /\ Preimage(kind[o], object[o]).value = object[o].value
      /\ object[o].value \in Values
  BY PreimageType DEF Inv, Typed, Contents
<1>9. ~Unencodable(o) => InRange(Preimage(kind[o], object[o]))
  BY PreimageType DEF Inv, Typed, Contents, Unencodable, InRange
<1>5. ASSUME PresignedFirst(o) PROVE Inv'
  <2>1. /\ presigned[o] /\ attempt[o] = 0
        /\ signed' = [signed EXCEPT ![o] = Preimage(kind[o], object[o])]
        /\ UNCHANGED proof \/ proof' = [proof EXCEPT ![o] = object[o].value]
        /\ serial' = [serial EXCEPT ![o] = serials + 1]
        /\ serials' = serials + 1
        /\ consented' = consented \cup {signed'[o]}
        /\ Send(o) /\ ~Unencodable(o) /\ proof[o] = None
    BY <1>5 DEF PresignedFirst, TakeBytes, Inv, Consenting
  <2>2. /\ signed' \in [Ops -> CanonicalBytes \cup {None}]
        /\ signed'[o] = Preimage(kind[o], object[o])
        /\ proof' \in [Ops -> Values \cup {None}] /\ proof'[o] \in {None, object[o].value}
        /\ \A p \in Ops : p # o => signed'[p] = signed[p] /\ proof'[p] = proof[p]
    BY <2>1, <1>4 DEF Inv, Typed
  <2>3. serials' \in Nat /\ serial' \in [Ops -> Nat]
        /\ \A p \in Ops : p # o => serial'[p] = serial[p]
    BY <2>1 DEF Inv, Typed
  <2>9. InRange(signed'[o])
    BY <1>9, <2>1, <2>2
  <2>10. consented' \subseteq CanonicalBytes
    BY <2>1, <2>2, <1>4 DEF Inv, Typed
  <2>4. \A p \in consented' : InRange(p)
    BY <2>1, <2>9 DEF Inv, Encoded
  <2>5. pc' \in [Ops -> Pcs]
    BY <2>1 DEF Send, Throw, Inv, Typed, Pcs
  <2>6. Typed'
    BY <1>1, <1>2, <2>2, <2>3, <2>10, <2>5 DEF Inv, Typed
  <2>7. attempt[o] <= attempt'[o] /\ 0 < attempt'[o]
    BY <1>2
  <2>8. QED  BY <1>1, <1>2, <1>3, <1>4, <2>1, <2>2, <2>3, <2>4, <2>5, <2>6, <2>7, SendKeeps
<1>6. ASSUME PresignedAgain(o) PROVE Inv'
  <2>1. /\ presigned[o] /\ attempt[o] > 0 /\ Send(o)
        /\ UNCHANGED <<signed, proof, serial, serials, consented>>
    BY <1>6 DEF PresignedAgain
  <2>2. /\ signed[o] \in consented /\ proof[o] \in {None, signed[o].value}
        /\ \A p \in consented : InRange(p)
    BY <2>1 DEF Inv, Consenting, Encoded
  <2>3. pc' \in [Ops -> Pcs]
    BY <2>1 DEF Send, Throw, Inv, Typed, Pcs
  <2>4. Typed'
    BY <1>1, <1>2, <2>1, <2>3 DEF Inv, Typed
  <2>5. attempt[o] <= attempt'[o] /\ 0 < attempt'[o]
    BY <1>2
  <2>6. QED  BY <1>1, <1>2, <1>3, <2>1, <2>2, <2>3, <2>4, <2>5, SendKeeps
<1>7. ASSUME Prepare(o) PROVE Inv'
  <2>1. ~presigned[o] /\ UNCHANGED <<proof, serial, serials, consented, sent>>
    BY <1>7 DEF Prepare, Throw
  <2>2. /\ pc' \in [Ops -> Pcs] /\ \A p \in Ops : p # o => pc'[p] = pc[p]
        /\ pc'[o] \in {"done", "hash"}
    BY <1>7 DEF Prepare, Throw, Inv, Typed, Pcs
  <2>11. /\ signed' \in [Ops -> CanonicalBytes \cup {None}]
         /\ \A p \in Ops : p # o => signed'[p] = signed[p]
         /\ pc'[o] = "hash" =>
              signed'[o] = Preimage(kind[o], object[o]) /\ ~Unencodable(o)
    BY <1>4, <1>7 DEF Prepare, Throw, TakeBytes, Inv, Typed
  <2>3. pc'[o] = "hash" =>
          /\ signed'[o] \in CanonicalBytes /\ signed'[o].value = object[o].value
          /\ InRange(signed'[o])
    BY <1>4, <1>9, <2>11
  <2>4. Typed'
    BY <1>1, <1>2, <2>1, <2>2, <2>11 DEF Inv, Typed
  <2>5. Consenting'
    BY <1>1, <1>2, <2>1, <2>2, <2>3, <2>11 DEF Inv, Consenting, Signing
  <2>6. Watched' /\ Encoded'
    BY <1>1, <1>2, <2>1, <2>2, <2>3, <2>11 DEF Inv, Watched, Encoded, InRange, Signing
  <2>7. RequestsKnown'
    <3>1. ASSUME NEW r \in Requests
          PROVE  Known(r)' /\ Valid(r)' /\ ProofGood(r)'
      <4>1. Known(r) /\ Valid(r) /\ ProofGood(r)
        BY DEF Inv, RequestsKnown
      <4>2. attempt'[r.op] \in Nat /\ r.attempt <= attempt'[r.op]
        BY <4>1, <1>2, <1>3 DEF Known
      <4>3. Known(r)'
        BY <4>1, <4>2, <1>1, <2>1 DEF Known
      <4>4. QED  BY <4>1, <4>3 DEF Valid, ProofGood
    <3>2. QED  BY <3>1, <1>1, <2>1 DEF RequestsKnown, Requests
  <2>8. OneEach' /\ Applied'
    BY <1>1, <2>1 DEF Inv, OneEach, Applied, Requests
  <2>9. FreshAttempt'
    BY <1>1, <1>2, <1>3, <2>1, <2>2 DEF Inv, FreshAttempt, Requests, Signing
  <2>10. QED  BY <2>4, <2>5, <2>6, <2>7, <2>8, <2>9 DEF Inv
<1>8. QED  BY <1>5, <1>6, <1>7 DEF Call

\* buildEnvelope: nonce and timestamp.
LEMMA HashResolvesKeeps ==
  ASSUME Inv, NEW o \in Ops, HashResolves(o)
  PROVE  Inv'
<1>1. /\ pc[o] = "hash" /\ pc' = [pc EXCEPT ![o] = "sign"]
      /\ serials' = serials + 1 /\ serial' = [serial EXCEPT ![o] = serials + 1]
      /\ UNCHANGED <<kind, presigned, object, signed, proof, edits, attempt, consented,
                     sent, ledger, used, writes>>
  BY DEF HashResolves, args, node
<1>2. ~presigned[o]
  BY <1>1 DEF Inv, Consenting, Signing
<1>3. /\ pc' \in [Ops -> Pcs] /\ pc'[o] = "sign"
      /\ \A p \in Ops : p # o => pc'[p] = pc[p]
  BY <1>1 DEF Inv, Typed, Pcs
<1>4. serials' \in Nat /\ serial' \in [Ops -> Nat]
      /\ \A p \in Ops : presigned[p] => serial'[p] = serial[p]
  BY <1>1, <1>2 DEF Inv, Typed
<1>5. Typed'
  BY <1>1, <1>3, <1>4 DEF Inv, Typed
<1>6. Consenting' /\ Encoded' /\ Watched'
  BY <1>1, <1>3 DEF Inv, Consenting, Encoded, InRange, Watched, Signing
<1>7. FreshAttempt' /\ Applied'
  BY <1>1, <1>3 DEF Inv, FreshAttempt, Applied, Requests, Signing
<1>8. Requests' = Requests
  BY <1>1 DEF Requests
<1>9. RequestsKnown' /\ OneEach'
  BY <1>1, <1>4, <1>8, RequestsStay
<1>10. QED  BY <1>5, <1>6, <1>7, <1>9 DEF Inv

\* The signer's signature: the request follows, or the second signature.
LEMMA SignerSignsKeeps ==
  ASSUME Inv, NEW o \in Ops, SignerSigns(o)
  PROVE  Inv'
<1>1. /\ pc[o] = "sign" /\ consented' = consented \cup {signed[o]}
      /\ UNCHANGED <<kind, presigned, object, signed, serial, edits, attempt, serials,
                     ledger, used, writes>>
  BY DEF SignerSigns, args, node
<1>2. ~presigned[o] /\ signed[o] \in CanonicalBytes /\ attempt[o] > 0 /\ attempt[o] \in Nat
  BY <1>1 DEF Inv, Typed, Consenting, Signing
<1>3. /\ consented' \subseteq CanonicalBytes /\ consented \subseteq consented'
      /\ signed[o] \in consented' /\ \A p \in consented' : InRange(p)
  BY <1>1, <1>2 DEF Inv, Typed, Encoded, Signing
<1>4. \A r \in Requests : r.op = o => r.attempt < attempt[o]
  BY <1>1 DEF Inv, FreshAttempt, Signing
<1>5. ASSUME kind[o] = "credential", proof' = [proof EXCEPT ![o] = object[o].value],
             pc' = [pc EXCEPT ![o] = "proof"], UNCHANGED <<outcome, sent>>
      PROVE  Inv'
  <2>1. /\ pc' \in [Ops -> Pcs] /\ pc'[o] = "proof"
        /\ \A p \in Ops : p # o => pc'[p] = pc[p]
    BY <1>5 DEF Inv, Typed, Pcs
  <2>2. /\ proof' \in [Ops -> Values \cup {None}] /\ proof'[o] = object[o].value
        /\ \A p \in Ops : p # o => proof'[p] = proof[p]
    BY <1>5 DEF Inv, Typed, Contents
  <2>3. Typed'
    BY <1>1, <1>3, <2>1, <2>2 DEF Inv, Typed
  <2>4. Consenting'
    BY <1>1, <1>2, <1>3, <2>1, <2>2 DEF Inv, Consenting, Signing
  <2>5. Watched' /\ Encoded'
    BY <1>1, <1>3, <2>1, <2>2 DEF Inv, Watched, Encoded, InRange, Signing
  <2>6. Requests' = Requests
    BY <1>1, <1>5 DEF Requests
  <2>7. RequestsKnown' /\ OneEach'
    BY <1>1, <1>3, <2>6, RequestsStay
  <2>8. FreshAttempt' /\ Applied'
    BY <1>1, <1>4, <2>1, <2>6 DEF Inv, FreshAttempt, Applied, Signing
  <2>9. QED  BY <2>3, <2>4, <2>5, <2>7, <2>8 DEF Inv
<1>6. ASSUME proof' = [proof EXCEPT ![o] = None], Send(o)
      PROVE  Inv'
  <2>1. pc' \in [Ops -> Pcs]
    BY <1>6 DEF Send, Throw, Inv, Typed, Pcs
  <2>2. /\ proof' \in [Ops -> Values \cup {None}] /\ proof'[o] = None
        /\ \A p \in Ops : p # o => proof'[p] = proof[p]
    BY <1>6 DEF Inv, Typed
  <2>3. Typed'
    BY <1>1, <1>3, <2>1, <2>2 DEF Inv, Typed
  <2>4. QED  BY <1>1, <1>2, <1>3, <1>4, <1>6, <2>1, <2>2, <2>3, SendKeeps
<1>7. ASSUME Throw(o, "invalid"), UNCHANGED proof
      PROVE  Inv'
  <2>1. /\ pc' \in [Ops -> Pcs] /\ pc'[o] = "done"
        /\ \A p \in Ops : p # o => pc'[p] = pc[p]
    BY <1>7 DEF Throw, Inv, Typed, Pcs
  <2>2. Requests' = Requests
    BY <1>1, <1>7 DEF Requests, Throw
  <2>3. Typed'
    BY <1>1, <1>3, <1>7, <2>1 DEF Inv, Typed
  <2>4. Consenting' /\ Encoded' /\ Watched'
    BY <1>1, <1>3, <1>7, <2>1 DEF Inv, Consenting, Encoded, InRange, Watched, Signing
  <2>5. RequestsKnown' /\ OneEach'
    BY <1>1, <1>3, <2>2, RequestsStay
  <2>6. FreshAttempt' /\ Applied'
    BY <1>1, <2>1, <2>2 DEF Inv, FreshAttempt, Applied, Signing
  <2>7. QED  BY <2>3, <2>4, <2>5, <2>6 DEF Inv
<1>8. QED  BY <1>5, <1>6, <1>7 DEF SignerSigns, SignProof

\* The second signature of a credential: the request follows.
LEMMA ProofSignedKeeps ==
  ASSUME Inv, NEW o \in Ops, ProofSigned(o)
  PROVE  Inv'
<1>1. /\ pc[o] = "proof" /\ Send(o)
      /\ UNCHANGED <<kind, presigned, object, signed, serial, proof, edits, attempt,
                     serials, consented, ledger, used, writes>>
  BY DEF ProofSigned, args, node
<1>2. /\ ~presigned[o] /\ signed[o] \in consented /\ attempt[o] > 0 /\ attempt[o] \in Nat
      /\ \A p \in consented : InRange(p)
  BY <1>1 DEF Inv, Typed, Consenting, Encoded, Signing
<1>3. \A r \in Requests : r.op = o => r.attempt < attempt[o]
  BY <1>1 DEF Inv, FreshAttempt, Signing
<1>4. signed[o].value = object[o].value /\ proof[o] # object[o].value => edits[o] >= 2
  <2>1. edits[o] \in Nat
    BY DEF Inv, Typed
  <2>2. signed[o].value = object[o].value /\ proof[o] # object[o].value => ~(edits[o] <= 1)
    BY <1>1 DEF Inv, Watched
  <2>3. QED  BY <2>1, <2>2
<1>5. pc' \in [Ops -> Pcs]
  BY <1>1 DEF Send, Throw, Inv, Typed, Pcs
<1>6. Typed'
  BY <1>1, <1>5 DEF Inv, Typed
<1>7. QED  BY <1>1, <1>2, <1>3, <1>4, <1>5, <1>6, SendKeeps

\* A step that leaves the signing states, or stays outside, and sends nothing.
LEMMA QuietKeeps ==
  ASSUME Inv, pc' \in [Ops -> Pcs],
         \A o \in Ops : pc'[o] = pc[o] \/ pc'[o] \notin Signing,
         UNCHANGED <<kind, presigned, object, signed, serial, proof, edits, attempt,
                     serials, consented, sent, ledger, used, writes>>
  PROVE  Inv'
<1>1. Typed'
  BY DEF Inv, Typed
<1>2. Consenting' /\ Encoded' /\ Watched'
  BY DEF Inv, Consenting, Encoded, InRange, Watched, Signing
<1>3. FreshAttempt' /\ Applied'
  BY DEF Inv, FreshAttempt, Applied, Requests
<1>4. RequestsKnown' /\ OneEach'
  BY RequestsStay DEF Requests
<1>5. QED  BY <1>1, <1>2, <1>3, <1>4 DEF Inv

\* The application edits an object it passed by reference.
LEMMA CallerEditsKeeps ==
  ASSUME Inv, NEW o \in Ops, CallerEdits(o)
  PROVE  Inv'
<1>1. PICK v \in Values \ {object[o].value} :
        object' = [object EXCEPT ![o].value = v]
  BY DEF CallerEdits
<1>2. /\ edits' = [edits EXCEPT ![o] = @ + 1]
      /\ UNCHANGED <<kind, presigned, pc, signed, serial, proof, attempt, serials,
                     consented, sent, ledger, used, writes>>
  BY DEF CallerEdits, args, node
<1>3. /\ object' \in [Ops -> Contents] /\ object'[o].value = v /\ v # object[o].value
      /\ \A p \in Ops : p # o => object'[p] = object[p]
  BY <1>1 DEF Inv, Typed, Contents
<1>4. /\ edits' \in [Ops -> Nat] /\ edits[o] \in Nat /\ edits'[o] = edits[o] + 1
      /\ \A p \in Ops : p # o => edits'[p] = edits[p]
  BY <1>2 DEF Inv, Typed
<1>5. Typed'
  BY <1>2, <1>3, <1>4 DEF Inv, Typed
<1>6. Consenting' /\ Encoded' /\ FreshAttempt' /\ Applied'
  BY <1>2 DEF Inv, Consenting, Encoded, InRange, FreshAttempt, Applied, Requests
<1>7. Watched'
  <2>1. edits'[o] # 0 /\ (edits'[o] <= 1 => edits[o] = 0)
    BY <1>4
  <2>2. pc[o] = "proof" /\ edits[o] = 0 =>
          object[o].value = signed[o].value /\ proof[o] = object[o].value
    BY <1>4 DEF Inv, Watched, Signing
  <2>3. pc[o] = "proof" /\ edits'[o] <= 1 => object'[o].value # signed[o].value
    BY <1>3, <2>1, <2>2
  <2>4. QED  BY <1>2, <1>3, <1>4, <2>1, <2>3 DEF Inv, Watched, Signing
<1>8. RequestsKnown' /\ OneEach'
  BY <1>2, RequestsStay DEF Requests
<1>9. QED  BY <1>5, <1>6, <1>7, <1>8 DEF Inv

\* The node takes a request: it is refused, paid, applied or a repetition.
LEMMA NodeKeeps ==
  ASSUME Inv, NEW r \in sent, NodeStep(r)
  PROVE  Inv'
<1>1. /\ sent' = sent \ {r}
      /\ UNCHANGED <<kind, presigned, object, pc, signed, serial, proof, edits, attempt,
                     serials, consented>>
  BY DEF NodeStep, NodeRefuses, NodeSettles, NodeWrites, AnswerOnly, args
<1>2. \/ UNCHANGED <<used, writes>>
      \/ /\ r.signed = Preimage(r.kind, r.body) /\ r.serial \notin used
         /\ used' = used \cup {r.serial} /\ writes' = writes \cup {r}
  BY DEF NodeStep, NodeRefuses, NodeSettles, NodeWrites, Authentic, node
<1>3. Known(r)
  BY DEF Inv, RequestsKnown, Requests
<1>4. ledger' \in [Refs -> Values \cup {None}]
  BY <1>3 DEF NodeStep, NodeRefuses, NodeSettles, NodeWrites, node, Inv, Typed, Known,
              Contents
<1>6. Typed'
  BY <1>1, <1>4 DEF Inv, Typed
<1>5. \A q \in Refs : ledger'[q] # None => ledger'[q] \in Encodable
  <2>1. ASSUME NodeSettles(r) PROVE r.body.value \in Encodable /\ r.body.ref \in Refs
    <3>1. r.signed = Preimage(r.kind, r.body) /\ r.kind = "settle" /\ r.signed \in consented
      BY <1>3, <2>1 DEF NodeSettles, Authentic, Known
    <3>2. r.signed.domain = "settle" /\ r.signed.value = r.body.value
      BY <3>1 DEF Preimage
    <3>3. InRange(r.signed)
      BY <3>1 DEF Inv, Encoded
    <3>4. QED  BY <1>3, <3>2, <3>3 DEF InRange, ByReference, Known, Contents
  <2>2. QED
    BY <2>1 DEF NodeStep, NodeRefuses, NodeSettles, NodeWrites, node, Inv, Encoded, Typed
<1>7. Consenting' /\ Encoded' /\ Watched'
  BY <1>1, <1>5 DEF Inv, Consenting, Encoded, InRange, Watched
<1>8. Requests' \subseteq Requests
  BY <1>1, <1>2 DEF Requests
<1>9. RequestsKnown' /\ OneEach'
  BY <1>1, <1>8, RequestsStay
<1>10. FreshAttempt'
  BY <1>1, <1>8 DEF Inv, FreshAttempt
<1>11. Applied'
  BY <1>2 DEF Inv, Applied
<1>12. QED  BY <1>6, <1>7, <1>9, <1>10, <1>11 DEF Inv
-----------------------------------------------------------------------------
\* Every step of the application, the signer and the node keeps the invariant.
LEMMA NextInv == ASSUME Inv, [Next]_vars PROVE Inv'
<1>1. ASSUME NEW o \in Ops, Call(o) PROVE Inv'
  BY <1>1, CallKeeps
<1>2. ASSUME NEW o \in Ops, HashResolves(o) PROVE Inv'
  BY <1>2, HashResolvesKeeps
<1>3. ASSUME NEW o \in Ops, SignerSigns(o) PROVE Inv'
  BY <1>3, SignerSignsKeeps
<1>4. ASSUME NEW o \in Ops, ProofSigned(o) PROVE Inv'
  BY <1>4, ProofSignedKeeps
<1>5. ASSUME NEW o \in Ops,
             \/ HashFails(o) \/ SignerRefuses(o) \/ AnswerArrives(o) \/ SubmitFails(o)
             \/ Retry(o) \/ LookUp(o)
      PROVE  Inv'
  <2>1. /\ pc' \in [Ops -> Pcs]
        /\ \A p \in Ops : pc'[p] = pc[p] \/ pc'[p] \notin Signing
    BY <1>5 DEF HashFails, SignerRefuses, AnswerArrives, SubmitFails, Retry, LookUp, Throw,
                Inv, Typed, Pcs, Signing
  <2>2. UNCHANGED <<kind, presigned, object, signed, serial, proof, edits, attempt,
                    serials, consented, sent, ledger, used, writes>>
    BY <1>5 DEF HashFails, SignerRefuses, AnswerArrives, SubmitFails, Retry, LookUp, Throw,
       args, node
  <2>3. QED  BY <2>1, <2>2, QuietKeeps
<1>6. ASSUME NEW o \in Ops, CallerEdits(o) PROVE Inv'
  BY <1>6, CallerEditsKeeps
<1>7. ASSUME NEW r \in sent, NodeStep(r) PROVE Inv'
  BY <1>7, NodeKeeps
<1>8. ASSUME UNCHANGED vars PROVE Inv'
  <2>1. UNCHANGED <<kind, presigned, object, pc, signed, serial, proof, edits, attempt,
                    serials, consented, sent, ledger, used, writes>>
    BY <1>8 DEF vars, args, local, node
  <2>2. pc' \in [Ops -> Pcs]
    BY <2>1 DEF Inv, Typed
  <2>3. QED  BY <2>1, <2>2, QuietKeeps
<1>9. QED
  BY <1>1, <1>2, <1>3, <1>4, <1>5, <1>6, <1>7, <1>8 DEF Next, ClientStep, Terminated

\* The invariant holds in every reachable state.
THEOREM Invariance == Spec => []Inv
  BY InitInv, NextInv, PTL DEF Spec

\* settleAuthorized, registerApp, addCredential and the others: every recorded
\* write is one whose canonical bytes a signer has signed, although the caller
\* may edit the arguments at every await.
THEOREM AppliedCorrect == Spec => []AppliedWasSigned
<1>1. Inv => AppliedWasSigned
  <2>1. SUFFICES ASSUME Inv, NEW w \in writes
                 PROVE  Preimage(w.kind, w.body) \in consented
    BY DEF AppliedWasSigned, Preimage
  <2>2. QED  BY <2>1 DEF Inv, Applied, RequestsKnown, Requests, Known
<1>2. QED  BY <1>1, Invariance, PTL

\* addCredential: the durable proof of a stored credential is over its claims,
\* unless they were edited twice during the call.
THEOREM ProofCorrect == Spec => []ProofNeedsTwoEdits
<1>1. Inv => ProofNeedsTwoEdits
  <2>1. SUFFICES ASSUME Inv, NEW w \in writes, w.kind = "credential",
                        w.proof \notin {None, w.body.value}
                 PROVE  w.edits >= 2
    BY DEF ProofNeedsTwoEdits
  <2>2. w.signed = Preimage(w.kind, w.body) /\ ProofGood(w)
    BY <2>1 DEF Inv, Applied, RequestsKnown, Requests
  <2>3. w.signed.value = w.body.value
    BY <2>2 DEF Preimage
  <2>4. QED  BY <2>1, <2>2, <2>3 DEF ProofGood
<1>2. QED  BY <1>1, Invariance, PTL

\* validateRegister, the nonce check and the ranges of bigUintBe: however the
\* arguments are edited after they were checked and encoded, what is sent has the
\* right lengths, and what is paid or written is in range besides.
THEOREM ValidationCorrect == Spec => []InvalidNeverApplied
<1>1. Inv => InvalidNeverApplied
  <2>1. SUFFICES ASSUME Inv PROVE InvalidNeverApplied
    OBVIOUS
  <2>2. \A r \in Requests : Valid(r) /\ Known(r)
    BY <2>1 DEF Inv, RequestsKnown
  <2>3. ASSUME NEW w \in writes, w.kind \in ByReference PROVE w.body.value \in Encodable
    <3>1. w.signed = Preimage(w.kind, w.body) /\ w.signed \in consented
      BY <2>1, <2>2, <2>3 DEF Inv, Applied, Requests, Known
    <3>2. InRange(w.signed) /\ w.signed.domain = w.kind /\ w.signed.value = w.body.value
      BY <2>1, <3>1 DEF Inv, Encoded, Preimage
    <3>3. QED  BY <2>3, <3>2 DEF InRange
  <2>4. QED  BY <2>1, <2>2, <2>3 DEF Inv, Encoded, Requests, Valid, InvalidNeverApplied
<1>2. QED  BY <1>1, Invariance, PTL

\* A pre-signed write has one envelope, a write signed for each attempt one for
\* each: no more can be applied.
THEOREM OncePerSignature == Spec => []AtMostOncePerSignature
<1>1. Inv => AtMostOncePerSignature
  <2>1. SUFFICES ASSUME Inv, NEW o \in Ops
                 PROVE  Cardinality({w \in writes : w.op = o})
                          <= (IF presigned[o] THEN 1 ELSE attempt[o])
    BY DEF AtMostOncePerSignature
  <2>2. \A w \in writes : Known(w)
    BY <2>1 DEF Inv, RequestsKnown, Requests
  <2> DEFINE own == {w \in writes : w.op = o}
  <2>3. ASSUME presigned[o] PROVE Cardinality(own) <= 1
    <3>1. \A v, w \in own : v = w
      BY <2>1, <2>2, <2>3 DEF Known, Inv, Applied
    <3>2. own = {} \/ \E w : own = {w}
      BY <3>1
    <3>3. ASSUME own = {} PROVE Cardinality(own) <= 1
      <4>1. Cardinality({}) = 0
        BY FS_EmptySet
      <4>2. Cardinality(own) = 0
        BY <4>1, <3>3
      <4>3. QED  BY <4>2
    <3>4. ASSUME NEW w, own = {w} PROVE Cardinality(own) <= 1
      <4>1. Cardinality({w}) = 1
        BY FS_Singleton
      <4>2. Cardinality(own) = 1
        BY <4>1, <3>4
      <4>3. QED  BY <4>2
    <3>5. QED  BY <3>2, <3>3, <3>4
  <2>4. Cardinality(own) <= attempt[o]
    <3> DEFINE f == [w \in own |-> w.attempt]
    <3>1. attempt[o] \in Nat
      BY <2>1 DEF Inv, Typed
    <3>2. \A w \in own : w.attempt \in 1..attempt[o]
      BY <2>2, <3>1 DEF Known
    <3>3. \A v, w \in own : v.attempt = w.attempt => v = w
      BY <2>1 DEF Inv, OneEach, Requests
    <3>4. f \in [own -> 1..attempt[o]]
      BY <3>2
    <3>5. \A v, w \in own : f[v] = f[w] => v = w
      BY <3>3
    <3>6. f \in Injection(own, 1..attempt[o])
      BY <3>4, <3>5 DEF Injection, IsInjective
    <3>7. IsFiniteSet(1..attempt[o]) /\ Cardinality(1..attempt[o]) = attempt[o]
      <4> PICK n : n = attempt[o]
        OBVIOUS
      <4>1. n \in Nat /\ n \in Int /\ 1 \in Int
        BY <3>1
      <4>2. IsFiniteSet(1..n) /\ Cardinality(1..n) = IF 1 > n THEN 0 ELSE n - 1 + 1
        BY <4>1, FS_Interval, Zenon
      <4>3. Cardinality(1..n) = n
        BY <4>1, <4>2
      <4> QED BY <4>2, <4>3
    <3>8. Cardinality(own) <= Cardinality(1..attempt[o])
      BY <3>6, <3>7, FS_Injection
    <3>9. QED  BY <3>7, <3>8
  <2>5. QED  BY <2>3, <2>4
<1>2. QED  BY <1>1, Invariance, PTL
-----------------------------------------------------------------------------
\* The authorizations of the abstract ledger.
Authorized == {<<p.ref, p.value>> : p \in {q \in consented : q.domain = "settle"}}

\* A signature over the bytes of a settlement authorizes it; any other signature
\* changes nothing the ledger knows of.
LEMMA SignatureAuthorizes ==
  ASSUME NEW p \in CanonicalBytes, consented' = consented \cup {p}, UNCHANGED ledger
  PROVE  [Ledger!LedgerNext]_Ledger!lvars
<1>1. ASSUME p.domain = "settle" PROVE Ledger!LedgerNext
  <2>1. p.ref \in Refs /\ p.value \in Values
    BY DEF CanonicalBytes
  <2>2. Authorized' = Authorized \cup {<<p.ref, p.value>>}
    BY <1>1 DEF Authorized
  <2>3. Ledger!Authorize(p.ref, p.value)
    BY <2>2 DEF Ledger!Authorize, Authorized
  <2>4. QED  BY <2>1, <2>3 DEF Ledger!LedgerNext
<1>2. ASSUME p.domain # "settle" PROVE UNCHANGED Ledger!lvars
  <2>1. Authorized' = Authorized
    BY <1>2 DEF Authorized
  <2>2. QED  BY <2>1 DEF Ledger!lvars, Authorized
<1>3. QED  BY <1>1, <1>2

\* The node pays a settlement: an authorized one, for a reference not yet paid.
LEMMA NodePays ==
  ASSUME Inv, NEW r \in sent, NodeSettles(r), UNCHANGED consented
  PROVE  [Ledger!LedgerNext]_Ledger!lvars
<1>1. UNCHANGED ledger
      \/ (ledger[r.body.ref] = None /\ ledger' = [ledger EXCEPT ![r.body.ref] = r.body.value])
  BY DEF NodeSettles
<1>2. ASSUME UNCHANGED ledger PROVE UNCHANGED Ledger!lvars
  BY <1>2 DEF Ledger!lvars
<1>3. ASSUME ledger[r.body.ref] = None, ledger' = [ledger EXCEPT ![r.body.ref] = r.body.value]
      PROVE  Ledger!LedgerNext
  <2>1. r.signed \in consented /\ r.body \in Contents
    BY DEF Inv, RequestsKnown, Requests, Known
  <2>2. /\ r.signed.domain = "settle" /\ r.signed.ref = r.body.ref
        /\ r.signed.value = r.body.value
    BY DEF NodeSettles, Authentic, Preimage
  <2>3. <<r.body.ref, r.body.value>> \in Authorized
    BY <2>1, <2>2 DEF Authorized
  <2>4. r.body.ref \in Refs /\ r.body.value \in Values
    BY <2>1 DEF Contents
  <2>5. Ledger!Pay(r.body.ref, r.body.value)
    BY <1>3, <2>3 DEF Ledger!Pay, Authorized
  <2>6. QED  BY <2>4, <2>5 DEF Ledger!LedgerNext
<1>4. QED  BY <1>1, <1>2, <1>3

\* Every step of the signed writes is a step of the ledger or leaves it alone.
LEMMA LedgerStep ==
  ASSUME Inv, [Next]_vars
  PROVE  [Ledger!LedgerNext]_Ledger!lvars
<1>1. ASSUME UNCHANGED <<consented, ledger>> PROVE UNCHANGED Ledger!lvars
  BY <1>1 DEF Ledger!lvars
<1>2. ASSUME NEW o \in Ops, Call(o) PROVE [Ledger!LedgerNext]_Ledger!lvars
  <2>1. UNCHANGED ledger
    BY <1>2 DEF Call, node
  <2>2. ASSUME PresignedFirst(o) PROVE [Ledger!LedgerNext]_Ledger!lvars
    <3>1. PICK p : p = Preimage(kind[o], object[o])
      OBVIOUS
    <3>2. p \in CanonicalBytes
      BY <3>1, PreimageType DEF Inv, Typed
    <3>3. signed'[o] = p
      BY <2>2, <3>1 DEF PresignedFirst, TakeBytes, Inv, Typed
    <3>4. consented' = consented \cup {p}
      BY <2>2, <3>3 DEF PresignedFirst
    <3>5. QED  BY <2>1, <3>2, <3>4, SignatureAuthorizes
  <2>3. ASSUME PresignedAgain(o) \/ Prepare(o) PROVE UNCHANGED consented
    BY <2>3 DEF PresignedAgain, Prepare
  <2>4. QED  BY <1>1, <1>2, <2>1, <2>2, <2>3 DEF Call
<1>3. ASSUME NEW o \in Ops, SignerSigns(o) PROVE [Ledger!LedgerNext]_Ledger!lvars
  <2>1. PICK p : p = signed[o]
    OBVIOUS
  <2>2. p \in CanonicalBytes
    BY <1>3, <2>1 DEF SignerSigns, Inv, Consenting, Signing
  <2>3. consented' = consented \cup {p} /\ UNCHANGED ledger
    BY <1>3, <2>1 DEF SignerSigns, node
  <2>4. QED  BY <2>2, <2>3, SignatureAuthorizes
<1>4. ASSUME NEW r \in sent, NodeStep(r) PROVE [Ledger!LedgerNext]_Ledger!lvars
  <2>1. UNCHANGED consented
    BY <1>4 DEF NodeStep, NodeRefuses, NodeSettles, NodeWrites, AnswerOnly
  <2>2. NodeSettles(r) \/ UNCHANGED ledger
    BY <1>4 DEF NodeStep, NodeRefuses, NodeWrites, node
  <2>3. QED  BY <1>1, <2>1, <2>2, NodePays
<1>5. ASSUME NEW o \in Ops,
             \/ HashResolves(o) \/ HashFails(o) \/ ProofSigned(o) \/ SignerRefuses(o) \/ AnswerArrives(o)
             \/ SubmitFails(o) \/ Retry(o) \/ LookUp(o) \/ CallerEdits(o)
      PROVE  UNCHANGED <<consented, ledger>>
  BY <1>5 DEF HashResolves, HashFails, ProofSigned, SignerRefuses, AnswerArrives, SubmitFails, Retry,
              LookUp, CallerEdits, node
<1>6. ASSUME UNCHANGED vars PROVE UNCHANGED <<consented, ledger>>
  BY <1>6 DEF vars, local, node
<1>7. QED
  BY <1>1, <1>2, <1>3, <1>4, <1>5, <1>6 DEF Next, ClientStep, Terminated

\* settleAuthorized and its Presigned form implement SettlementLedger: money moves
\* only as signed, and once per external reference.
THEOREM LedgerImplemented == Spec => ImplementsLedger
<1>1. Init => Ledger!LedgerInit
  BY DEF Init, Ledger!LedgerInit
<1>2. Inv /\ [Next]_vars => [Ledger!LedgerNext]_Ledger!lvars
  BY LedgerStep
<1>3. QED  BY <1>1, <1>2, Invariance, PTL DEF Spec, ImplementsLedger, Ledger!LedgerSpec
-----------------------------------------------------------------------------
(***************************************************************************)
(* Types, with the bounds: the nonce of a request was drawn, and an        *)
(* operation has no more calls than all of them together.                  *)
(***************************************************************************)
Outcomes == Answers \cup {"none", "invalid", "hash", "signer", "unknown"}

\* The nonce of a signature was drawn.
Drawn ==
  /\ \A o \in Ops : serial[o] <= serials
  /\ \A o \in Ops :
       pc[o] \in {"sign", "proof"} \/ (presigned[o] /\ attempt[o] > 0) => 0 < serial[o]
  /\ \A r \in sent : r.serial \in 1..serials
  /\ used \subseteq 1..serials

Bounded == \A o \in Ops : edits[o] <= MaxEdits /\ attempt[o] <= MaxCalls

Settling ==
  /\ kind \in [Ops -> Kinds]
  /\ outcome \in [Ops -> Outcomes] /\ answer \in [Ops -> Answers \cup {"none"}]

TypeInv == Inv /\ Drawn /\ Bounded /\ Settling

\* While calls are left, each operation has one left.
LEMMA CallsBound ==
  ASSUME NEW o \in Ops, attempt[o] \in Nat, Calls < MaxCalls
  PROVE  attempt[o] < MaxCalls
<1> DEFINE made == {c \in Ops \X (1..MaxCalls) : c[2] <= attempt[c[1]]}
           full == {o} \X (1..MaxCalls)
<1>1. MaxCalls \in Nat /\ MaxCalls > 0
  BY BoundsAssumption
<1>2. IsFiniteSet(1..MaxCalls) /\ Cardinality(1..MaxCalls) = MaxCalls
  BY <1>1, FS_Interval
<1>3. IsFiniteSet(Ops \X (1..MaxCalls))
  BY <1>2, OpsAssumption, FS_Product
<1>4. IsFiniteSet(made) /\ Cardinality(made) < MaxCalls
  BY <1>3, FS_Subset DEF Calls
<1>5. IsFiniteSet(full) /\ Cardinality(full) = MaxCalls
  <2>1. IsFiniteSet({o}) /\ Cardinality({o}) = 1
    BY FS_Singleton, Zenon
  <2>2. IsFiniteSet(full) /\ Cardinality(full) = Cardinality({o}) * Cardinality(1..MaxCalls)
    BY <1>2, <2>1, FS_Product, Zenon
  <2>3. 1 * MaxCalls = MaxCalls
    BY <1>1
  <2> QED BY <1>2, <2>1, <2>2, <2>3, Zenon
<1> SUFFICES ASSUME attempt[o] >= MaxCalls PROVE FALSE
  BY <1>1
<1>6. full \subseteq made
  BY <1>1
<1>7. Cardinality(full) <= Cardinality(made)
  BY <1>4, <1>6, FS_Subset
<1>8. Cardinality(made) \in Nat
  BY <1>4, FS_CardinalityType
<1> HIDE DEF made, full
<1> QED BY <1>1, <1>4, <1>5, <1>7, <1>8

LEMMA InitTypeInv == Init => TypeInv
<1> SUFFICES ASSUME Init PROVE TypeInv
  OBVIOUS
<1>1. Drawn /\ Bounded /\ Settling
  BY BoundsAssumption DEF Init, Drawn, Bounded, Settling, Outcomes
<1> QED BY <1>1, InitInv DEF TypeInv

\* A request is sent with the nonce of its operation.
LEMMA SendDraws ==
  ASSUME TypeInv, NEW o \in Ops, Send(o), 0 < serial'[o],
         serials' \in Nat, serials <= serials', UNCHANGED <<presigned, used>>,
         \A p \in Ops : serial'[p] \in Nat /\ serial'[p] <= serials',
         \A p \in Ops : p # o => serial'[p] = serial[p] /\ attempt'[p] = attempt[p]
  PROVE  Drawn' /\ outcome' \in [Ops -> Outcomes]
<1>1. /\ serials \in Nat /\ pc \in [Ops -> Pcs] /\ outcome \in [Ops -> Outcomes] /\ Drawn
  BY DEF TypeInv, Inv, Typed, Settling
<1>2. PICK new : new = Request(o, object[o])
  OBVIOUS
<1>3. new.serial = serial'[o] /\ (sent' = sent \/ sent' = sent \cup {new})
  BY <1>2 DEF Send, Throw, Request
<1>4. outcome' \in [Ops -> Outcomes]
  BY <1>1 DEF Send, Throw, Outcomes
<1>5. \A p \in Ops : p # o => pc'[p] = pc[p]
  BY <1>1 DEF Send, Throw
<1>6. \A r \in sent' : r.serial \in 1..serials'
  BY <1>1, <1>3 DEF Drawn
<1>7. \A p \in Ops :
         pc'[p] \in {"sign", "proof"} \/ (presigned[p] /\ attempt'[p] > 0) => 0 < serial'[p]
  BY <1>1, <1>5 DEF Drawn
<1>8. used \subseteq 1..serials'
  BY <1>1 DEF Drawn
<1> QED BY <1>4, <1>6, <1>7, <1>8 DEF Drawn

LEMMA CallTypes ==
  ASSUME TypeInv, NEW o \in Ops, Call(o)
  PROVE  Drawn' /\ Bounded' /\ Settling'
<1>1. /\ Calls < MaxCalls /\ attempt' = [attempt EXCEPT ![o] = @ + 1]
      /\ edits' = [edits EXCEPT ![o] = 0]
      /\ UNCHANGED <<kind, presigned, answer, used>>
  BY DEF Call, args, node
<1>2. /\ Inv /\ Drawn /\ Bounded /\ Settling /\ Typed
      /\ MaxCalls \in Nat /\ MaxEdits \in Nat /\ serials \in Nat
      /\ serial \in [Ops -> Nat] /\ attempt \in [Ops -> Nat] /\ edits \in [Ops -> Nat]
  BY BoundsAssumption DEF TypeInv, Inv, Typed
<1>3. attempt[o] < MaxCalls
  BY <1>1, <1>2, CallsBound
<1>4. Bounded'
  BY <1>1, <1>2, <1>3 DEF Bounded
<1>5. \A p \in Ops : p # o => attempt'[p] = attempt[p]
  BY <1>1, <1>2
<1>6. ASSUME PresignedFirst(o) PROVE Drawn' /\ outcome' \in [Ops -> Outcomes]
  <2>1. Send(o) /\ serial' = [serial EXCEPT ![o] = serials + 1] /\ serials' = serials + 1
    BY <1>6 DEF PresignedFirst
  <2>2. /\ serials' \in Nat /\ serials <= serials' /\ 0 < serial'[o]
        /\ \A p \in Ops : serial'[p] \in Nat /\ serial'[p] <= serials'
        /\ \A p \in Ops : p # o => serial'[p] = serial[p]
    BY <1>2, <2>1 DEF Drawn
  <2> QED BY <1>1, <1>5, <2>1, <2>2, SendDraws
<1>7. ASSUME PresignedAgain(o) PROVE Drawn' /\ outcome' \in [Ops -> Outcomes]
  <2>1. Send(o) /\ UNCHANGED <<serial, serials>> /\ 0 < serial[o]
    BY <1>2, <1>7 DEF PresignedAgain, Drawn
  <2>2. \A p \in Ops : serial'[p] \in Nat /\ serial'[p] <= serials'
    BY <1>2, <2>1 DEF Drawn
  <2> QED BY <1>1, <1>2, <1>5, <2>1, <2>2, SendDraws
<1>8. ASSUME Prepare(o) PROVE Drawn' /\ outcome' \in [Ops -> Outcomes]
  <2>1. ~presigned[o] /\ UNCHANGED <<serial, serials, sent>>
    BY <1>8 DEF Prepare, Throw
  <2>2. /\ \A p \in Ops : p # o => pc'[p] = pc[p]
        /\ pc'[o] \in {"done", "hash"}
        /\ outcome' \in [Ops -> Outcomes]
    BY <1>2, <1>8 DEF Prepare, Throw, Typed, Settling, Outcomes
  <2> QED BY <1>1, <1>2, <1>5, <2>1, <2>2 DEF Drawn
<1> QED BY <1>1, <1>2, <1>4, <1>6, <1>7, <1>8 DEF Call, Settling

LEMMA ClientTypes ==
  ASSUME TypeInv, NEW o \in Ops, ClientStep(o) \/ CallerEdits(o)
  PROVE  Drawn' /\ Bounded' /\ Settling'
<1>1. /\ Inv /\ Drawn /\ Bounded /\ Settling /\ Typed
      /\ MaxCalls \in Nat /\ MaxEdits \in Nat /\ serials \in Nat
      /\ serial \in [Ops -> Nat] /\ attempt \in [Ops -> Nat] /\ edits \in [Ops -> Nat]
      /\ pc \in [Ops -> Pcs]
  BY BoundsAssumption DEF TypeInv, Inv, Typed
<1>2. CASE Call(o)
  BY <1>2, CallTypes
<1>3. CASE HashResolves(o)
  <2>1. /\ pc' = [pc EXCEPT ![o] = "sign"] /\ serials' = serials + 1
        /\ serial' = [serial EXCEPT ![o] = serials + 1]
        /\ UNCHANGED <<kind, presigned, edits, attempt, outcome, answer, sent, used>>
    BY <1>3 DEF HashResolves, args, node
  <2>2. Drawn'
    BY <1>1, <2>1 DEF Drawn
  <2> QED BY <1>1, <2>1, <2>2 DEF Bounded, Settling
<1>4. CASE SignerSigns(o) \/ ProofSigned(o)
  <2>1. /\ pc[o] \in {"sign", "proof"}
        /\ UNCHANGED <<kind, presigned, serial, serials, edits, attempt, answer, used>>
    BY <1>4 DEF SignerSigns, ProofSigned, args, node
  <2>2. 0 < serial[o] /\ \A p \in Ops : serial[p] <= serials
    BY <1>1, <2>1 DEF Drawn
  <2>3. CASE Send(o)
    <3>1. Drawn' /\ outcome' \in [Ops -> Outcomes]
      BY <1>1, <2>1, <2>2, <2>3, SendDraws
    <3> QED BY <1>1, <2>1, <3>1 DEF Bounded, Settling
  <2>4. CASE pc' = [pc EXCEPT ![o] = "proof"] /\ UNCHANGED <<outcome, sent>>
    BY <1>1, <2>1, <2>2, <2>4 DEF Drawn, Bounded, Settling
  <2>5. CASE Throw(o, "invalid")
    BY <1>1, <2>1, <2>2, <2>5 DEF Throw, Drawn, Bounded, Settling, Outcomes
  <2> QED BY <1>4, <2>3, <2>4, <2>5 DEF SignerSigns, SignProof, ProofSigned
<1>5. CASE HashFails(o) \/ SignerRefuses(o) \/ AnswerArrives(o) \/ SubmitFails(o) \/ Retry(o) \/ LookUp(o)
  <2>1. UNCHANGED <<kind, presigned, serial, serials, edits, attempt, sent, used>>
    BY <1>5 DEF HashFails, SignerRefuses, AnswerArrives, SubmitFails, Retry, LookUp, Throw,
       args, node
  <2>2. \A p \in Ops : pc'[p] = pc[p] \/ pc'[p] \notin {"sign", "proof"}
    BY <1>1, <1>5 DEF HashFails, SignerRefuses, AnswerArrives, SubmitFails, Retry, LookUp, Throw
  <2>3. outcome' \in [Ops -> Outcomes] /\ answer' \in [Ops -> Answers \cup {"none"}]
    BY <1>1, <1>5 DEF HashFails, SignerRefuses, AnswerArrives, SubmitFails, Retry, LookUp, Throw,
       Settling, Outcomes, Answers
  <2>4. Drawn'
    BY <1>1, <2>1, <2>2 DEF Drawn
  <2> QED BY <1>1, <2>1, <2>3, <2>4 DEF Bounded, Settling
<1>6. CASE CallerEdits(o)
  <2>1. /\ edits[o] < MaxEdits /\ edits' = [edits EXCEPT ![o] = @ + 1]
        /\ UNCHANGED <<kind, presigned, pc, serial, serials, attempt, outcome, answer, sent,
                       used>>
    BY <1>6 DEF CallerEdits, args, node
  <2> QED BY <1>1, <2>1 DEF Drawn, Bounded, Settling
<1> QED BY <1>2, <1>3, <1>4, <1>5, <1>6 DEF ClientStep

LEMMA NodeStepTypes ==
  ASSUME TypeInv, NEW r \in sent, NodeStep(r)
  PROVE  Drawn' /\ Bounded' /\ Settling'
<1>1. Drawn /\ Bounded /\ Settling
  BY DEF TypeInv
<1>2. /\ sent' \subseteq sent
      /\ UNCHANGED <<kind, presigned, pc, serial, serials, edits, attempt, outcome>>
      /\ used' = used \/ used' = used \cup {r.serial}
  BY DEF NodeStep, NodeRefuses, NodeSettles, NodeWrites, AnswerOnly, args, node
<1>3. answer' \in [Ops -> Answers \cup {"none"}]
  BY <1>1 DEF NodeStep, NodeRefuses, NodeSettles, NodeWrites, AnswerOnly, Settling, Answers
<1> QED BY <1>1, <1>2, <1>3 DEF Drawn, Bounded, Settling

LEMMA NextTypeInv == TypeInv /\ [Next]_vars => TypeInv'
<1> SUFFICES ASSUME TypeInv, [Next]_vars PROVE TypeInv'
  OBVIOUS
<1>1. Inv'
  BY NextInv DEF TypeInv
<1>2. Drawn' /\ Bounded' /\ Settling'
  <2>1. CASE UNCHANGED vars
    BY <2>1 DEF vars, args, local, node, TypeInv, Drawn, Bounded, Settling
  <2> QED BY <2>1, ClientTypes, NodeStepTypes DEF Next, Terminated
<1> QED BY <1>1, <1>2 DEF TypeInv

\* The writes of app.ts and identity.ts keep their types and their bounds: no
\* write has more calls than the retries allow, and a nonce that the node has
\* seen was drawn.
THEOREM TypeCorrect == Spec => []TypeOK
<1>1. TypeInv => TypeOK
  <2> SUFFICES ASSUME TypeInv PROVE TypeOK
    OBVIOUS
  <2>1. Typed /\ Drawn /\ Bounded /\ Settling /\ MaxCalls \in Nat /\ MaxEdits \in Nat
    BY BoundsAssumption DEF TypeInv, Inv
  <2>2. /\ serial \in [Ops -> 0..serials]
        /\ edits \in [Ops -> 0..MaxEdits] /\ attempt \in [Ops -> 0..MaxCalls]
    BY <2>1 DEF Typed, Drawn, Bounded
  <2>3. CanonicalBytes \subseteq Preimages
    BY DEF CanonicalBytes, Preimages
  <2>4. signed \in [Ops -> Preimages \cup {None}] /\ consented \subseteq Preimages
    BY <2>1, <2>3 DEF Typed
  <2> QED BY <2>1, <2>2, <2>4 DEF TypeOK, Typed, Drawn, Settling, Outcomes
<1> QED BY <1>1, InitTypeInv, NextTypeInv, PTL DEF Spec
=============================================================================
