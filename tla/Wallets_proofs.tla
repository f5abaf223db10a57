----------------------------- MODULE Wallets_proofs ----------------------------
(***************************************************************************)
(* The two clients that hold keys.                                         *)
(*                                                                         *)
(* Custody: an acknowledged abort is final, for any number of sessions,    *)
(* requests and lost or late answers, and whenever sessions are evicted.   *)
(* It does not follow from what wallet and node hold alone.  Known says    *)
(* what each request and answer under way can still tell: that it is about *)
(* the wallet's session while it is awaited, and that an end it reports is *)
(* the end of that session, because ends are never left.                   *)
(*                                                                         *)
(* Passkeys: a wallet keeps the key it was created with, for any number of *)
(* wallets, authenticators, restarts and concurrent creations and          *)
(* signatures.  KeysAreTheWallets is not inductive: what a signature is    *)
(* worth depends on the credential id its assertion was asked for, and     *)
(* what a new wallet gets on the authenticator that passed the             *)
(* availability check.  PasskeysInv adds both.                             *)
(***************************************************************************)
EXTENDS PasskeyWallet, FrostSigning, TLAPS

(***************************************************************************)
(* Custody                                                                 *)
(***************************************************************************)
EscrowPaths == {"escrow/challenge", "escrow/unwrap"}
SessionPaths == Paths \ (EscrowPaths \cup {"start"})
SessionStates == FrostSessionState \cup {"none"}

Messages ==
  [id : Nat, path : Paths, session : Signings \cup {NoSigning}, nonce : Nat,
   state : SessionStates \cup {"request", "ok", "error"}]

\* The types on which the proofs rest.
FrostTyped ==
  /\ holds \in Nat /\ holds <= nonces /\ nonces \in Nat
  /\ MaxSent \in Nat /\ sent \in Nat /\ sent <= MaxSent /\ awaited \in Nat /\ awaited <= sent
  /\ unsealed \in BOOLEAN /\ package \in BOOLEAN
  /\ current \in Signings \cup {NoSigning} /\ told \in SessionStates
  /\ told # "none" => current \in Signings
  /\ aborts \subseteq Signings /\ signature \subseteq Signings /\ evicted \subseteq Signings
  /\ escrow \subseteq 1..nonces
  /\ frost \in [Signings -> SessionStates]
  /\ net \subseteq Messages

\* What a request or an answer can still tell the wallet.
Known(m) ==
  /\ 0 < m.id /\ m.id <= sent /\ m.nonce <= nonces
  /\ m.path \notin EscrowPaths => m.state # "ok"
  /\ m.path \in SessionPaths =>
       /\ m.session \in Signings
       /\ m.id = awaited => m.session = current
       /\ m.state \in {"aborted", "finalized"} => frost[m.session] = m.state
  /\ m.path = "start" /\ m.state \notin {"request", "error"} =>
       m.state = "pending" /\ m.session \in Signings

AllKnown == \A m \in net : Known(m)

FrostInv == FrostTyped /\ AllKnown /\ AbortedNeverSigns
-----------------------------------------------------------------------------
LEMMA FrostInitHolds == FrostInit => FrostInv
<1> HAVE FrostInit
<1>1. FrostTyped
  <2>1. frost \in [Signings -> SessionStates] /\ told \in SessionStates
    BY DEF FrostInit, SessionStates
  <2>2. unsealed \in BOOLEAN /\ package \in BOOLEAN
    BY Zenon DEF FrostInit
  <2> QED
    BY <2>1, <2>2, SentAssumption DEF FrostInit, FrostTyped
<1>2. AllKnown /\ AbortedNeverSigns
  BY DEF FrostInit, AllKnown, AbortedNeverSigns
<1> QED
  BY <1>1, <1>2 DEF FrostInv

\* A request about the wallet's session, or for its share.
LEMMA PostKeeps ==
  ASSUME FrostInv, NEW path \in Paths, NEW nonce \in Nat, PostWithAuth(path, nonce),
         path \in SessionPaths => current \in Signings,
         nonce <= nonces, holds' \in {0, holds}
  PROVE  FrostInv'
<1>0. PICK r : r = [id |-> sent + 1, path |-> path, session |-> current,
                    nonce |-> nonce, state |-> "request"]
  OBVIOUS
<1>1. /\ net' = net \cup {r} /\ sent' = sent + 1 /\ awaited' = sent + 1 /\ sent < MaxSent
      /\ UNCHANGED <<unsealed, current, told, aborts, package, signature, escrow, nonces,
                     frost, evicted>>
  BY <1>0 DEF PostWithAuth, server
<1>2. FrostTyped /\ AllKnown /\ AbortedNeverSigns
  BY DEF FrostInv
<1>3. r \in Messages
  BY <1>0, <1>2 DEF Messages, FrostTyped
<1>4. /\ r.id = sent + 1 /\ r.path = path /\ r.session = current
      /\ r.nonce = nonce /\ r.state = "request"
  BY <1>0
<1>5. FrostTyped'
  BY <1>1, <1>2, <1>3 DEF FrostTyped
<1>6. AllKnown'
  <2>1. ASSUME NEW m \in net PROVE Known(m)'
    <3>1. Known(m) /\ m \in Messages
      BY <1>2 DEF AllKnown, FrostTyped
    <3> QED
      BY <1>1, <1>2, <3>1 DEF Known, FrostTyped, Messages
  <2>2. Known(r)'
    BY <1>1, <1>2, <1>4 DEF Known, FrostTyped
  <2> QED
    BY <1>1, <2>1, <2>2 DEF AllKnown
<1> QED
  BY <1>1, <1>2, <1>5, <1>6 DEF FrostInv, AbortedNeverSigns

\* A message under way is replaced by another one of the same call, and the
\* wallet, which does not see it, keeps what it has.  No session leaves its end.
LEMMA AnswerKeeps ==
  ASSUME FrostInv, NEW m \in net, NEW r \in Messages,
         net' = (net \ {m}) \cup {r}, UNCHANGED wallet, FrostTyped',
         nonces <= nonces',
         \A s \in Signings : frost[s] \in {"aborted", "finalized"} => frost'[s] = frost[s],
         Known(r)'
  PROVE  FrostInv'
<1>1. FrostTyped /\ AllKnown /\ AbortedNeverSigns
  BY DEF FrostInv
<1>2. AllKnown'
  <2>1. ASSUME NEW n \in net PROVE Known(n)'
    <3>1. Known(n) /\ n.nonce \in Nat
      BY <1>1 DEF AllKnown, FrostTyped, Messages
    <3>2. n.nonce <= nonces'
      BY <1>1, <3>1 DEF Known, FrostTyped
    <3> QED
      BY <3>1, <3>2 DEF Known, wallet
  <2> QED
    BY <2>1 DEF AllKnown
<1>3. AbortedNeverSigns'
  BY <1>1 DEF AbortedNeverSigns, FrostTyped, wallet
<1> QED
  BY <1>2, <1>3 DEF FrostInv

\* The wallet takes the answer it awaits, or drops a late one.
LEMMA TakeKeeps ==
  ASSUME FrostInv, NEW m \in net, TakeAnswer(m)
  PROVE  FrostInv'
<1>1. FrostTyped /\ AllKnown /\ AbortedNeverSigns
  BY DEF FrostInv
<1>2. Known(m) /\ m \in Messages /\ m.state # "request"
  BY <1>1 DEF AllKnown, FrostTyped, TakeAnswer
<1>3. net' = net \ {m} /\ UNCHANGED <<sent, escrow, nonces, frost, evicted>>
  BY DEF TakeAnswer, server
<1>4. CASE awaited # m.id \/ m.state = "error"
  <2>1. UNCHANGED <<holds, unsealed, current, told, aborts, package, signature>>
        /\ awaited' \in {awaited, 0}
    BY <1>4 DEF TakeAnswer
  <2>2. FrostTyped'
    BY <1>1, <1>3, <2>1 DEF FrostTyped
  <2>3. AllKnown'
    BY <1>1, <1>3, <2>1 DEF AllKnown, Known
  <2> QED
    BY <1>1, <1>3, <2>1, <2>2, <2>3 DEF FrostInv, AbortedNeverSigns
<1>5. CASE awaited = m.id /\ m.state # "error"
  <2>1. /\ awaited' = 0
        /\ holds' = IF m.path = "escrow/challenge" THEN m.nonce ELSE holds
        /\ unsealed' = (unsealed \/ m.path = "escrow/unwrap")
        /\ current' = IF m.path = "start" THEN m.session ELSE current
        /\ told' = IF m.path \in EscrowPaths THEN told ELSE m.state
        /\ aborts' = IF m.path \notin EscrowPaths /\ m.state = "aborted"
                     THEN aborts \cup {m.session} ELSE aborts
        /\ package' = (package \/ (m.path = "await-challenge" /\ m.state = "committed"))
        /\ signature' = IF m.path = "finalize" /\ m.state = "finalized"
                        THEN signature \cup {m.session} ELSE signature
    BY <1>5 DEF TakeAnswer, AnsweredState, EscrowPaths
  <2>2. unsealed' \in BOOLEAN /\ package' \in BOOLEAN
    BY <2>1
  <2>3. m.path \in EscrowPaths \/ m.path = "start" \/ m.path \in SessionPaths
    BY <1>2 DEF Messages, SessionPaths
  <2>4. m.path \notin EscrowPaths => m.state \in SessionStates
    BY <1>2, <1>5 DEF Known, Messages
  <2>5. m.path \in SessionPaths => m.session \in Signings /\ m.session = current
    BY <1>2, <1>5 DEF Known
  <2>6. m.path = "start" => m.session \in Signings /\ m.state = "pending"
    BY <1>2, <1>5 DEF Known
  <2>7. m.path = "finalize" => m.path \in SessionPaths
    BY DEF SessionPaths, Paths, EscrowPaths
  <2>8. FrostTyped'
    <3>1. told' \in SessionStates /\ (told' # "none" => current' \in Signings)
          /\ current' \in Signings \cup {NoSigning}
      BY <1>1, <2>1, <2>3, <2>4, <2>5, <2>6 DEF FrostTyped
    <3>2. holds' \in Nat /\ holds' <= nonces
      BY <1>1, <1>2, <2>1 DEF FrostTyped, Known, Messages
    <3>3. signature' \subseteq Signings /\ aborts' \subseteq Signings
      BY <1>1, <2>1, <2>3, <2>5, <2>6, <2>7 DEF FrostTyped
    <3> QED
      BY <1>1, <1>3, <2>1, <2>2, <3>1, <3>2, <3>3 DEF FrostTyped
  <2>9. AllKnown'
    BY <1>1, <1>3, <2>1 DEF AllKnown, Known
  <2>10. AbortedNeverSigns'
    <3>1. \A s \in aborts' : frost'[s] = "aborted"
      BY <1>1, <1>2, <1>3, <2>1, <2>3, <2>6 DEF Known, AbortedNeverSigns
    <3>2. \A s \in signature' : frost'[s] = "finalized"
      BY <1>1, <1>2, <1>3, <2>1, <2>7 DEF Known, AbortedNeverSigns
    <3> QED
      BY <3>1, <3>2 DEF AbortedNeverSigns
  <2> QED
    BY <2>8, <2>9, <2>10 DEF FrostInv
<1> QED
  BY <1>4, <1>5

LEMMA GivenUpKeeps == FrostInv /\ GivenUp => FrostInv'
<1> HAVE FrostInv /\ GivenUp
<1>1. FrostTyped /\ AllKnown /\ AbortedNeverSigns
  BY DEF FrostInv
<1>2. /\ net' \subseteq net /\ awaited' = 0
      /\ UNCHANGED <<holds, unsealed, current, told, aborts, package, signature, sent, escrow,
                     nonces, frost, evicted>>
  BY DEF GivenUp, server
<1>3. FrostTyped'
  BY <1>1, <1>2 DEF FrostTyped
<1>4. AllKnown'
  BY <1>1, <1>2 DEF AllKnown, Known
<1> QED
  BY <1>1, <1>2, <1>3, <1>4 DEF FrostInv, AbortedNeverSigns

LEMMA StartOverKeeps == FrostInv /\ StartOver => FrostInv'
<1> HAVE FrostInv /\ StartOver
<1>1. FrostTyped /\ AllKnown /\ AbortedNeverSigns
  BY DEF FrostInv
<1>2. /\ awaited = 0 /\ current' = NoSigning /\ told' = "none" /\ package' = FALSE
      /\ UNCHANGED <<holds, unsealed, aborts, signature, sent, awaited, net, escrow, nonces,
                     frost, evicted>>
  BY DEF StartOver, server
<1>3. FrostTyped'
  BY <1>1, <1>2 DEF FrostTyped, SessionStates
<1>4. AllKnown'
  BY <1>1, <1>2 DEF AllKnown, Known
<1> QED
  BY <1>1, <1>2, <1>3, <1>4 DEF FrostInv, AbortedNeverSigns
-----------------------------------------------------------------------------
\* The node's answer keeps the wallet's call, session and nonce unless it says so.
LEMMA FrostAnswered ==
  \A m \in Messages, st \in SessionStates \cup {"ok", "error"} :
    \E r \in Messages :
      /\ r = [m EXCEPT !.state = st]
      /\ r.id = m.id /\ r.path = m.path /\ r.session = m.session
      /\ r.nonce = m.nonce /\ r.state = st
<1> TAKE m \in Messages, st \in SessionStates \cup {"ok", "error"}
<1>1. [m EXCEPT !.state = st] \in Messages
  BY DEF Messages
<1> WITNESS [m EXCEPT !.state = st] \in Messages
<1> QED
  BY DEF Messages

\* Answers that leave every session, and the nonces minted, as they were.
LEMMA EscrowKeeps ==
  ASSUME FrostInv, NEW m \in net, NEW st \in {"ok", "error"}, AnswerState(m, st),
         UNCHANGED <<wallet, nonces, frost, evicted>>, escrow' \subseteq escrow,
         st = "ok" => m.path = "escrow/unwrap"
  PROVE  FrostInv'
<1>1. FrostTyped /\ AllKnown
  BY DEF FrostInv
<1>2. PICK r \in Messages :
        /\ r = [m EXCEPT !.state = st]
        /\ r.id = m.id /\ r.path = m.path /\ r.session = m.session
        /\ r.nonce = m.nonce /\ r.state = st
  <2>1. m \in Messages
    BY <1>1 DEF FrostTyped
  <2> QED
    BY <2>1, FrostAnswered
<1>3. net' = (net \ {m}) \cup {r}
  BY <1>2 DEF AnswerState, Reply
<1>4. FrostTyped'
  BY <1>1, <1>3 DEF FrostTyped, wallet
<1>5. Known(r)'
  BY <1>1, <1>2 DEF AllKnown, Known, wallet, EscrowPaths, SessionPaths
<1>6. nonces <= nonces'
  BY <1>1 DEF FrostTyped
<1> QED
  BY <1>2, <1>3, <1>4, <1>5, <1>6, AnswerKeeps

\* Answers with the state of the session as it is after the step, when no end is left.
LEMMA SessionKeeps ==
  ASSUME FrostInv, NEW m \in net, m.path \in SessionPaths, NEW f \in [Signings -> SessionStates],
         frost' = f, AnswerState(m, f[m.session]), UNCHANGED wallet,
         UNCHANGED <<escrow, nonces, evicted>>,
         \A s \in Signings : frost[s] \in {"aborted", "finalized"} => f[s] = frost[s]
  PROVE  FrostInv'
<1>1. FrostTyped /\ AllKnown
  BY DEF FrostInv
<1>2. m.session \in Signings
  BY <1>1 DEF AllKnown, Known
<1>3. f[m.session] \in SessionStates
  BY <1>2
<1>4. PICK r \in Messages :
        /\ r = [m EXCEPT !.state = f[m.session]]
        /\ r.id = m.id /\ r.path = m.path /\ r.session = m.session
        /\ r.nonce = m.nonce /\ r.state = f[m.session]
  <2>1. m \in Messages
    BY <1>1 DEF FrostTyped
  <2> QED
    BY <1>3, <2>1, FrostAnswered
<1>5. net' = (net \ {m}) \cup {r}
  BY <1>4 DEF AnswerState, Reply
<1>6. FrostTyped'
  BY <1>1, <1>5 DEF FrostTyped, wallet
<1>7. Known(r)'
  <2>1. r.path # "start" /\ r.state # "ok"
    BY <1>3, <1>4 DEF SessionPaths, SessionStates, FrostSessionState
  <2> QED
    BY <1>1, <1>2, <1>4, <2>1 DEF AllKnown, Known, wallet
<1>8. nonces <= nonces'
  BY <1>1 DEF FrostTyped
<1> QED
  BY <1>4, <1>5, <1>6, <1>7, <1>8, AnswerKeeps

LEMMA MintsKeeps ==
  ASSUME FrostInv, NEW m \in net, m.state = "request", NodeMintsNonce(m), UNCHANGED wallet
  PROVE  FrostInv'
<1>1. FrostTyped /\ AllKnown
  BY DEF FrostInv
<1>2. PICK r \in Messages :
        /\ r = [m EXCEPT !.nonce = nonces + 1, !.state = "ok"]
        /\ r.id = m.id /\ r.path = m.path /\ r.session = m.session
        /\ r.nonce = nonces + 1 /\ r.state = "ok"
  <2>1. m \in Messages /\ nonces + 1 \in Nat
    BY <1>1 DEF FrostTyped
  <2>2. [m EXCEPT !.nonce = nonces + 1, !.state = "ok"] \in Messages
    BY <2>1 DEF Messages
  <2> QED
    BY <2>1, <2>2 DEF Messages
<1>3. /\ net' = (net \ {m}) \cup {r} /\ m.path = "escrow/challenge"
      /\ nonces' = nonces + 1 /\ escrow' = escrow \cup {nonces + 1}
      /\ UNCHANGED <<frost, evicted>>
  BY <1>2 DEF NodeMintsNonce, Reply
<1>4. FrostTyped'
  <2>1. escrow' \subseteq 1..nonces' /\ nonces' \in Nat
    BY <1>1, <1>3 DEF FrostTyped
  <2>2. holds' \in Nat /\ holds' <= nonces'
    BY <1>1, <1>3 DEF FrostTyped, wallet
  <2> QED
    BY <1>1, <1>3, <2>1, <2>2 DEF FrostTyped, wallet
<1>5. Known(r)'
  BY <1>1, <1>2, <1>3 DEF AllKnown, Known, FrostTyped, wallet, EscrowPaths, SessionPaths
<1>6. nonces <= nonces'
  BY <1>1, <1>3 DEF FrostTyped
<1> QED
  BY <1>2, <1>3, <1>4, <1>5, <1>6, AnswerKeeps

LEMMA StartsKeeps ==
  ASSUME FrostInv, NEW m \in net, m.state = "request", NodeStarts(m), UNCHANGED wallet
  PROVE  FrostInv'
<1>1. FrostTyped /\ AllKnown
  BY DEF FrostInv
<1>2. m.path = "start" /\ UNCHANGED <<escrow, nonces, evicted>>
  BY DEF NodeStarts
<1>3. PICK s \in Signings :
        /\ frost[s] = "none"
        /\ frost' = [frost EXCEPT ![s] = "pending"]
        /\ Reply(m, [m EXCEPT !.session = s, !.state = "pending"])
  BY DEF NodeStarts
<1>4. PICK r \in Messages :
        /\ r = [m EXCEPT !.session = s, !.state = "pending"]
        /\ r.id = m.id /\ r.path = m.path /\ r.session = s
        /\ r.nonce = m.nonce /\ r.state = "pending"
  <2>1. m \in Messages
    BY <1>1 DEF FrostTyped
  <2>2. [m EXCEPT !.session = s, !.state = "pending"] \in Messages
    BY <2>1 DEF Messages, SessionStates, FrostSessionState
  <2> QED
    BY <2>1, <2>2 DEF Messages
<1>5. net' = (net \ {m}) \cup {r}
  BY <1>3, <1>4 DEF Reply
<1>6. frost' \in [Signings -> SessionStates]
  BY <1>1, <1>3 DEF FrostTyped, SessionStates, FrostSessionState
<1>7. FrostTyped'
  BY <1>1, <1>2, <1>5, <1>6 DEF FrostTyped, wallet
<1>8. Known(r)'
  BY <1>1, <1>2, <1>4 DEF AllKnown, Known, wallet, SessionPaths
<1>9. \A t \in Signings : frost[t] \in {"aborted", "finalized"} => frost'[t] = frost[t]
  BY <1>1, <1>3 DEF FrostTyped
<1>10. nonces <= nonces'
  BY <1>1, <1>2 DEF FrostTyped
<1> QED
  BY <1>4, <1>5, <1>7, <1>8, <1>9, <1>10, AnswerKeeps

LEMMA AdvancesKeeps ==
  ASSUME FrostInv, NEW m \in net, m.state = "request", NodeAdvances(m), UNCHANGED wallet
  PROVE  FrostInv'
<1>1. FrostTyped /\ AllKnown
  BY DEF FrostInv
<1>2. UNCHANGED <<escrow, nonces, evicted>>
  BY DEF NodeAdvances
<1>3. PICK from \in {"pending", "committed"}, to \in {"committed", "finalized"} :
        /\ m.path \in {"commit", "respond"} /\ frost[m.session] = from
        /\ frost' = [frost EXCEPT ![m.session] = to] /\ AnswerState(m, to)
  <2>1. PICK step \in {<<"commit", "pending", "committed">>,
                       <<"respond", "committed", "finalized">>} :
          /\ m.path = step[1] /\ frost[m.session] = step[2]
          /\ frost' = [frost EXCEPT ![m.session] = step[3]]
          /\ AnswerState(m, step[3])
    BY Zenon DEF NodeAdvances
  <2>2. /\ step[1] \in {"commit", "respond"} /\ step[2] \in {"pending", "committed"}
        /\ step[3] \in {"committed", "finalized"}
    OBVIOUS
  <2> QED
    BY <2>1, <2>2, Zenon
<1>4. m.path \in SessionPaths
  BY <1>3 DEF SessionPaths, Paths, EscrowPaths
<1>5. m.session \in Signings
  BY <1>1, <1>4 DEF AllKnown, Known
<1>6. frost' \in [Signings -> SessionStates] /\ frost'[m.session] = to
  BY <1>1, <1>3, <1>5 DEF FrostTyped, SessionStates, FrostSessionState
<1>7. \A s \in Signings : frost[s] \in {"aborted", "finalized"} => frost'[s] = frost[s]
  BY <1>1, <1>3 DEF FrostTyped
<1>8. PICK f : f = frost'
  OBVIOUS
<1>9. f \in [Signings -> SessionStates] /\ frost' = f /\ AnswerState(m, f[m.session])
  BY <1>3, <1>6, <1>8, Zenon
<1>10. \A s \in Signings : frost[s] \in {"aborted", "finalized"} => f[s] = frost[s]
  BY <1>7, <1>8, Zenon
<1> QED
  BY <1>2, <1>4, <1>9, <1>10, SessionKeeps

LEMMA ReportsKeeps ==
  ASSUME FrostInv, NEW m \in net, m.state = "request", NodeReports(m), UNCHANGED wallet
  PROVE  FrostInv'
<1>1. FrostTyped
  BY DEF FrostInv
<1>2. m.path \in SessionPaths
  BY DEF NodeReports, SessionPaths, Paths, EscrowPaths
<1>3. AnswerState(m, frost[m.session]) /\ UNCHANGED <<escrow, nonces, frost, evicted>>
  BY DEF NodeReports, server
<1>4. frost \in [Signings -> SessionStates]
  BY <1>1 DEF FrostTyped
<1> QED
  BY <1>2, <1>3, <1>4, SessionKeeps

LEMMA AbortsKeeps ==
  ASSUME FrostInv, NEW m \in net, m.state = "request", NodeAborts(m), UNCHANGED wallet
  PROVE  FrostInv'
<1>1. FrostTyped
  BY DEF FrostInv
<1>2. m.path \in SessionPaths
  BY DEF NodeAborts, SessionPaths, Paths, EscrowPaths
<1>3. /\ frost' = [frost EXCEPT ![m.session] =
                     IF @ \in {"pending", "committed"} THEN "aborted" ELSE @]
      /\ AnswerState(m, frost'[m.session]) /\ UNCHANGED <<escrow, nonces, evicted>>
  BY DEF NodeAborts
<1>4. frost' \in [Signings -> SessionStates]
  BY <1>1, <1>3 DEF FrostTyped, SessionStates, FrostSessionState
<1>5. \A s \in Signings : frost[s] \in {"aborted", "finalized"} => frost'[s] = frost[s]
  BY <1>1, <1>3 DEF FrostTyped
<1> QED
  BY <1>2, <1>3, <1>4, <1>5, SessionKeeps

LEMMA EvictsKeeps == FrostInv /\ NodeEvicts => FrostInv'
<1> HAVE FrostInv /\ NodeEvicts
<1>1. FrostTyped /\ AllKnown /\ AbortedNeverSigns
  BY DEF FrostInv
<1>2. UNCHANGED wallet /\ UNCHANGED <<net, nonces, frost>>
  BY DEF NodeEvicts
<1>3. escrow' \subseteq escrow /\ evicted' \subseteq Signings
  BY <1>1 DEF NodeEvicts, FrostTyped
<1>4. FrostTyped'
  BY <1>1, <1>2, <1>3 DEF FrostTyped, wallet
<1>5. AllKnown' /\ AbortedNeverSigns'
  BY <1>1, <1>2 DEF AllKnown, Known, AbortedNeverSigns, wallet
<1> QED
  BY <1>4, <1>5 DEF FrostInv
-----------------------------------------------------------------------------
LEMMA FrostNextKeeps == FrostInv /\ [FrostNext]_frostVars => FrostInv'
<1> SUFFICES ASSUME FrostInv, [FrostNext]_frostVars PROVE FrostInv'
  OBVIOUS
<1>1. FrostTyped
  BY DEF FrostInv
<1>2. CASE ShareEscrowChallenge \/ ShareEscrowUnwrap \/ FrostStart
  <2>1. 0 <= nonces /\ holds \in Nat /\ holds <= nonces
    BY <1>1 DEF FrostTyped
  <2>2. PICK path \in Paths, nonce \in {0, holds} :
          PostWithAuth(path, nonce) /\ path \notin SessionPaths /\ holds' \in {0, holds}
    BY <1>2 DEF ShareEscrowChallenge, ShareEscrowUnwrap, FrostStart, Paths, SessionPaths,
       EscrowPaths
  <2>3. nonce \in Nat /\ nonce <= nonces
    BY <2>1, <2>2
  <2> QED
    BY <2>2, <2>3, PostKeeps
<1>3. CASE FrostCommit \/ FrostAwaitChallenge \/ FrostRespond \/ FrostFinalize \/ FrostAbort
  <2>1. current \in Signings /\ 0 <= nonces
    BY <1>1, <1>3 DEF FrostTyped, FrostCommit, FrostAwaitChallenge, FrostRespond, FrostFinalize,
       FrostAbort
  <2>2. PICK path \in Paths : PostWithAuth(path, 0) /\ holds' \in {0, holds}
    BY <1>3 DEF FrostCommit, FrostAwaitChallenge, FrostRespond, FrostFinalize, FrostAbort, Paths
  <2> QED
    BY <2>1, <2>2, PostKeeps
<1>4. CASE GivenUp \/ StartOver \/ NodeEvicts
  BY <1>4, GivenUpKeeps, StartOverKeeps, EvictsKeeps
<1>5. ASSUME NEW m \in net, TakeAnswer(m) PROVE FrostInv'
  BY <1>5, TakeKeeps
<1>6. ASSUME NEW m \in net, NodeHandles(m) PROVE FrostInv'
  <2>1. m.state = "request" /\ UNCHANGED wallet
    BY <1>6 DEF NodeHandles
  <2>2. CASE NodeMintsNonce(m)
    BY <2>1, <2>2, MintsKeeps
  <2>3. CASE NodeUnwraps(m)
    <3>1. /\ m.path = "escrow/unwrap" /\ escrow' \subseteq escrow
          /\ AnswerState(m, "ok") \/ AnswerState(m, "error")
          /\ UNCHANGED <<nonces, frost, evicted>>
      BY <2>3 DEF NodeUnwraps
    <3> QED
      BY <2>1, <3>1, EscrowKeeps
  <2>4. CASE NodeStarts(m)
    BY <2>1, <2>4, StartsKeeps
  <2>5. CASE NodeAdvances(m)
    BY <2>1, <2>5, AdvancesKeeps
  <2>6. CASE NodeReports(m)
    BY <2>1, <2>6, ReportsKeeps
  <2>7. CASE NodeAborts(m)
    BY <2>1, <2>7, AbortsKeeps
  <2>8. CASE NodeRefuses(m)
    <3>1. AnswerState(m, "error") /\ UNCHANGED <<escrow, nonces, frost, evicted>>
      BY <2>8 DEF NodeRefuses, server
    <3> QED
      BY <2>1, <3>1, EscrowKeeps
  <2> QED
    BY <1>6, <2>2, <2>3, <2>4, <2>5, <2>6, <2>7, <2>8 DEF NodeHandles
<1>7. CASE UNCHANGED frostVars
  BY <1>7 DEF frostVars, wallet, server, FrostInv, FrostTyped, AllKnown, Known,
     AbortedNeverSigns
<1> QED
  BY <1>2, <1>3, <1>4, <1>5, <1>6, <1>7 DEF FrostNext

LEMMA FrostInvHolds == FrostSpec => []FrostInv
BY FrostInitHolds, FrostNextKeeps, PTL DEF FrostSpec

LEMMA FrostInvTypes == FrostInv => FrostTypeOK
<1> HAVE FrostInv
<1>1. FrostTyped /\ AllKnown
  BY DEF FrostInv
<1>2. holds \in 0..nonces /\ sent \in 0..MaxSent /\ awaited \in 0..sent
  BY <1>1 DEF FrostTyped
<1>3. \A m \in net : m.path \in Paths /\ m.session \in Signings \cup {NoSigning}
  BY <1>1 DEF FrostTyped, Messages
<1> QED
  BY <1>1, <1>2, <1>3 DEF FrostTypeOK, FrostTyped, SessionStates

\* Types of the wallet and of the node's sessions (src/custody.ts).
THEOREM FrostTypes == FrostSpec => []FrostTypeOK
  BY FrostInvTypes, FrostInvHolds, PTL

\* frostAbort and frostFinalize: a session that an answer called aborted never
\* gives a signature, and a signature is held only for a session that was
\* finalized, however many answers are lost, late or taken for lost, and
\* whenever sessions are evicted.
THEOREM AbortIsFinal == FrostSpec => []AbortedNeverSigns
<1>1. FrostInv => AbortedNeverSigns
  BY DEF FrostInv
<1> QED
  BY <1>1, FrostInvHolds, PTL

-----------------------------------------------------------------------------
(***************************************************************************)
(* Passkeys                                                                *)
(***************************************************************************)
Credentials == [of : Authenticators, wallet : Wallets \cup {NoCredential}]

Steps == {"idle", "availability", "credential", "returned", "failed"}

\* The type of each variable, on which the proofs rest.
PasskeysTyped ==
  /\ init \in [Software -> {"none", "running", "done", "failed"}]
  /\ creation \in [Wallets -> [step : Steps, platform : BOOLEAN, auth : Authenticators]]
  /\ made \subseteq Credentials
  /\ credential \in [Wallets -> Credentials \cup {NoCredential}]
  /\ module \subseteq Wallets
  /\ questions \in 0..MaxSignatures
  /\ \A q \in asked : q.wallet \in Wallets /\ q.auth \in Authenticators
  /\ \A s \in signed : s.wallet \in Wallets

\* A creation that requires the platform and has passed the check is on it.
OnItsPlatform ==
  \A w \in Wallets :
    creation[w].step = "credential" /\ creation[w].platform => creation[w].auth = Platform

\* A returned wallet has a key, of the platform if that was required.
HasKey ==
  \A w \in Wallets : creation[w].step = "returned" =>
    /\ credential[w] # NoCredential
    /\ creation[w].platform => credential[w].of = Platform

\* An assertion under way names the credential of a returned wallet.
AsksForItsKey ==
  \A q \in asked :
    creation[q.wallet].step = "returned" /\ q.id = credential[q.wallet]

\* A signature is by the key of a returned wallet.
SignedByItsKey ==
  \A s \in signed :
    creation[s.wallet].step = "returned" /\ s.key = credential[s.wallet]

PasskeysInv == PasskeysTyped /\ OnItsPlatform /\ HasKey /\ AsksForItsKey /\ SignedByItsKey

\* The initial states: no wallet, no assertion, no signature.
LEMMA PasskeysInit == Init => PasskeysInv
  BY WalletAssumption DEF Init, PasskeysInv, PasskeysTyped, OnItsPlatform, HasKey,
     AsksForItsKey, SignedByItsKey, Authenticators, Credentials, Steps

\* Every credential an authenticator hands out is one, and not NoCredential.
LEMMA CredentialsExist ==
  /\ NoCredential \notin Credentials
  /\ \A a \in Authenticators : OwnCredential(a) \in Credentials
  /\ \A w \in Wallets : [of |-> Platform, wallet |-> w] \in Credentials
  BY WalletAssumption DEF Credentials, Authenticators, OwnCredential

\* Constructing an authenticator keeps the types of the instances.
LEMMA ConstructedType ==
  ASSUME PasskeysTyped, NEW a \in Authenticators, Constructed(a)
  PROVE  init' \in [Software -> {"none", "running", "done", "failed"}]
  BY DEF PasskeysTyped, Constructed

\* createPasskeyWallet up to its first await.
LEMMA CreateKeeps ==
  ASSUME PasskeysInv, NEW w \in Wallets, NEW a \in Authenticators, NEW p \in BOOLEAN,
         NEW k \in BOOLEAN, Create(w, a, p, k)
  PROVE  PasskeysInv'
<1>1. init' \in [Software -> {"none", "running", "done", "failed"}]
  BY ConstructedType DEF PasskeysInv, Create
<1>2. /\ creation' \in [Wallets -> [step : Steps, platform : BOOLEAN, auth : Authenticators]]
      /\ \A v \in Wallets : v # w => creation'[v] = creation[v]
      /\ creation[w].step = "idle" /\ creation'[w].step \notin {"returned"}
      /\ creation'[w].step = "credential" => ~creation'[w].platform
  BY DEF PasskeysInv, PasskeysTyped, Create, Steps
<1>3. PasskeysTyped'
  BY <1>1, <1>2 DEF PasskeysInv, PasskeysTyped, Create
<1>4. OnItsPlatform' /\ HasKey'
  BY <1>2 DEF PasskeysInv, OnItsPlatform, HasKey, Create
<1>5. AsksForItsKey' /\ SignedByItsKey'
  <2>1. (\A q \in asked : q.wallet \in Wallets /\ q.wallet # w)
        /\ (\A s \in signed : s.wallet \in Wallets /\ s.wallet # w)
    BY <1>2 DEF PasskeysInv, PasskeysTyped, AsksForItsKey, SignedByItsKey
  <2>2. QED  BY <1>2, <2>1 DEF PasskeysInv, AsksForItsKey, SignedByItsKey, Create
<1>6. QED  BY <1>3, <1>4, <1>5 DEF PasskeysInv

\* A step of one creation that changes its step only, and not to "returned".
LEMMA GotoKeeps ==
  ASSUME PasskeysInv, NEW w \in Wallets, NEW step \in {"credential", "failed"}, Goto(w, step),
         creation[w].step \in {"availability", "credential"},
         step = "credential" /\ creation[w].platform => creation[w].auth = Platform,
         made' \subseteq Credentials,
         UNCHANGED <<init, credential, module, asked, questions, signed>>
  PROVE  PasskeysInv'
<1>1. /\ creation' \in [Wallets -> [step : Steps, platform : BOOLEAN, auth : Authenticators]]
      /\ \A v \in Wallets : v # w => creation'[v] = creation[v]
      /\ creation'[w].step = step /\ creation'[w].platform = creation[w].platform
      /\ creation'[w].auth = creation[w].auth
  BY DEF PasskeysInv, PasskeysTyped, Goto, Steps
<1>2. PasskeysTyped'
  BY <1>1 DEF PasskeysInv, PasskeysTyped
<1>3. OnItsPlatform' /\ HasKey'
  BY <1>1 DEF PasskeysInv, OnItsPlatform, HasKey
<1>4. AsksForItsKey' /\ SignedByItsKey'
  <2>1. (\A q \in asked : q.wallet \in Wallets /\ q.wallet # w)
        /\ (\A s \in signed : s.wallet \in Wallets /\ s.wallet # w)
    BY DEF PasskeysInv, PasskeysTyped, AsksForItsKey, SignedByItsKey
  <2>2. QED  BY <1>1, <2>1 DEF PasskeysInv, AsksForItsKey, SignedByItsKey
<1>5. QED  BY <1>2, <1>3, <1>4 DEF PasskeysInv

\* createCredential of an authenticator resolves.
LEMMA ReturnKeeps ==
  ASSUME PasskeysInv, NEW w \in Wallets, NEW c \in Credentials, Returned(w, c),
         creation[w].step = "credential",
         creation[w].platform => c.of = Platform,
         made' \subseteq Credentials,
         UNCHANGED <<init, module, asked, questions, signed>>
  PROVE  PasskeysInv'
<1>1. /\ creation' \in [Wallets -> [step : Steps, platform : BOOLEAN, auth : Authenticators]]
      /\ \A v \in Wallets : v # w => creation'[v] = creation[v] /\ credential'[v] = credential[v]
      /\ creation'[w].step = "returned" /\ creation'[w].platform = creation[w].platform
      /\ credential' \in [Wallets -> Credentials \cup {NoCredential}]
      /\ credential'[w] = c
  BY DEF PasskeysInv, PasskeysTyped, Goto, Steps, Returned
<1>2. PasskeysTyped'
  BY <1>1 DEF PasskeysInv, PasskeysTyped
<1>3. OnItsPlatform' /\ HasKey'
  BY <1>1, CredentialsExist DEF PasskeysInv, OnItsPlatform, HasKey
<1>4. AsksForItsKey' /\ SignedByItsKey'
  <2>1. (\A q \in asked : q.wallet \in Wallets /\ q.wallet # w)
        /\ (\A s \in signed : s.wallet \in Wallets /\ s.wallet # w)
    BY DEF PasskeysInv, PasskeysTyped, AsksForItsKey, SignedByItsKey
  <2>2. QED  BY <1>1, <2>1 DEF PasskeysInv, AsksForItsKey, SignedByItsKey
<1>5. QED  BY <1>2, <1>3, <1>4 DEF PasskeysInv

\* An assertion is answered or fails: the answer is by the credential asked for.
LEMMA AssertionKeeps ==
  ASSUME PasskeysInv, NEW q \in asked, Answer(q, q.id) \/ Fail(q),
         UNCHANGED <<init, available, creation, made, credential, module, questions>>
  PROVE  PasskeysInv'
<1>1. asked' = asked \ {q}
  BY DEF Answer, Fail
<1>2. \A s \in signed' : s \in signed \/ s = [wallet |-> q.wallet, op |-> q.op, key |-> q.id]
  BY DEF Answer, Fail
<1>3. q.wallet \in Wallets /\ creation[q.wallet].step = "returned" /\ q.id = credential[q.wallet]
  BY DEF PasskeysInv, PasskeysTyped, AsksForItsKey
<1>4. PasskeysTyped'
  BY <1>1, <1>2, <1>3 DEF PasskeysInv, PasskeysTyped
<1>5. SignedByItsKey'
  BY <1>2, <1>3 DEF PasskeysInv, SignedByItsKey
<1>6. QED  BY <1>1, <1>4, <1>5 DEF PasskeysInv, OnItsPlatform, HasKey, AsksForItsKey

\* A restart keeps the returned wallets and their credentials.
LEMMA RestartKeeps ==
  ASSUME PasskeysInv, NEW a \in Authenticators, Restart(a)
  PROVE  PasskeysInv'
<1>1. init' \in [Software -> {"none", "running", "done", "failed"}]
  BY ConstructedType DEF PasskeysInv, Restart
<1>2. /\ creation' \in [Wallets -> [step : Steps, platform : BOOLEAN, auth : Authenticators]]
      /\ \A v \in Wallets :
           /\ creation'[v].step = "returned" <=> creation[v].step = "returned"
           /\ creation'[v].step # "credential"
           /\ creation'[v].platform = creation[v].platform
  BY DEF PasskeysInv, PasskeysTyped, Restart, Steps
<1>3. asked' = {} /\ module' = {} /\ UNCHANGED <<made, credential, questions, signed>>
  BY DEF Restart
<1>4. PasskeysTyped'
  BY <1>1, <1>2, <1>3 DEF PasskeysInv, PasskeysTyped
<1>5. OnItsPlatform' /\ HasKey' /\ AsksForItsKey'
  BY <1>2, <1>3 DEF PasskeysInv, OnItsPlatform, HasKey, AsksForItsKey
<1>6. SignedByItsKey'
  BY <1>2, <1>3 DEF PasskeysInv, PasskeysTyped, SignedByItsKey
<1>7. QED  BY <1>4, <1>5, <1>6 DEF PasskeysInv

\* Every step keeps the invariant.
LEMMA PasskeysNext == ASSUME PasskeysInv, [Next]_vars PROVE PasskeysInv'
<1>1. ASSUME NEW w \in Wallets, NEW a \in Authenticators, NEW p \in BOOLEAN,
             NEW k \in BOOLEAN, Create(w, a, p, k)
      PROVE  PasskeysInv'
  BY <1>1, CreateKeeps
<1>2. ASSUME NEW w \in Wallets, AvailabilityKnown(w)
      PROVE  PasskeysInv'
  <2>1. PICK yes \in BOOLEAN : (yes => creation[w].auth = Platform)
                               /\ Goto(w, IF yes THEN "credential" ELSE "failed")
    BY <1>2 DEF AvailabilityKnown
  <2>2. made' \subseteq Credentials
        /\ creation[w].step \in {"availability", "credential"}
        /\ UNCHANGED <<init, credential, module, asked, questions, signed>>
    BY <1>2 DEF AvailabilityKnown, PasskeysInv, PasskeysTyped
  <2>3. ASSUME yes PROVE PasskeysInv'
    BY <2>1, <2>2, <2>3, GotoKeeps
  <2>4. ASSUME ~yes PROVE PasskeysInv'
    BY <2>1, <2>2, <2>4, GotoKeeps
  <2>5. QED  BY <2>3, <2>4
<1>3. ASSUME NEW w \in Wallets, PlatformCreates(w)
      PROVE  PasskeysInv'
  <2>1. /\ creation[w].step = "credential" /\ creation[w].auth = Platform
        /\ UNCHANGED <<init, module, asked, questions, signed>>
    BY <1>3 DEF PlatformCreates
  <2>2. made' \subseteq Credentials
    BY <1>3, CredentialsExist DEF PlatformCreates, PasskeysInv, PasskeysTyped
  <2>3. \/ Goto(w, "failed") /\ UNCHANGED credential
        \/ Returned(w, [of |-> Platform, wallet |-> w])
    BY <1>3 DEF PlatformCreates
  <2>4. ASSUME Goto(w, "failed"), UNCHANGED credential PROVE PasskeysInv'
    BY <2>1, <2>2, <2>4, GotoKeeps
  <2>5. ASSUME Returned(w, [of |-> Platform, wallet |-> w]) PROVE PasskeysInv'
    BY <2>1, <2>2, <2>5, ReturnKeeps, CredentialsExist
  <2>6. QED  BY <2>3, <2>4, <2>5
<1>4. ASSUME NEW w \in Wallets, SoftwareCreates(w)
      PROVE  PasskeysInv'
  <2>1. /\ creation[w].step = "credential" /\ creation[w].auth \in Software
        /\ UNCHANGED <<init, made, module, asked, questions, signed>>
    BY <1>4 DEF SoftwareCreates
  <2>2. made' \subseteq Credentials
    BY <2>1 DEF PasskeysInv, PasskeysTyped
  <2>3. ~creation[w].platform
    BY <2>1, WalletAssumption DEF PasskeysInv, OnItsPlatform
  <2>4. \/ Goto(w, "failed") /\ UNCHANGED credential
        \/ Returned(w, OwnCredential(creation[w].auth))
    BY <1>4 DEF SoftwareCreates
  <2>5. ASSUME Goto(w, "failed"), UNCHANGED credential PROVE PasskeysInv'
    BY <2>1, <2>2, <2>5, GotoKeeps
  <2>6. ASSUME Returned(w, OwnCredential(creation[w].auth)) PROVE PasskeysInv'
    <3>1. OwnCredential(creation[w].auth) \in Credentials
      BY <2>1, CredentialsExist DEF Authenticators
    <3>2. QED  BY <2>1, <2>2, <2>3, <2>6, <3>1, ReturnKeeps
  <2>7. QED  BY <2>4, <2>5, <2>6
<1>5. ASSUME NEW w \in Wallets, BindValidatorModule(w)
      PROVE  PasskeysInv'
  BY <1>5 DEF BindValidatorModule, PasskeysInv, PasskeysTyped, OnItsPlatform, HasKey,
              AsksForItsKey, SignedByItsKey
<1>6. ASSUME NEW a \in Software, InitSettles(a)
      PROVE  PasskeysInv'
  BY <1>6 DEF InitSettles, PasskeysInv, PasskeysTyped, OnItsPlatform, HasKey,
              AsksForItsKey, SignedByItsKey
<1>7. ASSUME NEW a \in Authenticators, Restart(a)
      PROVE  PasskeysInv'
  BY <1>7, RestartKeeps
<1>8. ASSUME NEW w \in Wallets, NEW op \in Ops, SignWithPasskey(w, op)
      PROVE  PasskeysInv'
  <2>1. \A q \in asked' : q \in asked
          \/ q = [wallet |-> w, op |-> op, auth |-> creation[w].auth,
                  id |-> credential[w], n |-> questions + 1]
    BY <1>8 DEF SignWithPasskey
  <2>2. creation[w].step = "returned" /\ creation[w].auth \in Authenticators
        /\ UNCHANGED <<init, available, creation, made, credential, module, signed>>
    BY <1>8, WalletAssumption DEF SignWithPasskey, PasskeysInv, PasskeysTyped
  <2>3. questions' \in 0..MaxSignatures
    BY <1>8, WalletAssumption DEF SignWithPasskey, PasskeysInv, PasskeysTyped
  <2>4. PasskeysTyped'
    BY <2>1, <2>2, <2>3 DEF PasskeysInv, PasskeysTyped
  <2>5. AsksForItsKey'
    BY <2>1, <2>2 DEF PasskeysInv, AsksForItsKey
  <2>6. QED  BY <2>2, <2>4, <2>5 DEF PasskeysInv, OnItsPlatform, HasKey, SignedByItsKey
<1>9. ASSUME NEW q \in asked, PlatformAsserts(q)
      PROVE  PasskeysInv'
  BY <1>9, AssertionKeeps DEF PlatformAsserts
<1>10. ASSUME NEW q \in asked, SoftwareAsserts(q)
       PROVE  PasskeysInv'
  <2>1. Answer(q, q.id) \/ Fail(q)
    BY <1>10 DEF SoftwareAsserts
  <2>2. QED  BY <1>10, <2>1, AssertionKeeps DEF SoftwareAsserts
<1>11. ASSUME UNCHANGED vars
       PROVE  PasskeysInv'
  BY <1>11 DEF vars, PasskeysInv, PasskeysTyped, OnItsPlatform, HasKey, AsksForItsKey,
     SignedByItsKey
<1>12. QED
  BY <1>1, <1>2, <1>3, <1>4, <1>5, <1>6, <1>7, <1>8, <1>9, <1>10, <1>11 DEF Next

\* The invariant holds in every reachable state.
THEOREM PasskeysInvHolds == Spec => []PasskeysInv
  BY PasskeysInit, PasskeysNext, PTL DEF Spec

LEMMA PasskeysTypeOK == PasskeysInv => TypeOK
  BY DEF PasskeysInv, PasskeysTyped, TypeOK, Steps

\* createPasskeyWallet and signWithPasskey: every state is well typed.
THEOREM PasskeyTypes == Spec => []TypeOK
  BY PasskeysTypeOK, PasskeysInvHolds, PTL

\* createPasskeyWallet and signWithPasskey: every returned wallet has a key that
\* its configuration allows, and every signature is by the wallet's own key.
THEOREM KeysCorrect == Spec => []KeysAreTheWallets
<1>1. PasskeysInv => KeysAreTheWallets
  BY DEF PasskeysInv, HasKey, SignedByItsKey, KeysAreTheWallets
<1>2. QED  BY <1>1, PasskeysInvHolds, PTL
=============================================================================
