---------------------------- MODULE Discovery_proofs ---------------------------
(***************************************************************************)
(* The safety properties of Discovery for any number of calls and wallets. *)
(*                                                                         *)
(* The verdict and the listeners are right whatever wallets do.  That the  *)
(* wait of a caller can still end needs the assumption that no wanted      *)
(* wallet answers requestProvider synchronously: the run discovery_sync    *)
(* shows what happens when one does.                                       *)
(***************************************************************************)
EXTENDS Discovery, TLAPS

\* What links the state of one call: it listens from its dispatch until it is
\* settled, and hears nothing it does not take.
CallOf(d) ==
  /\ d \in listening => promise[d] = "pending" /\ ~settled[d]
  /\ promise[d] = "pending" /\ ~settled[d] => d \in listening
  /\ d \in listening => heard[d] = {}
  /\ promise[d] = "unmade" => ~settled[d] /\ heard[d] = {} /\ timer[d] = "deadZone"
  /\ d \in executor => promise[d] = "pending" /\ timer[d] = "deadZone"
  /\ promise[d] = "rejected" => heard[d] = {}
  /\ promise[d] = "resolved" => provider[d] # {} /\ provider[d] = heard[d]
  /\ promise[d] \in {"resolved", "rejected"} => settled[d] /\ timer[d] = "over"

IInv == TypeOK /\ \A d \in Discoveries : CallOf(d)

\* The same, with the wait: the timer of a waiting call is armed unless its
\* executor is still on the stack.
WaitOf(d) ==
  /\ promise[d] = "pending" => ~settled[d]
  /\ promise[d] = "pending" => d \in executor \/ timer[d] = "armed"

WInv == IInv /\ \A d \in Discoveries : WaitOf(d)
-----------------------------------------------------------------------------
\* An announcement reaches every call that listens, or none of them.
LEMMA AcceptingAll ==
  ASSUME IInv, NEW w
  PROVE  Accepting(w) = IF w \in Wanted THEN listening ELSE {}
  BY DEF IInv, TypeOK, CallOf, Accepting

LEMMA AnnouncedKeeps ==
  ASSUME IInv, NEW w \in Wallets, Announced(w), executor' = executor,
         owing' \subseteq owing, asked' \subseteq asked, loaded' \subseteq Wallets
  PROVE  IInv'
<1> DEFINE D == {d \in Accepting(w) : timer[d] # "deadZone"}
<1>1. /\ settled' = [d \in Discoveries |-> settled[d] \/ d \in Accepting(w)]
      /\ listening' = listening \ Accepting(w)
      /\ promise' = [d \in Discoveries |-> IF d \in D THEN "resolved" ELSE promise[d]]
      /\ provider' = [d \in Discoveries |-> IF d \in D THEN {w} ELSE provider[d]]
      /\ timer' = [d \in Discoveries |-> IF d \in D THEN "over" ELSE timer[d]]
      /\ heard' = [d \in Discoveries |->
                     IF d \in listening /\ w \in Wanted THEN heard[d] \cup {w} ELSE heard[d]]
  BY DEF Announced
<1>2. TypeOK /\ \A d \in Discoveries : CallOf(d)
  BY DEF IInv
<1>3. Accepting(w) = IF w \in Wanted THEN listening ELSE {}
  BY AcceptingAll
<1>4. \A d \in Discoveries : settled'[d] \in BOOLEAN
  BY <1>1, <1>2 DEF TypeOK
<1>5. TypeOK'
  <2>1. settled' \in [Discoveries -> BOOLEAN]
    BY <1>1, <1>4
  <2>2. \A d \in D : w \in Wanted
    BY <1>3
  <2>3. provider' \in [Discoveries -> SUBSET Wanted]
    BY <1>1, <1>2, <2>2 DEF TypeOK
  <2>4. heard' \in [Discoveries -> SUBSET Wanted]
    BY <1>1, <1>2 DEF TypeOK
  <2>5. /\ promise' \in [Discoveries -> {"unmade", "pending", "resolved", "rejected"}]
        /\ timer' \in [Discoveries -> {"deadZone", "armed", "over"}]
    BY <1>1, <1>2 DEF TypeOK
  <2> QED BY <1>1, <1>2, <2>1, <2>3, <2>4, <2>5 DEF TypeOK
<1>6. ASSUME NEW d \in Discoveries PROVE CallOf(d)'
  <2>1. CallOf(d)
    BY <1>2
  <2>2. CASE w \in Wanted /\ d \in listening /\ timer[d] # "deadZone"
    <3>1. /\ settled'[d] /\ d \notin listening' /\ promise'[d] = "resolved"
          /\ provider'[d] = {w} /\ heard'[d] = {w} /\ timer'[d] = "over"
          /\ d \notin executor'
      BY <1>1, <1>3, <2>1, <2>2 DEF CallOf
    <3> QED BY <3>1 DEF CallOf
  <2>3. CASE w \in Wanted /\ d \in listening /\ timer[d] = "deadZone"
    <3>1. /\ settled'[d] /\ d \notin listening' /\ promise'[d] = "pending"
          /\ timer'[d] = "deadZone"
      BY <1>1, <1>3, <2>1, <2>3 DEF CallOf
    <3> QED BY <3>1 DEF CallOf
  <2>4. CASE ~(w \in Wanted /\ d \in listening)
    <3>1. /\ d \in listening' <=> d \in listening
          /\ promise'[d] = promise[d] /\ provider'[d] = provider[d]
          /\ timer'[d] = timer[d] /\ heard'[d] = heard[d]
      BY <1>1, <1>3, <2>4
    <3>2. settled'[d] <=> settled[d]
      BY <1>1, <1>3, <2>4
    <3> QED BY <2>1, <3>1, <3>2 DEF CallOf
  <2> QED BY <2>2, <2>3, <2>4
<1> QED BY <1>5, <1>6 DEF IInv

LEMMA InitEstablishes == Init => IInv
<1> SUFFICES ASSUME Init PROVE IInv
  OBVIOUS
<1>1. TypeOK
  BY DEF Init, TypeOK
<1>2. ASSUME NEW d \in Discoveries PROVE CallOf(d)
  BY DEF Init, CallOf
<1> QED BY <1>1, <1>2 DEF IInv

\* The executor registers its listener and dispatches the request.
LEMMA DiscoverKeeps ==
  ASSUME IInv, NEW d \in Discoveries, Discover(d)
  PROVE  IInv'
<1>1. TypeOK /\ \A e \in Discoveries : CallOf(e)
  BY DEF IInv
<1>2. TypeOK'
  BY <1>1, WalletsAssumption DEF Discover, TypeOK
<1>3. ASSUME NEW e \in Discoveries PROVE CallOf(e)'
  <2>1. CASE e = d
    BY <1>1, <2>1 DEF Discover, TypeOK, CallOf
  <2>2. CASE e # d
    BY <1>1, <2>2 DEF Discover, TypeOK, CallOf
  <2> QED BY <2>1, <2>2
<1> QED BY <1>2, <1>3 DEF IInv

\* The timer is armed, or fires and finds its call settled or still waiting.
LEMMA TimerKeeps ==
  ASSUME IInv, NEW d \in Discoveries,
         TimerFires(d) \/ ArmTimer(d)
  PROVE  IInv'
<1>1. TypeOK /\ \A e \in Discoveries : CallOf(e)
  BY DEF IInv
<1>2. CASE ArmTimer(d)
  <2>1. TypeOK'
    BY <1>1, <1>2 DEF ArmTimer, TypeOK
  <2>2. ASSUME NEW e \in Discoveries PROVE CallOf(e)'
    BY <1>1, <1>2 DEF ArmTimer, TypeOK, CallOf
  <2> QED BY <2>1, <2>2 DEF IInv
<1>3. CASE TimerFires(d) /\ settled[d]
  <2>1. TypeOK'
    BY <1>1, <1>3 DEF TimerFires, TypeOK, page
  <2>2. ASSUME NEW e \in Discoveries PROVE CallOf(e)'
    BY <1>1, <1>3 DEF TimerFires, TypeOK, CallOf, page
  <2> QED BY <2>1, <2>2 DEF IInv
<1>4. CASE TimerFires(d) /\ ~settled[d]
  <2>1. TypeOK'
    BY <1>1, <1>4 DEF TimerFires, TypeOK, page
  <2>2. promise[d] = "pending"
    BY <1>1, <1>4 DEF TimerFires, TypeOK, CallOf, page
  <2>3. ASSUME NEW e \in Discoveries PROVE CallOf(e)'
    <3>1. CASE e = d
      BY <1>1, <1>4, <2>2, <3>1 DEF TimerFires, TypeOK, CallOf, page
    <3>2. CASE e # d
      BY <1>1, <1>4, <3>2 DEF TimerFires, TypeOK, CallOf, page
    <3> QED BY <3>1, <3>2
  <2> QED BY <2>1, <2>3 DEF IInv
<1> QED BY <1>2, <1>3, <1>4

LEMMA NextKeeps == IInv /\ [Next]_vars => IInv'
<1> SUFFICES ASSUME IInv, [Next]_vars PROVE IInv'
  OBVIOUS
<1>1. TypeOK
  BY DEF IInv
<1>2. ASSUME NEW d \in Discoveries, Discover(d) \/ ArmTimer(d) \/ TimerFires(d) PROVE IInv'
  BY <1>2, DiscoverKeeps, TimerKeeps
<1>3. ASSUME NEW w \in Wallets, AnswersInDispatch(w) PROVE IInv'
  BY <1>1, <1>3, AnnouncedKeeps DEF AnswersInDispatch, TypeOK
<1>4. ASSUME NEW w \in Wallets, AnswersLater(w) PROVE IInv'
  BY <1>1, <1>4, AnnouncedKeeps DEF AnswersLater, TypeOK
<1>5. ASSUME NEW w \in Wallets, WalletLoads(w) PROVE IInv'
  <2>1. /\ Announced(w) /\ executor' = executor /\ owing' \subseteq owing
        /\ asked' \subseteq asked /\ loaded' \subseteq Wallets
    BY <1>1, <1>5 DEF WalletLoads, TypeOK
  <2> QED BY <2>1, AnnouncedKeeps
<1>6. CASE UNCHANGED vars
  BY <1>6 DEF IInv, TypeOK, CallOf, vars, calls, page
<1>7. CASE Terminated
  BY <1>6, <1>7 DEF Terminated
<1> QED
  BY <1>2, <1>3, <1>4, <1>5, <1>6, <1>7 DEF Next

\* An announcement outside a dispatch resolves a waiting call or passes it by.
LEMMA AnnouncedKeepsWait ==
  ASSUME WInv, NEW w \in Wallets, Announced(w), executor' = executor,
         executor = {} \/ w \notin Wanted,
         NEW d \in Discoveries
  PROVE  WaitOf(d)'
<1>1. TypeOK /\ CallOf(d) /\ WaitOf(d) /\ IInv
  BY DEF WInv, IInv
<1>2. Accepting(w) = IF w \in Wanted THEN listening ELSE {}
  BY <1>1, AcceptingAll
<1>3. CASE w \in Wanted /\ d \in listening
  <2>1. timer[d] = "armed"
    BY <1>1, <1>3 DEF CallOf, WaitOf
  <2>2. promise'[d] = "resolved"
    BY <1>2, <1>3, <2>1 DEF Announced
  <2> QED BY <2>2 DEF WaitOf
<1>4. CASE ~(w \in Wanted /\ d \in listening)
  <2>1. promise'[d] = promise[d] /\ timer'[d] = timer[d] /\ (settled'[d] <=> settled[d])
    BY <1>2, <1>4 DEF Announced
  <2> QED BY <1>1, <2>1 DEF WaitOf
<1> QED BY <1>3, <1>4

LEMMA WaitKeeps ==
  ASSUME SyncWallets \cap Wanted = {}, WInv, [Next]_vars
  PROVE  WInv'
<1>1. TypeOK /\ IInv /\ \A d \in Discoveries : CallOf(d) /\ WaitOf(d)
  BY DEF WInv, IInv
<1>2. IInv'
  BY <1>1, NextKeeps
<1>3. ASSUME NEW e \in Discoveries, NEW d \in Discoveries, Discover(d) PROVE WaitOf(e)'
  BY <1>1, <1>3 DEF Discover, TypeOK, CallOf, WaitOf
<1>4. ASSUME NEW e \in Discoveries, NEW d \in Discoveries, ArmTimer(d) PROVE WaitOf(e)'
  BY <1>1, <1>4 DEF ArmTimer, TypeOK, WaitOf
<1>5. ASSUME NEW e \in Discoveries, NEW d \in Discoveries, TimerFires(d) PROVE WaitOf(e)'
  <2>1. CASE e = d
    BY <1>1, <1>5, <2>1 DEF TimerFires, TypeOK, CallOf, WaitOf, page
  <2>2. CASE e # d
    BY <1>1, <1>5, <2>2 DEF TimerFires, TypeOK, WaitOf, page
  <2> QED BY <2>1, <2>2
<1>6. ASSUME NEW e \in Discoveries, NEW w \in Wallets,
             AnswersInDispatch(w) \/ AnswersLater(w) \/ WalletLoads(w)
      PROVE  WaitOf(e)'
  <2>1. Announced(w) /\ executor' = executor /\ (executor = {} \/ w \notin Wanted)
    BY <1>1, <1>6 DEF AnswersInDispatch, AnswersLater, WalletLoads, TypeOK
  <2> QED BY <2>1, AnnouncedKeepsWait
<1>7. ASSUME NEW e \in Discoveries, UNCHANGED vars PROVE WaitOf(e)'
  BY <1>1, <1>7 DEF WaitOf, vars, calls, page
<1>8. ASSUME NEW e \in Discoveries PROVE WaitOf(e)'
  BY <1>3, <1>4, <1>5, <1>6, <1>7, <1>8 DEF Next, Terminated
<1> QED BY <1>2, <1>8 DEF WInv
-----------------------------------------------------------------------------
\* Every reachable state satisfies the strengthened invariant.
THEOREM InductiveInvariant == Spec => []IInv
  BY InitEstablishes, NextKeeps, PTL DEF Spec

\* The types, for any number of calls and wallets.
THEOREM TypeCorrect == Spec => []TypeOK
<1>1. IInv => TypeOK
  BY DEF IInv
<1> QED BY <1>1, InductiveInvariant, PTL

\* However announcements, timeouts and other calls interleave, a call is told
\* "not installed" only when nothing it wanted was announced while it listened,
\* and otherwise gets the first wanted wallet that was.
THEOREM VerdictCorrect == Spec => []VerdictMatchesAnnouncements
<1>1. IInv => VerdictMatchesAnnouncements
  BY DEF IInv, CallOf, VerdictMatchesAnnouncements
<1> QED BY <1>1, InductiveInvariant, PTL

\* A listener on window belongs to a call that is still waiting.
THEOREM ListenersRemoved == Spec => []NoListenerLeft
<1>1. IInv => NoListenerLeft
  BY DEF IInv, TypeOK, CallOf, NoListenerLeft
<1> QED BY <1>1, InductiveInvariant, PTL

\* With wallets that answer in a task of their own, a waiting caller has its
\* listener on window and its timer armed, or its executor is still running.
THEOREM WaitCanAlwaysEnd ==
  ASSUME SyncWallets \cap Wanted = {}
  PROVE  Spec => []WaitCanEnd
<1>1. Init => WInv
  <2> SUFFICES ASSUME Init PROVE WInv
    OBVIOUS
  <2>1. \A d \in Discoveries : WaitOf(d)
    BY DEF Init, WaitOf
  <2> QED BY <2>1, InitEstablishes DEF WInv
<1>2. WInv /\ [Next]_vars => WInv'
  BY WaitKeeps
<1>3. WInv => WaitCanEnd
  BY DEF WInv, IInv, CallOf, WaitOf, WaitCanEnd
<1> QED BY <1>1, <1>2, <1>3, PTL DEF Spec
=============================================================================
