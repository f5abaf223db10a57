------------------------------ MODULE Discovery -------------------------------
(***************************************************************************)
(* src/eip6963.ts, discoverEip6963Provider, the first half of              *)
(* TenzroClient.fromInjected: a page listens for wallet announcements,     *)
(* asks the installed wallets to announce themselves, and gives up after   *)
(* timeoutMs.                                                              *)
(*                                                                         *)
(* window.dispatchEvent runs every listener before it returns, so a wallet *)
(* that answers requestProvider inside its own listener announces itself   *)
(* while the promise executor is still at the dispatch, before the line    *)
(* "const timer = ...".  onAnnounce then reads timer in its temporal dead  *)
(* zone: a ReferenceError, which dispatchEvent reports to the console and  *)
(* swallows.  (The package is compiled for ES2022, which keeps const.)     *)
(***************************************************************************)


CONSTANTS
  Discoveries,   \* calls of discoverEip6963Provider on the page
  Wallets,       \* provider extensions, external code
  Wanted,        \* the wallets whose rdns is the wanted one
  SyncWallets    \* the wallets that answer requestProvider synchronously

ASSUME WalletsAssumption == Wanted \subseteq Wallets /\ SyncWallets \subseteq Wallets

VARIABLES
  promise,       \* the promise the caller holds
  settled,       \* let settled
  listening,     \* the calls whose onAnnounce is registered on window
  timer,         \* const timer: in its dead zone, armed, or over
  provider,      \* event.detail of the resolution: the wallet, or nothing yet
  executor,      \* the call whose promise executor is on the stack, if any
  owing,         \* synchronous wallets that have yet to hear the dispatch
  asked,         \* other wallets that still owe an answer to requestProvider
  loaded,        \* wallets whose script has run in the page
  heard          \* history: wanted wallets announced while the call listened

calls == <<promise, settled, listening, timer, provider>>
page == <<executor, owing, asked, loaded>>
vars == <<calls, page, heard>>

Init ==
  /\ promise = [d \in Discoveries |-> "unmade"]
  /\ settled = [d \in Discoveries |-> FALSE]
  /\ listening = {}
  /\ timer = [d \in Discoveries |-> "deadZone"]
  /\ provider = [d \in Discoveries |-> {}]
  /\ executor = {}
  /\ owing = {}
  /\ asked = {}
  /\ loaded \in SUBSET Wallets
  /\ heard = [d \in Discoveries |-> {}]
-----------------------------------------------------------------------------
(***************************************************************************)
(* onAnnounce                                                              *)
(***************************************************************************)

AcceptingAny(w) == {d \in listening : ~settled[d]}

\* The calls whose onAnnounce takes an announcement of w.
Accepting(w) == {d \in listening : w \in Wanted /\ ~settled[d]}

(***************************************************************************)
(* Each accepting listener sets settled and removes itself.  Then          *)
(* clearTimeout(timer) throws while timer is in its dead zone; otherwise   *)
(* the timer is cleared and the promise resolves.                          *)
(***************************************************************************)
Announced(w) ==
  LET D == {d \in Accepting(w) : timer[d] # "deadZone"} IN
  /\ settled' = [d \in Discoveries |-> settled[d] \/ d \in Accepting(w)]
  /\ listening' = listening \ Accepting(w)
  /\ promise' = [d \in Discoveries |-> IF d \in D THEN "resolved" ELSE promise[d]]
  /\ provider' = [d \in Discoveries |-> IF d \in D THEN {w} ELSE provider[d]]
  /\ timer' = [d \in Discoveries |-> IF d \in D THEN "over" ELSE timer[d]]
  /\ heard' = [d \in Discoveries |->
                 IF d \in listening /\ w \in Wanted THEN heard[d] \cup {w} ELSE heard[d]]
-----------------------------------------------------------------------------
(***************************************************************************)
(* The promise executor                                                    *)
(***************************************************************************)

\* onAnnounce is registered and requestProvider dispatched.
Discover(d) ==
  /\ executor = {} /\ promise[d] = "unmade"
  /\ promise' = [promise EXCEPT ![d] = "pending"]
  /\ listening' = listening \cup {d}
  /\ executor' = {d}
  /\ owing' = loaded \cap SyncWallets
  /\ asked' = asked \cup (loaded \ SyncWallets)
  /\ UNCHANGED <<settled, timer, provider, loaded, heard>>

\* dispatchEvent runs the listener of a wallet, which announces itself at once.
AnswersInDispatch(w) ==
  /\ w \in owing
  /\ owing' = owing \ {w}
  /\ Announced(w)
  /\ UNCHANGED <<executor, asked, loaded>>

ArmNoTimer(d) ==
  /\ executor = {d} /\ owing = {}
  /\ timer' = [timer EXCEPT ![d] = "over"]
  /\ executor' = {}
  /\ UNCHANGED <<promise, settled, listening, provider, owing, asked, loaded, heard>>

\* dispatchEvent has returned: const timer = window.setTimeout(...).
ArmTimer(d) ==
  /\ executor = {d} /\ owing = {}
  /\ timer' = [timer EXCEPT ![d] = "armed"]
  /\ executor' = {}
  /\ UNCHANGED <<promise, settled, listening, provider, owing, asked, loaded, heard>>

TimerFiresKeepingListener(d) ==
  /\ executor = {} /\ timer[d] = "armed"
  /\ timer' = [timer EXCEPT ![d] = "over"]
  /\ IF settled[d]
     THEN UNCHANGED <<settled, promise>>
     ELSE /\ settled' = [settled EXCEPT ![d] = TRUE]
          /\ promise' = [promise EXCEPT ![d] = "rejected"]
  /\ UNCHANGED <<provider, listening, page, heard>>

\* The timeout callback: nothing if settled, else TenzroNotInstalledError.
TimerFires(d) ==
  /\ executor = {} /\ timer[d] = "armed"
  /\ timer' = [timer EXCEPT ![d] = "over"]
  /\ IF settled[d]
     THEN UNCHANGED <<settled, listening, promise>>
     ELSE /\ settled' = [settled EXCEPT ![d] = TRUE]
          /\ listening' = listening \ {d}
          /\ promise' = [promise EXCEPT ![d] = "rejected"]
  /\ UNCHANGED <<provider, page, heard>>
-----------------------------------------------------------------------------
(***************************************************************************)
(* The wallets: not in src/.                                               *)
(***************************************************************************)

\* A wallet that defers its answer to requestProvider gives it in a later task.
AnswersLater(w) ==
  /\ executor = {} /\ w \in asked
  /\ asked' = asked \ {w}
  /\ Announced(w)
  /\ UNCHANGED <<executor, owing, loaded>>

\* A wallet loaded after the page announces itself unasked.
WalletLoads(w) ==
  /\ executor = {} /\ w \notin loaded
  /\ loaded' = loaded \cup {w}
  /\ Announced(w)
  /\ UNCHANGED <<executor, owing, asked>>
-----------------------------------------------------------------------------
Terminated ==
  /\ executor = {} /\ asked = {} /\ loaded = Wallets
  /\ \A d \in Discoveries : promise[d] # "unmade" /\ timer[d] = "over"
  /\ UNCHANGED vars

Next ==
  \/ \E d \in Discoveries : Discover(d) \/ ArmTimer(d) \/ TimerFires(d)
  \/ \E w \in Wallets : AnswersInDispatch(w) \/ AnswersLater(w) \/ WalletLoads(w)
  \/ Terminated

Spec == Init /\ [][Next]_vars

\* Code on the stack runs on, and an armed timer fires.  No wallet need answer.
FairSpec ==
  /\ Spec
  /\ \A w \in Wallets : WF_vars(AnswersInDispatch(w))
  /\ \A d \in Discoveries : WF_vars(ArmTimer(d)) /\ WF_vars(TimerFires(d))
-----------------------------------------------------------------------------
(***************************************************************************)
(* Properties                                                              *)
(***************************************************************************)
TypeOK ==
  /\ promise \in [Discoveries -> {"unmade", "pending", "resolved", "rejected"}]
  /\ settled \in [Discoveries -> BOOLEAN]
  /\ listening \subseteq Discoveries
  /\ timer \in [Discoveries -> {"deadZone", "armed", "over"}]
  /\ provider \in [Discoveries -> SUBSET Wanted]
  /\ executor \subseteq Discoveries /\ (\A d, e \in executor : d = e)
  /\ owing \subseteq SyncWallets /\ asked \subseteq Wallets /\ loaded \subseteq Wallets
  /\ heard \in [Discoveries -> SUBSET Wanted]

\* A caller is told "not installed" only if no wanted wallet announced itself
\* between the call and its timeout, and gets the first one that did.
VerdictMatchesAnnouncements ==
  \A d \in Discoveries :
    /\ promise[d] = "rejected" => heard[d] = {}
    /\ promise[d] = "resolved" => provider[d] # {} /\ provider[d] = heard[d]

\* While the caller waits, either an announcement or the timeout can still end
\* the wait, whatever order wallets, timers and other discoveries come in.
WaitCanEnd ==
  \A d \in Discoveries :
    promise[d] = "pending" => d \in executor \/ (d \in listening /\ timer[d] = "armed")

\* No listener stays on window once its call has been answered.
NoListenerLeft ==
  \A d \in listening : promise[d] = "pending" /\ ~settled[d]

\* eip6963.ts: the promise resolves when a matching provider arrives and rejects
\* if none announces itself within timeoutMs - so it settles.
EveryDiscoverySettles ==
  \A d \in Discoveries : promise[d] = "pending" ~> promise[d] \in {"resolved", "rejected"}
=============================================================================
