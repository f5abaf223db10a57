------------------------------ MODULE Provisioning -----------------------------
(***************************************************************************)
(* src/wallet-provisioning.ts: a wallet application drives the session     *)
(* start -> finalize -> confirm, with cancel as an abort, over four        *)
(* requests that may each be lost, answered late or given up by a timeout. *)
(* The node's side is external: one record per session.                    *)
(***************************************************************************)
EXTENDS Naturals

CONSTANTS
  Sessions,        \* session ids the node can allocate
  NoSession,
  MaxRequests      \* bound: requests of one provisioning

SessionsAssumption == NoSession \notin Sessions
RequestsAssumption == MaxRequests \in Nat

Methods == {"start", "finalize", "confirm", "cancel"}

VARIABLES
  mine,        \* session_id held by the application
  stage,       \* what the last settled call achieved for it
  share,       \* sessions whose wrapped device share the application holds
  unsure,      \* history: sessions with a confirm that was given up or lost
  request,     \* number of requests sent
  waiting,     \* the request that the application awaits, 0 for none
  wire,        \* requests and answers under way
  session      \* node: state of each session

app == <<mine, stage, share, unsure, request, waiting>>
vars == <<app, wire, session>>

Stages == {"new", "started", "finalized", "confirmed", "cancelled", "unknown"}
SessionStates == {"free", "open", "finalized", "live", "dropped"}

Message ==
  [id : 1..MaxRequests, method : Methods, session : Sessions \cup {NoSession},
   status : {"sent", "ok", "error"}]

Init ==
  /\ mine = NoSession /\ stage = "new" /\ share = {} /\ unsure = {}
  /\ request = 0 /\ waiting = 0 /\ wire = {}
  /\ session = [s \in Sessions |-> "free"]
-----------------------------------------------------------------------------
(***************************************************************************)
(* The application and the client                                          *)
(***************************************************************************)
Post(method) ==
  /\ waiting = 0 /\ request < MaxRequests
  /\ request' = request + 1 /\ waiting' = request + 1
  /\ wire' = wire \cup {[id |-> request + 1, method |-> method, session |-> mine,
                         status |-> "sent"]}
  /\ UNCHANGED <<mine, stage, share, unsure, session>>

\* start(kind): a new session, also after one that failed.
Start == stage \in {"new", "cancelled", "unknown"} /\ Post("start")

\* finalize(sessionId, enrolment): the passkey was created with its challenge.
Finalize == stage \in {"started", "unknown"} /\ mine # NoSession /\ Post("finalize")

ConfirmEagerly == mine # NoSession /\ Post("confirm")

\* confirm(sessionId): only after finalize returned the device share.
Confirm == stage \in {"finalized", "unknown"} /\ mine \in share /\ Post("confirm")

\* cancel(sessionId), at any point before the confirmation.
Cancel == stage # "confirmed" /\ mine # NoSession /\ Post("cancel")

Achieved(method) ==
  CHOOSE s \in Stages :
    <<method, s>> \in {<<"start", "started">>, <<"finalize", "finalized">>,
                       <<"confirm", "confirmed">>, <<"cancel", "cancelled">>}

\* post resolves, postNoContent resolves on a 2xx status; either rejects on another.
Answered(m) ==
  /\ m.status # "sent"
  /\ wire' = wire \ {m}
  /\ waiting' = IF waiting = m.id THEN 0 ELSE waiting
  /\ IF waiting = m.id /\ m.status = "ok"
     THEN /\ mine' = m.session
          /\ stage' = Achieved(m.method)
          /\ share' = IF m.method = "finalize" THEN share \cup {m.session} ELSE share
     ELSE UNCHANGED <<mine, stage, share>>
  /\ UNCHANGED <<unsure, request, session>>

\* The abort timer or a broken connection: the node may still act.
TimesOut ==
  /\ waiting # 0
  /\ waiting' = 0
  /\ stage' = IF mine = NoSession THEN stage ELSE "unknown"
  /\ unsure' = IF \E m \in wire : m.id = waiting /\ m.method = "confirm"
               THEN unsure \cup {mine} ELSE unsure
  /\ UNCHANGED <<mine, share, request, wire, session>>
-----------------------------------------------------------------------------
(***************************************************************************)
(* The network and the node                                                *)
(***************************************************************************)
Reply(m, s, status) ==
  /\ wire' = (wire \ {m}) \cup {[m EXCEPT !.session = s, !.status = status]}
  /\ UNCHANGED app

Lost(m) ==
  /\ wire' = wire \ {m}
  /\ unsure' = IF m.method = "confirm" THEN unsure \cup {m.session} ELSE unsure
  /\ UNCHANGED <<mine, stage, share, request, waiting, session>>

\* Each method moves a session from the state it needs; cancel succeeds whatever
\* the session is, and leaves a live identity alone.
NodeHandles(m) ==
  /\ m.status = "sent"
  /\ \/ \E s \in Sessions :
          /\ m.method = "start" /\ session[s] = "free"
          /\ session' = [session EXCEPT ![s] = "open"]
          /\ Reply(m, s, "ok")
     \/ /\ m.method = "finalize" /\ session[m.session] = "open"
        /\ session' = [session EXCEPT ![m.session] = "finalized"]
        /\ Reply(m, m.session, "ok")
     \/ /\ m.method = "confirm" /\ session[m.session] = "finalized"
        /\ session' = [session EXCEPT ![m.session] = "live"]
        /\ Reply(m, m.session, "ok")
     \/ /\ m.method = "cancel"
        /\ session' = [session EXCEPT ![m.session] = IF @ = "live" THEN @ ELSE "dropped"]
        /\ Reply(m, m.session, "ok")
     \/ /\ \/ m.method = "start" /\ \A s \in Sessions : session[s] # "free"
           \/ m.method = "finalize" /\ session[m.session] # "open"
           \/ m.method = "confirm" /\ session[m.session] # "finalized"
        /\ Reply(m, m.session, "error")
        /\ UNCHANGED session

\* Ten minutes after start.
Expires(s) ==
  /\ session[s] \in {"open", "finalized"}
  /\ session' = [session EXCEPT ![s] = "dropped"]
  /\ UNCHANGED <<app, wire>>
-----------------------------------------------------------------------------
Next ==
  \/ Start \/ Finalize \/ Confirm \/ Cancel \/ TimesOut
  \/ \E m \in wire : Answered(m) \/ Lost(m) \/ NodeHandles(m)
  \/ \E s \in Sessions : Expires(s)

Spec == Init /\ [][Next]_vars
-----------------------------------------------------------------------------
TypeOK ==
  /\ mine \in Sessions \cup {NoSession} /\ stage \in Stages
  /\ share \subseteq Sessions /\ unsure \subseteq Sessions
  /\ request \in 0..MaxRequests /\ waiting \in 0..request
  /\ wire \subseteq Message
  /\ session \in [Sessions -> SessionStates]

\* What the application was told holds: an identity is live only when the
\* application has the device share it needs to sign; a confirmation that
\* resolved is never taken back, by no late cancel either; and after a cancel
\* that resolved, the identity is live only if a confirm went unanswered.
ToldIsTrue ==
  /\ \A s \in Sessions : session[s] = "live" => s \in share
  /\ stage = "confirmed" => session[mine] = "live"
  /\ stage = "cancelled" /\ session[mine] = "live" => mine \in unsure
=============================================================================
