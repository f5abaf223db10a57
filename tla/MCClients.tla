------------------------------- MODULE MCClients ------------------------------
(***************************************************************************)
(* Four clients that keep state between their calls, and the catalogue of  *)
(* those that keep none, one of them at a time: they share no state, so a  *)
(* run in which several are in use is an interleaving of runs of one.      *)
(* PasskeyWallet and FrostSigning are extended, the others are instances.  *)
(***************************************************************************)
EXTENDS PasskeyWallet, FrostSigning, Sequences, Functions, TLC

CONSTANTS
  Sessions, NoSession, MaxRequests,                      \* of Provisioning
  Dids, NoDid, Controller, Recipients,                   \* of AuthSessions
  MaxTokens, MaxProofs, MaxApprovals, MaxTransfers, MaxCalls,
  MaxMethodCalls,                                        \* of NodeObjects
  human, agent, helper

VARIABLES
  using,                                                     \* the client in use
  mine, stage, share, unsure, request, waiting, wire, session,
  proof, proofs, transfer, transfers, calls, identity, tokens, dead, seen, approvals,
  client, objects, known, requests, expected, doubtful, confirmed, toNode, toCaller

P == INSTANCE Provisioning
A == INSTANCE AuthSessions
N == INSTANCE NodeObjects WITH MaxRequests <- MaxMethodCalls

ASSUME ProvisioningAssumption == P!SessionsAssumption /\ P!RequestsAssumption
ASSUME SessionAssumption == A!DidsAssumption /\ A!CountsAssumption
ASSUME MethodsAssumption == N!ObjectsAssumption

\* An agent of an agent of a human.
Descent == {human, agent, helper}
AgentsOfHuman == human :> NoDid @@ agent :> human @@ helper :> agent

provisioning == <<mine, stage, share, unsure, request, waiting, wire, session>>
auth == <<proof, proofs, transfer, transfers, calls, identity, tokens, dead, seen, approvals>>
others == <<client, objects, known, requests, expected, doubtful, confirmed, toNode, toCaller>>
all == <<using, vars, provisioning, frostVars, auth, others>>

\* What a client may start with is chosen for the one in use.
ClientsInit ==
  /\ using \in {"passkeys", "provisioning", "custody", "auth", "others"}
  /\ Init /\ P!Init /\ FrostInit /\ A!Init /\ N!Init
  /\ using # "passkeys" => available
  /\ using # "custody" => unsealed
  /\ using # "others" => client = "task"

ClientsNext ==
  \/ using = "passkeys" /\ Next /\ UNCHANGED <<using, provisioning, frostVars, auth, others>>
  \/ using = "provisioning" /\ P!Next /\ UNCHANGED <<using, vars, frostVars, auth, others>>
  \/ using = "custody" /\ FrostNext /\ UNCHANGED <<using, vars, provisioning, auth, others>>
  \/ using = "auth" /\ A!Next /\ UNCHANGED <<using, vars, provisioning, frostVars, others>>
  \/ using = "others" /\ N!Next /\ UNCHANGED <<using, vars, provisioning, frostVars, auth>>

ClientsSpec == ClientsInit /\ [][ClientsNext]_all

\* Types of all five.
ClientsTypeOK == TypeOK /\ P!TypeOK /\ FrostTypeOK /\ A!TypeOK /\ N!TypeOK

\* Provisioning: what start, finalize, confirm and cancel returned is so.
ToldIsTrue == P!ToldIsTrue

\* AuthSessions: a request of a transfer carries a proof that was not taken before.
FreshProofPerRequest == A!FreshProofPerRequest

\* NodeObjects: what the caller does not know of is due to requests that failed.
SurplusUnconfirmed == N!SurplusUnconfirmed
=============================================================================
