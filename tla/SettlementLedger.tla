--------------------------- MODULE SettlementLedger ---------------------------
(***************************************************************************)
(* What a developer who settles usage through src/app.ts relies on: TNZO   *)
(* leaves the app wallet only for an authorization one of the app's keys   *)
(* was shown and signed, and once per external reference, whatever is      *)
(* lost, repeated or edited on the way.                                    *)
(***************************************************************************)
CONSTANTS
  Refs,        \* external references, such as charge ids
  Values,      \* amounts
  None

VARIABLES
  authorized,  \* the <<reference, amount>> pairs signed so far
  paid         \* the amount that left the wallet for each reference

lvars == <<authorized, paid>>

LedgerInit ==
  /\ authorized = {}
  /\ paid = [r \in Refs |-> None]

Authorize(r, v) ==
  /\ authorized' = authorized \cup {<<r, v>>}
  /\ UNCHANGED paid

Pay(r, v) ==
  /\ <<r, v>> \in authorized
  /\ paid[r] = None
  /\ paid' = [paid EXCEPT ![r] = v]
  /\ UNCHANGED authorized

LedgerNext == \E r \in Refs, v \in Values : Authorize(r, v) \/ Pay(r, v)

LedgerSpec == LedgerInit /\ [][LedgerNext]_lvars
=============================================================================
