----------------------------- MODULE MCSignedWrite ----------------------------
(***************************************************************************)
(* SignedWrite with two writes by one application.  The values are one for *)
(* each answer of the client's checks: good passes them all; short fails   *)
(* the length check (a nonce of 31 bytes, a key of 31); negative has no    *)
(* canonical bytes; vast has them, but Number() rounds it to good.         *)
(***************************************************************************)
EXTENDS SignedWrite, TLC

Given == {"good", "vast", "short", "negative"}

LengthsRight == Given \ {"short"}

InRange == Given \ {"negative"}

OpsAlike == Permutations(Ops)

AsNumbers == [v \in Given |-> IF v = "vast" THEN "good" ELSE v]
=============================================================================
