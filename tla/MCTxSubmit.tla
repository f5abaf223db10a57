------------------------------ MODULE MCTxSubmit ------------------------------
(***************************************************************************)
(* Small instances of TxSubmit: two concurrent operations of one account,  *)
(* or one that is tried up to three times.                                 *)
(***************************************************************************)
EXTENDS TxSubmit, TLC

AllPins == SUBSET {"nonce", "chain"}

\* Operations are interchangeable; used only where no liveness is checked.
Symmetry == Permutations(Ops)
=============================================================================
