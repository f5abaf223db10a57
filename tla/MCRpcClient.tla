------------------------------ MODULE MCRpcClient -----------------------------
(***************************************************************************)
(* Small instances of RpcClient: two concurrent calls.                     *)
(***************************************************************************)
EXTENDS RpcClient, TLC

\* Calls are interchangeable; used only where no liveness is checked.
Symmetry == Permutations(Calls)
=============================================================================
