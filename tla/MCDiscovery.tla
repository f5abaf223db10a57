----------------------------- MODULE MCDiscovery ------------------------------
(***************************************************************************)
(* Small instances of Discovery: two calls on a page with two wanted       *)
(* wallets and one other.                                                  *)
(***************************************************************************)
EXTENDS Discovery
=============================================================================
