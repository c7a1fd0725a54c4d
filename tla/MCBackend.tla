----------------------------- MODULE MCBackend -----------------------------
(***************************************************************************)
(* Bounded instances of BackendController.                                 *)
(***************************************************************************)
EXTENDS BackendController
=============================================================================
