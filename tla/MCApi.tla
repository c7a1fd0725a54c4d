------------------------------- MODULE MCApi -------------------------------
(***************************************************************************)
(* Bounded instances of ApiController: up to two versions.  Edits of the   *)
(* Api change the path of its versions, or add and take away one.          *)
(***************************************************************************)
EXTENDS ApiController

CONSTANTS a, b, f1, p1

Listed(n, policy) == [name |-> n, fields |-> f1, policy |-> policy]

OneVersion == {<<Listed(a, p1)>>}

OneOrTwo == {<<Listed(a, p1)>>, <<Listed(a, p1), Listed(b, p1)>>}

NoPolicy == {<<Listed(a, None)>>, <<Listed(a, None), Listed(b, None)>>}
=============================================================================
