---------------------------- MODULE MCApiVersion ----------------------------
(***************************************************************************)
(* Bounded instances of ApiVersionController.  Operations are              *)
(* interchangeable, which the safety run uses as symmetry.                 *)
(***************************************************************************)
EXTENDS ApiVersionController, TLC

CONSTANTS d1, p1, p2, l1, page

Given(content, policy, apiType) ==
  [content |-> content, policy |-> policy, apiType |-> apiType]

(* Specs that lack nothing.                                                *)
Complete == {spec \in Specs : spec.policy # None /\ spec.apiType}

(* An inline document, and a link under either policy.                     *)
Linked == {Given(d1, p1, TRUE), Given(l1, p1, TRUE), Given(l1, p2, TRUE)}

(* A complete spec, and two that lack an optional field.                   *)
Lacking == {Given(d1, p1, TRUE), Given(l1, None, TRUE), Given(d1, p1, FALSE)}

Symmetry == Permutations(Tokens)
=============================================================================
