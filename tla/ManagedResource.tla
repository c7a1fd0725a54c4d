-------------------------- MODULE ManagedResource --------------------------
(***************************************************************************)
(* What every reconciler of this operator promises about a resource it     *)
(* manages in Azure on behalf of a Kubernetes object: the Azure side may   *)
(* come and go only while the object is held by the operator's finalizer,  *)
(* and the finalizer is released only when nothing is left in Azure.       *)
(***************************************************************************)
VARIABLES
  held,   \* the object exists and carries the finalizer
  azure   \* something of it exists, or is being made, in Azure

Init == held = FALSE /\ azure = FALSE

Hold      == ~held /\ held' = TRUE /\ UNCHANGED azure
Provision == held /\ azure' = TRUE /\ UNCHANGED held
Cleanup   == azure' = FALSE /\ UNCHANGED held
Release   == held /\ ~azure /\ held' = FALSE /\ UNCHANGED azure

Next == Hold \/ Provision \/ Cleanup \/ Release

Spec == Init /\ [][Next]_<<held, azure>>
=============================================================================
