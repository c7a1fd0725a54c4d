----------------------------- MODULE VersionLife -----------------------------
(***************************************************************************)
(* The life of an ApiVersion as its Api sees it: users write its spec and  *)
(* ask for its deletion, its reconciler adds the finalizer, reports how    *)
(* far the import is, and lets go of it in the end.  ApiController is      *)
(* built on it; ApiVersionController implements it.                        *)
(***************************************************************************)
EXTENDS Naturals

CONSTANTS
  None,   \* the absent version
  States  \* what can be reported

VARIABLES
  version, \* the stored object: [spec, status, fin, del], or None
  userOps  \* how much users have done so far

life == <<version, userOps>>

(* What the reconciler brings about, whatever users do ...                 *)
Progressed(v) ==
  IF ~v.fin THEN {[v EXCEPT !.fin = TRUE]}
  ELSE IF v.del THEN {None}
  ELSE {}

(* ... and what it may tell meanwhile: never that there is nothing to tell *)
(* after all.                                                              *)
Reported(v) ==
  IF v.fin /\ ~v.del
  THEN {[v EXCEPT !.status = state] : state \in States \ {v.status, ""}}
  ELSE {}

(* What becomes of a version that a user, or the garbage collector,        *)
(* deletes.                                                                *)
Deleted(v) == IF v.fin THEN [v EXCEPT !.del = TRUE] ELSE None

CanProgress == version # None /\ Progressed(version) # {}

-----------------------------------------------------------------------------
Init == version = None /\ userOps = 0

Progress ==
  /\ version # None
  /\ version' \in Progressed(version)
  /\ UNCHANGED userOps

Report ==
  /\ version # None
  /\ version' \in Reported(version)
  /\ UNCHANGED userOps

Create ==
  /\ version = None /\ version' # None
  /\ version' = [spec |-> version'.spec, status |-> "", fin |-> FALSE,
                 del |-> FALSE]

Edit ==
  /\ version # None /\ version' # None
  /\ version' = [version EXCEPT !.spec = version'.spec]

Delete ==
  /\ version # None /\ ~version.del
  /\ version' = Deleted(version)

(* What a user may do to a version, and its Api on a user's behalf.        *)
ByUsers == Create \/ Edit \/ Delete

Users ==
  /\ userOps' > userOps
  /\ ByUsers \/ UNCHANGED version

Next == Progress \/ Report \/ Users

Spec == Init /\ [][Next]_life

(* Weak fairness of Progress, and an end of the reports.                   *)
Fairness ==
  /\ <>[]CanProgress => []<><<Progress>>_life
  /\ <>[][~Report]_life
=============================================================================
