-------------------------------- MODULE Apim --------------------------------
(***************************************************************************)
(* azure.APIMClient (src/internal/azure/apim_client.go): what a call of    *)
(* the reconcilers to Azure API Management can come back with.  The        *)
(* wrappers add the resource group and the service name to the call of the *)
(* SDK and hand its error on; the reconcilers tell apart no error, a 404,  *)
(* and anything else.                                                      *)
(***************************************************************************)
EXTENDS Cluster

Errors == {"none", "notFound", "other"}

IsNotFoundError(err) == err = "notFound"

(* Mutant: every error counts as not found.                                *)
IgnoreErrors(err) == "none"

IgnoreNotFound(err) == IF IsNotFoundError(err) THEN "none" ELSE err

(* NewAPIMClient finds no credential, or gets no factory.                  *)
NewAPIMClientFails == Fault

Answer(exists) == IF exists THEN "none" ELSE "notFound"

(* GetApiVersionSet, GetApi, GetApiPolicy, GetBackend.                     *)
Read(exists, err) ==
  \/ err = Answer(exists) /\ UNCHANGED faults
  \/ err = "other" /\ Fault

(* The PUTs and DELETEs, of something that exists or not: done and         *)
(* answered, refused by Azure, or lost on the way there or back.           *)
Call(exists, refused, done, err) ==
  \/ ~refused /\ done /\ err = Answer(exists) /\ UNCHANGED faults
  \/ refused /\ ~done /\ err = "other" /\ UNCHANGED faults
  \/ (done => ~refused) /\ err = "other" /\ Fault
=============================================================================
