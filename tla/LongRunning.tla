---------------------------- MODULE LongRunning ----------------------------
(***************************************************************************)
(* azure.StartResumeOperation (src/internal/azure/azure-lro.go): what one  *)
(* look at a long-running Azure operation tells the reconciler.  An answer *)
(* is what the poller of the Azure SDK says:                               *)
(*   pollErr    the poll itself failed (transport, 4xx, 5xx)               *)
(*   code       the HTTP status of the poll's response                     *)
(*   done       the poller has reached a terminal state                    *)
(*   resultErr  the terminal state is a failure                            *)
(*   tokenErr   the poller's state cannot be written as a token            *)
(***************************************************************************)
EXTENDS Naturals

Codes == {200, 201, 202}

Answers ==
  [pollErr : BOOLEAN, code : Codes, done : BOOLEAN, resultErr : BOOLEAN,
   tokenErr : BOOLEAN]

OperationStatus == {"InProgress", "Succeeded", "Failed"}

(* Mutant: a 200 is taken for the end of the operation.                    *)
StartResumeByCode(answer) ==
  IF answer.pollErr \/ answer.code \notin {200, 201}
  THEN [status |-> "Failed", err |-> TRUE]
  ELSE [status |-> "Succeeded", err |-> answer.resultErr]

StartResumeOperation(answer) ==
  IF answer.pollErr \/ answer.code \notin {200, 201}
  THEN [status |-> "Failed", err |-> TRUE]
  ELSE IF answer.done
  THEN [status |-> "Succeeded", err |-> answer.resultErr]
  ELSE [status |-> "InProgress", err |-> answer.tokenErr]

-----------------------------------------------------------------------------
(* The poller of the SDK: a poll that fails says nothing else; a running   *)
(* operation answers one of the given codes, a finished one 200.           *)

PollFails == [pollErr |-> TRUE, code |-> 200, done |-> FALSE,
              resultErr |-> FALSE, tokenErr |-> FALSE]

StillRunning(code) == [PollFails EXCEPT !.pollErr = FALSE, !.code = code]

Finished(failed) ==
  [PollFails EXCEPT !.pollErr = FALSE, !.done = TRUE, !.resultErr = failed]
=============================================================================
