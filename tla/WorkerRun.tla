----------------------------- MODULE WorkerRun ------------------------------
(***************************************************************************)
(* One dispatch from its arrival to the exit code of the worker            *)
(* (run_worker of worker/stage_runner.py): admission, the stage, and the   *)
(* callbacks that tell the control plane how it went.  Admission is        *)
(* DispatchAdmission, each delivery is Callback; what the stage itself     *)
(* does is StageWorker, and here only which checkout it compiles from and  *)
(* whether it raises.                                                      *)
(*                                                                         *)
(* The packet profile requires a callback of every dispatch                *)
(* (.l9/packet-profile.yaml).  A reused packet takes the same path: its    *)
(* ReuseReceipt is the success here.                                       *)
(***************************************************************************)
EXTENDS DispatchAdmission, Callback

VARIABLES at,     \* "admission", "stage", "compiled", "success", "settle",
                  \* "failure" or "exit"
          built,  \* the revision whose configuration was compiled with
          error,  \* "none", or where the exception being handled came from
          heard,  \* the messages the control plane accepted, in order
          status  \* of the process: "running", "0", "2", or "traceback"

ownVars == <<at, built, error, heard, status>>
NoRevision == "none"
vars == <<admissionVars, callbackVars, ownVars>>

Init ==
    /\ AdmissionInit
    /\ CallbackInit
    /\ at = "admission"
    /\ built = NoRevision
    /\ error = "none"
    /\ heard = <<>>
    /\ status = "running"

-----------------------------------------------------------------------------

\* A new call of send_callback.
Send(message) ==
    /\ at' = message
    /\ leg' = "configure" /\ attempt' = 1 /\ todo' = {} /\ result' = "none"
    /\ received' = 0 /\ accepted' = FALSE
    /\ UNCHANGED contacted

Leave(code) == at' = "exit" /\ status' = code

Admit ==
    /\ at = "admission"
    /\ AdmissionNext
    /\ UNCHANGED <<callbackVars, ownVars>>

\* dispatch_validated: without it nothing is sent, whatever the dispatch says.
Decided ==
    /\ at = "admission"
    /\ \/ gate = "admitted" /\ at' = "stage" /\ UNCHANGED status
       \/ gate = "rejected" /\ Leave("2")
    /\ UNCHANGED <<admissionVars, callbackVars, built, error, heard>>

\* The checkout moves while the stage waits for its lease and its inputs;
\* nothing reads it once it was compiled from.
Disturbed ==
    /\ at = "stage"
    /\ MoveHead
    /\ UNCHANGED <<callbackVars, ownVars>>

\* compile_topology(repository_root, ...) resolves the configuration once more,
\* from whatever is checked out by then.
CompileStage ==
    /\ at = "stage"
    /\ at' = "compiled"
    /\ built' = checkout
    /\ UNCHANGED <<admissionVars, callbackVars, error, heard, status>>

\* The stage raises, or reaches its success callback: after a compilation, or
\* without one, for a packet that is registered.
StageEnds ==
    /\ at \in {"stage", "compiled"}
    /\ \/ Send("success") /\ UNCHANGED error
       \/ Send("failure") /\ error' = "stage"
    /\ UNCHANGED <<admissionVars, built, heard, status>>

Deliver ==
    /\ at \in {"success", "failure"}
    /\ CallbackNext
    /\ UNCHANGED <<admissionVars, ownVars>>

Hear(message) == heard' = IF accepted THEN Append(heard, message) ELSE heard

\* Broken variant: the failure is sent whatever raised it.
SuccessSentRetelling ==
    /\ at = "success" /\ leg = "end"
    /\ Hear("success")
    /\ \/ result = "ok" /\ at' = "settle" /\ UNCHANGED <<callbackVars, error, status>>
       \/ result # "ok" /\ error' = result /\ Send("failure") /\ UNCHANGED status
    /\ UNCHANGED <<admissionVars, built>>

\* send_callback returned, or raised: callback-failed is the one error that is
\* not reported through the same channel.
SuccessSent ==
    /\ at = "success" /\ leg = "end"
    /\ Hear("success")
    /\ \/ /\ result = "ok"
          /\ at' = "settle" /\ UNCHANGED <<callbackVars, error, status>>
       \/ /\ result = "callback-failed"
          /\ error' = result /\ Leave("2") /\ UNCHANGED callbackVars
       \/ /\ result \notin {"ok", "callback-failed"}
          /\ error' = result /\ Send("failure") /\ UNCHANGED status
    /\ UNCHANGED <<admissionVars, built>>

\* registry.acknowledge and authority.release; both may raise.
Settle ==
    /\ at = "settle"
    /\ \/ Leave("0") /\ UNCHANGED <<callbackVars, error>>
       \/ Send("failure") /\ error' = "settle" /\ UNCHANGED status
    /\ UNCHANGED <<admissionVars, built, heard>>

\* A WorkerError of the failure callback is printed, anything else escapes.
FailureSent ==
    /\ at = "failure" /\ leg = "end"
    /\ Hear("failure")
    /\ Leave(IF result = "HTTPException" THEN "traceback" ELSE "2")
    /\ UNCHANGED <<admissionVars, callbackVars, built, error>>

Proceed == Decided \/ CompileStage \/ StageEnds \/ Deliver \/ SuccessSent \/ Settle \/ FailureSent

Next == Admit \/ Disturbed \/ Proceed

Spec == Init /\ [][Next]_vars

\* The process runs: no step of it waits for anything without a timeout.
FairSpec ==
    /\ Spec
    /\ WF_vars(Proceed)
    /\ WF_vars(at = "admission" /\ AdmissionProceed /\ UNCHANGED <<callbackVars, ownVars>>)

-----------------------------------------------------------------------------
(* Properties.                                                              *)

\* Every variable has its type.
RunTypeOK ==
    /\ AdmissionTypeOK
    /\ CallbackTypeOK
    /\ at \in {"admission", "stage", "compiled", "success", "settle", "failure", "exit"}
    /\ built \in Revisions \cup {NoRevision}
    /\ error \in {"none", "stage", "settle"} \cup Results
    /\ heard \in {<<>>, <<"success">>, <<"failure">>, <<"success", "failure">>}
    /\ status \in {"running", "0", "2", "traceback"}

\* Nothing runs and nobody is contacted for a dispatch, however well it is
\* signed, unless it was admitted while it was valid; and what is compiled is
\* the signed revision with the configuration that the idempotency key was
\* computed from, although the checkout is read three times (for the
\* configuration, by git rev-parse, and for the compilation), unless somebody
\* moved it between the first reading and the last.  Nothing in the code
\* prevents or notices such a move.
OnlyTheAdmittedActs ==
    /\ CheckedOutAfterPreflight
    /\ AdmissionSound
    /\ built # NoRevision \/ contacted => gate = "admitted"
    /\ built # NoRevision /\ ~ moved =>
          built = dispatch.revision /\ ConfigOf[built] = dispatch.config

\* "A callback HTTP 2xx response is the control-plane acknowledgement
\* boundary" (docs/worker-contract.md): the process exits with 0 only if the
\* control plane accepted the success, and nothing after it.
ZeroMeansAccepted == status = "0" => heard = <<"success">>

\* The control plane may accept a success and then a failure of the same stage,
\* but not because a delivery that was retried to the end came to nothing:
\* only after an error of the bookkeeping behind the success, or an answer
\* that blocks the channel or makes no sense.
TwoVoicesExplained ==
    heard = <<"success", "failure">> => error \in Blocked \cup {"settle", "HTTPException"}

\* Every dispatch that was received ends with an exit code: retries of
\* callbacks, and failures of the report of a failure, come to an end.
RunEnds == <>(status # "running")
=============================================================================
