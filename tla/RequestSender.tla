---------------------------- MODULE RequestSender ----------------------------
(***************************************************************************)
(* details/ton_request_sender.cpp: what a request does with an answer.     *)
(* RequestBuilder::send wraps the done and the fail callback of a request  *)
(* in one handler, which Client runs in its own thread; the handler posts  *)
(* a callback to the main thread or tells Client to send the request       *)
(* again.  Requests are all sent with a done callback, some with a fail    *)
(* callback; done_async and fail_async have no user.                       *)
(***************************************************************************)
EXTENDS Naturals, Sequences

CONSTANTS
    Requests,   \* RequestId of what RequestSender is asked to send
    WithFail    \* those that were given a fail callback

ASSUME WithFailAssumption == WithFail \subseteq Requests

VARIABLES
    mainQueue,  \* what was posted to the main thread with crl::on_main
    calls       \* history: the callbacks that have run

senderVars == <<mainQueue, calls>>

Task == [what : {"done", "fail", "resend"}, request : Requests]

SenderTypeOK ==
    /\ mainQueue \in Seq(Task)
    /\ calls \in [Requests -> Seq({"done", "fail"})]

SenderInit ==
    /\ mainQueue = <<>>
    /\ calls = [r \in Requests |-> <<>>]

\* A result, an error of the network, any other error.
LibAnswers == {"result", "network", "error"}

IsAutoResendError(answer) == answer = "network"

\* The handler returns false: the request is to be sent again.
Rejects(r, answer) == r \in WithFail /\ IsAutoResendError(answer)

\* The callback for an answer that is not rejected: an error of a request
\* without a fail callback ends it silently.
Callback(r, answer) ==
    IF answer = "result" THEN <<[what |-> "done", request |-> r]>>
    ELSE IF r \in WithFail THEN <<[what |-> "fail", request |-> r]>>
    ELSE <<>>

Post(tasks) == mainQueue' = mainQueue \o tasks

RunCallback(task) ==
    calls' = [calls EXCEPT ![task.request] = Append(@, task.what)]

=============================================================================
