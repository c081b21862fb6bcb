---------------------------- MODULE RequestReply ----------------------------
(***************************************************************************)
(* What RequestSender and Client promise to whoever sends a request (the   *)
(* done and fail callbacks of details/ton_request_sender.h), without the   *)
(* library, the thread, the handlers and the attempts: at most one of the  *)
(* two callbacks runs, once, while the sender is there; one does run when  *)
(* the request was given both, unless it is withdrawn.                     *)
(***************************************************************************)
EXTENDS Naturals, Sequences

CONSTANTS
    Requests,   \* what may be sent
    WithFail    \* those that were given a fail callback

VARIABLES
    open,       \* the sender is there
    asked,      \* the requests that were sent
    withdrawn,  \* those that were cancelled
    given       \* the callbacks that have run

vars == <<open, asked, withdrawn, given>>

Init ==
    /\ open = TRUE
    /\ asked = {} /\ withdrawn = {}
    /\ given = [r \in Requests |-> <<>>]

Ask(r) ==
    /\ open /\ r \notin asked
    /\ asked' = asked \cup {r}
    /\ UNCHANGED <<open, withdrawn, given>>

Withdraw(r) ==
    /\ open /\ r \in asked
    /\ withdrawn' = withdrawn \cup {r}
    /\ UNCHANGED <<open, asked, given>>

\* A callback that is on its way when the request is withdrawn still runs.
Give(r, what) ==
    /\ open /\ r \in asked /\ given[r] = <<>>
    /\ what = "fail" => r \in WithFail
    /\ given' = [given EXCEPT ![r] = <<what>>]
    /\ UNCHANGED <<open, asked, withdrawn>>

Leave ==
    /\ open
    /\ open' = FALSE
    /\ UNCHANGED <<asked, withdrawn, given>>

Next ==
    \/ \E r \in Requests :
          Ask(r) \/ Withdraw(r) \/ \E what \in {"done", "fail"} : Give(r, what)
    \/ Leave

\* An error of a request without a fail callback is not told.
Answers ==
    \A r \in WithFail :
        r \in asked ~> given[r] # <<>> \/ r \in withdrawn \/ ~ open

Spec == Init /\ [][Next]_vars /\ Answers

=============================================================================
