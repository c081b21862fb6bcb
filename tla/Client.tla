------------------------------- MODULE Client -------------------------------
(***************************************************************************)
(* details/ton_client.cpp: requests and answers over tonlib::Client.  The  *)
(* main thread sends, sends again and destroys; a thread of Client's own   *)
(* (check) takes answers, runs handlers and puts back those that want      *)
(* their request sent again.  A mutex guards the maps, never across a      *)
(* handler.                                                                *)
(*                                                                         *)
(* A RequestId is sent to the library under a fresh id at every attempt,   *)
(* entered in _requestIdByLibRequestId just before and taken out when the  *)
(* answer to it comes, so that routes, how many attempts of each request   *)
(* are out, stands for the map and for what the library has to answer.     *)
(* Updates of the library change nothing here.                             *)
(***************************************************************************)
EXTENDS RequestSender, FiniteSets

CONSTANT Close      \* the close request of the destructor

ASSUME CloseAssumption == Close \notin Requests

VARIABLES
    routes,      \* _requestIdByLibRequestId
    requests,    \* _requests
    handlers,    \* _handlers
    delays,      \* _requestResendDelays, 0 where it has no entry
    timers,      \* the calls _resendTimer has to make
    checker,     \* the thread: where in check() and with what in hand
    life,        \* how far the destructor is
    issued,      \* history: the requests that were sent
    cancelled    \* history: the requests that were cancelled

clientVars ==
    <<routes, requests, handlers, delays, timers, checker, life, issued,
      cancelled>>
vars == <<senderVars, clientVars>>

AllRequests == Requests \cup {Close}

\* Positions in check(), and in which of them it holds a taken handler.
Holding == {"handling", "rejected"}
Working == Holding \cup {"answered", "scheduling"}
CheckerType ==
    [at : Working \cup {"looping", "receiving", "exited"},
     request : AllRequests, answer : LibAnswers]

kMinRequestResendDelay == 100
kMaxRequestResendDelay == 10 * 1000
Delays == 0..kMaxRequestResendDelay

TypeOK ==
    /\ SenderTypeOK
    /\ routes \in [AllRequests -> Nat]
    /\ requests \subseteq AllRequests
    /\ handlers \subseteq Requests
    /\ delays \in [Requests -> Delays]
    /\ timers \subseteq Requests
    /\ checker \in CheckerType
    /\ life \in {"open", "finishing", "cleared", "joining", "gone"}
    /\ issued \subseteq Requests
    /\ cancelled \subseteq issued

Loop == [at |-> "looping", request |-> Close, answer |-> "result"]

Init ==
    /\ SenderInit
    /\ routes = [r \in AllRequests |-> 0]
    /\ requests = {}
    /\ handlers = {}
    /\ delays = [r \in Requests |-> 0]
    /\ timers = {}
    /\ checker = Loop
    /\ life = "open"
    /\ issued = {}
    /\ cancelled = {}

NextRequestResendDelay(delay) ==
    IF delay = 0 THEN kMinRequestResendDelay
    ELSE IF 2 * delay < 1000 THEN 1000
    ELSE IF 2 * delay > kMaxRequestResendDelay THEN kMaxRequestResendDelay
    ELSE 2 * delay

-----------------------------------------------------------------------------
\* The main thread.

\* An attempt goes to the library.  No answer to it can come before, so that
\* the unlocked end of send and resend is one step with the locked part.
Attempt(r) == routes' = [routes EXCEPT ![r] = @ + 1]

Send(r) ==
    /\ life = "open" /\ r \notin issued
    /\ issued' = issued \cup {r}
    /\ Attempt(r)
    /\ requests' = requests \cup {r}
    /\ handlers' = handlers \cup {r}
    /\ UNCHANGED <<senderVars, delays, timers, checker, life, cancelled>>

\* Mutant of Resend: the timer calls again.
ResendRepeats(r) ==
    /\ life = "open" /\ r \in timers
    /\ IF r \in requests THEN Attempt(r) ELSE UNCHANGED routes
    /\ UNCHANGED <<senderVars, requests, handlers, delays, timers, checker,
                   life, issued, cancelled>>

\* The timer's call: resend.
Resend(r) ==
    /\ life = "open" /\ r \in timers
    /\ timers' = timers \ {r}
    /\ IF r \in requests THEN Attempt(r) ELSE UNCHANGED routes
    /\ UNCHANGED <<senderVars, requests, handlers, delays, checker, life,
                   issued, cancelled>>

Cancel(r) ==
    /\ life = "open" /\ r \in issued
    /\ requests' = requests \ {r}
    /\ handlers' = handlers \ {r}
    /\ cancelled' = cancelled \cup {r}
    /\ UNCHANGED <<senderVars, routes, delays, timers, checker, life, issued>>

\* scheduleResendOnError's part of the main thread.
ScheduleResend(r) ==
    /\ delays' = [delays EXCEPT ![r] = NextRequestResendDelay(@)]
    /\ timers' = timers \cup {r}

RunTask ==
    /\ life = "open" /\ mainQueue # <<>>
    /\ mainQueue' = Tail(mainQueue)
    /\ LET task == Head(mainQueue) IN
         \/ /\ task.what = "resend"
            /\ ScheduleResend(task.request)
            /\ UNCHANGED calls
         \/ /\ task.what # "resend"
            /\ RunCallback(task)
            /\ UNCHANGED <<delays, timers>>
    /\ UNCHANGED <<routes, requests, handlers, checker, life, issued, cancelled>>

\* ~Client, in the main thread: nothing else runs there any more.
Finish ==
    /\ life = "open"
    /\ life' = "finishing"
    /\ UNCHANGED <<senderVars, routes, requests, handlers, delays, timers,
                   checker, issued, cancelled>>

ClearHandlers ==
    /\ life = "finishing"
    /\ life' = "cleared"
    /\ handlers' = {}
    /\ UNCHANGED <<senderVars, routes, requests, delays, timers, checker,
                   issued, cancelled>>

SendClose ==
    /\ life = "cleared"
    /\ life' = "joining"
    /\ Attempt(Close)
    /\ requests' = requests \cup {Close}
    /\ UNCHANGED <<senderVars, handlers, delays, timers, checker, issued,
                   cancelled>>

\* The thread has ended; the timer goes, and what was posted under a guard of
\* Client or RequestSender will not run.
Join ==
    /\ life = "joining" /\ checker.at = "exited"
    /\ life' = "gone"
    /\ timers' = {}
    /\ mainQueue' = <<>>
    /\ UNCHANGED <<calls, routes, requests, handlers, delays, checker, issued,
                   cancelled>>

-----------------------------------------------------------------------------
\* The thread, check().

\* Mutant of LoopAgain: _finished is not looked at.
LoopForEver ==
    /\ checker.at = "looping"
    /\ checker' = [checker EXCEPT !.at = "receiving"]
    /\ UNCHANGED <<senderVars, routes, requests, handlers, delays, timers,
                   life, issued, cancelled>>

LoopAgain ==
    /\ checker.at = "looping"
    /\ checker' = [checker EXCEPT !.at = IF life = "open" THEN "receiving"
                                                          ELSE "exited"]
    /\ UNCHANGED <<senderVars, routes, requests, handlers, delays, timers,
                   life, issued, cancelled>>

\* Nothing for a minute.
ReceiveNothing ==
    /\ checker.at = "receiving"
    /\ checker' = Loop
    /\ UNCHANGED <<senderVars, routes, requests, handlers, delays, timers,
                   life, issued, cancelled>>

Receive(r, answer) ==
    /\ checker.at = "receiving" /\ routes[r] > 0
    /\ routes' = [routes EXCEPT ![r] = @ - 1]
    /\ handlers' = handlers \ {r}
    /\ checker' = [at |-> IF r \in handlers THEN "handling" ELSE "answered",
                   request |-> r, answer |-> answer]
    /\ UNCHANGED <<senderVars, requests, delays, timers, life, issued,
                   cancelled>>

\* Mutant of RunHandler: the fail callback hears of the errors that are retried.
RunHandlerTellsAll ==
    /\ checker.at = "handling"
    /\ LET r == checker.request
           rejects == Rejects(r, checker.answer)
       IN /\ checker' = [checker EXCEPT !.at = IF rejects THEN "rejected"
                                                          ELSE "answered"]
          /\ Post(Callback(r, checker.answer))
    /\ UNCHANGED <<calls, routes, requests, handlers, delays, timers, life,
                   issued, cancelled>>

RunHandler ==
    /\ checker.at = "handling"
    /\ LET r == checker.request
           rejects == Rejects(r, checker.answer)
       IN /\ checker' = [checker EXCEPT !.at = IF rejects THEN "rejected"
                                                          ELSE "answered"]
          /\ Post(IF rejects THEN <<>> ELSE Callback(r, checker.answer))
    /\ UNCHANGED <<calls, routes, requests, handlers, delays, timers, life,
                   issued, cancelled>>

Forget ==
    /\ checker.at = "answered"
    /\ requests' = requests \ {checker.request}
    /\ checker' = Loop
    /\ UNCHANGED <<senderVars, routes, handlers, delays, timers, life, issued,
                   cancelled>>

PutBack ==
    /\ checker.at = "rejected"
    /\ handlers' = handlers \cup {checker.request}
    /\ checker' = [checker EXCEPT !.at = "scheduling"]
    /\ UNCHANGED <<senderVars, routes, requests, delays, timers, life, issued,
                   cancelled>>

\* scheduleResendOnError's part of the thread.
PostResend ==
    /\ checker.at = "scheduling"
    /\ Post(<<[what |-> "resend", request |-> checker.request]>>)
    /\ checker' = Loop
    /\ UNCHANGED <<calls, routes, requests, handlers, delays, timers, life,
                   issued, cancelled>>

-----------------------------------------------------------------------------

Destructor == Finish \/ ClearHandlers \/ SendClose \/ Join

Work ==
    LoopAgain \/ ReceiveNothing \/ RunHandler \/ Forget \/ PutBack \/ PostResend

Next ==
    \/ \E r \in Requests : Send(r) \/ Resend(r) \/ Cancel(r)
    \/ RunTask
    \/ Destructor
    \/ \E r \in AllRequests, answer \in LibAnswers : Receive(r, answer)
    \/ Work

Spec == Init /\ [][Next]_vars

\* Both threads run; the destructor, once begun, goes on.  A request that is
\* sent again and again is sooner or later answered by something else than an
\* error of the network.
FairSpec ==
    /\ Spec
    /\ WF_vars(RunTask)
    /\ \A r \in Requests : WF_vars(Resend(r))
    /\ WF_vars(ClearHandlers \/ SendClose \/ Join)
    /\ WF_vars(Work)
    /\ \A r \in Requests :
          SF_vars(Receive(r, "result") \/ Receive(r, "error"))

-----------------------------------------------------------------------------
(* Safety *)

InHand(r) == checker.at \in Working /\ checker.request = r

Queued(r, what) ==
    {i \in DOMAIN mainQueue :
        mainQueue[i].request = r /\ mainQueue[i].what \in what}

\* Where a request that has not been answered can be.
OutAtLibrary(r) == routes[r] > 0
ToBeScheduled(r) == Queued(r, {"resend"}) # {}

\* While Client lives, a request it has not forgotten is in exactly one place:
\* at the library, in the hands of the thread, on its way to the resend timer
\* or in it.  None is lost between the two threads, and none is ever out
\* twice, which would have it answered twice.  Its handler waits in the map
\* unless the thread has it in hand, so that the next answer finds it.
InOnePlace ==
    life = "open" =>
        \A r \in requests \ cancelled :
            /\ routes[r] <= 1
            /\ Cardinality(Queued(r, {"resend"})) <= 1
            /\ Cardinality({p \in {"library", "thread", "queue", "timer"} :
                    \/ p = "library" /\ OutAtLibrary(r)
                    \/ p = "thread" /\ InHand(r)
                    \/ p = "queue" /\ ToBeScheduled(r)
                    \/ p = "timer" /\ r \in timers}) = 1
            /\ r \in handlers <=> ~ (InHand(r) /\ checker.at # "scheduling")

(* Refinement and liveness *)

Promise ==
    INSTANCE RequestReply WITH
        open <- life = "open", asked <- issued, withdrawn <- cancelled,
        given <- calls

\* Client and RequestSender implement RequestReply: through attempts, retries,
\* cancels and the destructor the callbacks of a request run at most once, done
\* or fail and never both, and a request with a fail callback gets one of them.
KeepsPromise == Promise!Spec

\* ~Client returns, whatever the thread is doing when it begins: join waits
\* for a thread that sees _finished.
DestructorReturns == life # "open" ~> life = "gone"

=============================================================================
