---------------------------- MODULE ClientProofs ----------------------------
(***************************************************************************)
(* Proofs about Client and RequestSender: the types, that a request is in  *)
(* one place, and that all of it is a step of RequestReply or none, which  *)
(* is the safety part of KeepsPromise.                                     *)
(***************************************************************************)
EXTENDS Client, FiniteSetTheorems, TLAPS

Callbacks == {"done", "fail"}

Is(task, r, kinds) == task.request = r /\ task.what \in kinds

\* The queue holds no task of r of these kinds, or not two.
None(queue, r, kinds) == \A i \in DOMAIN queue : ~ Is(queue[i], r, kinds)
NotTwice(queue, r, kinds) ==
    \A i, j \in DOMAIN queue :
        Is(queue[i], r, kinds) /\ Is(queue[j], r, kinds) => i = j

NoResend(r) == None(mainQueue, r, {"resend"})
NoCallback(r) == None(mainQueue, r, Callbacks)
Told(r) == calls[r] # <<>> \/ ~ NoCallback(r)

\* TypeOK; a handler in hand is that of a request, and close is not sent yet.
Types ==
    /\ TypeOK
    /\ life = "open" => Close \notin requests
    /\ checker.at \in Holding \cup {"scheduling"} => checker.request \in Requests
    /\ \A i \in DOMAIN mainQueue :
          mainQueue[i].what = "fail" => mainQueue[i].request \in WithFail

\* No request is in two places, cancelled or not; one that was told of, or
\* whose callback is on its way, is in none where another answer could come
\* from.
OnePlace(r) ==
    /\ routes[r] \in {0, 1}
    /\ NotTwice(mainQueue, r, {"resend"})
    /\ NotTwice(mainQueue, r, Callbacks)
    /\ routes[r] = 1 => ~ InHand(r) /\ NoResend(r) /\ r \notin timers
    /\ InHand(r) => NoResend(r) /\ r \notin timers
    /\ r \in timers => NoResend(r)
    /\ calls[r] # <<>> => NoCallback(r)
    /\ Told(r) => /\ routes[r] = 0
                  /\ NoResend(r) /\ r \notin timers
                  /\ InHand(r) => checker.at = "answered"
    /\ r \notin issued => /\ routes[r] = 0
                          /\ ~ InHand(r) /\ NoResend(r) /\ r \notin timers
                          /\ ~ Told(r)

Somewhere(r) == routes[r] = 1 \/ InHand(r) \/ ~ NoResend(r) \/ r \in timers

\* A request that was not cancelled is remembered while it is somewhere.
Remembered(r) ==
    life = "open" /\ r \notin cancelled =>
        /\ r \in requests <=> Somewhere(r)
        /\ r \in handlers <=>
              r \in requests /\ ~ (InHand(r) /\ checker.at # "scheduling")

IInv == Types /\ \A r \in Requests : OnePlace(r) /\ Remembered(r)

-----------------------------------------------------------------------------
\* The queue

LEMMA TypeOfTask ==
  ASSUME NEW task \in Task
  PROVE  /\ task.request \in Requests
         /\ task.what = "resend" <=> task.what \notin Callbacks
         /\ task.what \in {"done", "fail", "resend"}
  BY DEF Task, Callbacks

LEMMA TailOfQueue ==
  ASSUME NEW q \in Seq(Task), q # <<>>, NEW r, NEW kinds
  PROVE  /\ Head(q) \in Task /\ Tail(q) \in Seq(Task)
         /\ NotTwice(q, r, kinds) => NotTwice(Tail(q), r, kinds)
         /\ NotTwice(q, r, kinds) /\ Is(Head(q), r, kinds) => None(Tail(q), r, kinds)
         /\ Is(Head(q), r, kinds) => ~ None(q, r, kinds)
         /\ ~ Is(Head(q), r, kinds) => (None(Tail(q), r, kinds) <=> None(q, r, kinds))
  <1>1. /\ Head(q) = q[1] /\ Head(q) \in Task /\ Tail(q) \in Seq(Task)
        /\ Len(q) \in Nat \ {0} /\ Len(Tail(q)) = Len(q) - 1
        /\ DOMAIN q = 1..Len(q) /\ DOMAIN Tail(q) = 1..(Len(q) - 1)
        /\ \A i \in 1..(Len(q) - 1) : Tail(q)[i] = q[i + 1]
    OBVIOUS
  <1> DEFINE t == Tail(q)
             h == Head(q)
  <1> HIDE DEF t, h
  <1>2. NotTwice(q, r, kinds) => NotTwice(t, r, kinds)
    BY <1>1 DEF NotTwice, t
  <1>3. NotTwice(q, r, kinds) /\ Is(h, r, kinds) => None(t, r, kinds)
    BY <1>1 DEF NotTwice, None, t, h
  <1>4. Is(h, r, kinds) => ~ None(q, r, kinds)
    BY <1>1 DEF None, h
  <1>5. None(q, r, kinds) => None(t, r, kinds)
    BY <1>1 DEF None, t
  <1>6. ~ Is(h, r, kinds) /\ None(t, r, kinds) => None(q, r, kinds)
    <2> SUFFICES ASSUME ~ Is(h, r, kinds), None(t, r, kinds), NEW i \in DOMAIN q
                 PROVE  ~ Is(q[i], r, kinds)
      BY DEF None
    <2>1. CASE i = 1
      BY <2>1, <1>1 DEF h
    <2>2. CASE i # 1
      <3>1. i - 1 \in DOMAIN t /\ t[i - 1] = q[i]
        BY <2>2, <1>1 DEF t
      <3> QED
        BY <3>1 DEF None
    <2> QED
      BY <2>1, <2>2
  <1> QED
    BY <1>1, <1>2, <1>3, <1>4, <1>5, <1>6 DEF t, h

LEMMA PostToQueue ==
  ASSUME NEW q \in Seq(Task), NEW task \in Task, NEW r, NEW kinds
  PROVE  LET p == q \o <<task>> IN
           /\ p \in Seq(Task)
           /\ ~ Is(task, r, kinds) =>
                /\ None(p, r, kinds) <=> None(q, r, kinds)
                /\ NotTwice(q, r, kinds) => NotTwice(p, r, kinds)
           /\ Is(task, r, kinds) =>
                /\ ~ None(p, r, kinds)
                /\ None(q, r, kinds) => NotTwice(p, r, kinds)
  <1> DEFINE p == q \o <<task>>
  <1>1. /\ p \in Seq(Task) /\ Len(q) \in Nat
        /\ DOMAIN q = 1..Len(q) /\ DOMAIN p = 1..(Len(q) + 1)
        /\ \A i \in 1..Len(q) : p[i] = q[i]
        /\ p[Len(q) + 1] = task
    OBVIOUS
  <1> HIDE DEF p
  <1>2. ~ Is(task, r, kinds) => (None(p, r, kinds) <=> None(q, r, kinds))
    BY <1>1 DEF None
  <1>3. ~ Is(task, r, kinds) /\ NotTwice(q, r, kinds) => NotTwice(p, r, kinds)
    BY <1>1 DEF NotTwice
  <1>4. Is(task, r, kinds) => ~ None(p, r, kinds)
    BY <1>1 DEF None
  <1>5. Is(task, r, kinds) /\ None(q, r, kinds) => NotTwice(p, r, kinds)
    BY <1>1 DEF None, NotTwice
  <1> QED
    BY <1>1, <1>2, <1>3, <1>4, <1>5 DEF p

LEMMA EmptyQueue ==
  ASSUME NEW r, NEW kinds
  PROVE  None(<<>>, r, kinds) /\ NotTwice(<<>>, r, kinds)
  BY DEF None, NotTwice

\* A task is queued for its request alone and for its kind alone.
LEMMA OtherTasks ==
  ASSUME NEW r, NEW s, NEW what
  PROVE  LET task == [what |-> what, request |-> r] IN
           /\ s # r => ~ Is(task, s, {"resend"}) /\ ~ Is(task, s, Callbacks)
           /\ what = "resend" => Is(task, r, {"resend"}) /\ ~ Is(task, r, Callbacks)
           /\ what \in Callbacks => ~ Is(task, r, {"resend"}) /\ Is(task, r, Callbacks)
  BY DEF Is, Callbacks

-----------------------------------------------------------------------------
\* The main thread

LEMMA SendKeeps == ASSUME IInv, NEW r \in Requests, Send(r) PROVE IInv'
  <1> USE DEF IInv
  <1>0. /\ r \notin issued /\ issued' = issued \cup {r}
        /\ routes' = [routes EXCEPT ![r] = @ + 1]
        /\ requests' = requests \cup {r} /\ handlers' = handlers \cup {r}
        /\ UNCHANGED <<mainQueue, calls, delays, timers, checker, life, cancelled>>
    BY DEF Send, Attempt, senderVars
  <1>1. /\ routes \in [AllRequests -> Nat] /\ cancelled \subseteq issued
        /\ r \in AllRequests
    BY DEF Types, TypeOK, AllRequests
  <1>2. Types'
    BY <1>0, <1>1, CloseAssumption DEF Types, TypeOK, SenderTypeOK, AllRequests
  <1>3. routes'[r] = routes[r] + 1 /\ \A s \in Requests \ {r} : routes'[s] = routes[s]
    BY <1>0, <1>1 DEF AllRequests
  <1>4. ASSUME NEW s \in Requests PROVE OnePlace(s)' /\ Remembered(s)'
    <2>1. OnePlace(s) /\ Remembered(s)
      OBVIOUS
    <2>2. CASE s = r
      BY <1>0, <1>1, <1>3, <2>1, <2>2
      DEF OnePlace, Remembered, Somewhere, Told, NoResend, NoCallback, InHand
    <2>3. CASE s # r
      BY <1>0, <1>3, <2>1, <2>3
      DEF OnePlace, Remembered, Somewhere, Told, NoResend, NoCallback, InHand
    <2> QED
      BY <2>2, <2>3
  <1> QED
    BY <1>2, <1>4

LEMMA ResendKeeps == ASSUME IInv, NEW r \in Requests, Resend(r) PROVE IInv'
  <1> USE DEF IInv
  <1>0. /\ life = "open" /\ r \in timers /\ timers' = timers \ {r}
        /\ routes' = IF r \in requests THEN [routes EXCEPT ![r] = @ + 1] ELSE routes
        /\ UNCHANGED <<mainQueue, calls, requests, handlers, delays, checker,
                       life, issued, cancelled>>
    BY DEF Resend, Attempt, senderVars
  <1>1. routes \in [AllRequests -> Nat] /\ r \in AllRequests
    BY DEF Types, TypeOK, AllRequests
  <1>2. Types'
    BY <1>0, <1>1 DEF Types, TypeOK, SenderTypeOK, AllRequests
  <1>3. /\ routes'[r] = IF r \in requests THEN routes[r] + 1 ELSE routes[r]
        /\ \A s \in Requests \ {r} : routes'[s] = routes[s]
    BY <1>0, <1>1 DEF AllRequests
  <1>4. ASSUME NEW s \in Requests PROVE OnePlace(s)' /\ Remembered(s)'
    <2>1. OnePlace(s) /\ Remembered(s)
      OBVIOUS
    <2>2. CASE s = r
      BY <1>0, <1>1, <1>3, <2>1, <2>2
      DEF OnePlace, Remembered, Somewhere, Told, NoResend, NoCallback, InHand
    <2>3. CASE s # r
      BY <1>0, <1>3, <2>1, <2>3
      DEF OnePlace, Remembered, Somewhere, Told, NoResend, NoCallback, InHand
    <2> QED
      BY <2>2, <2>3
  <1> QED
    BY <1>2, <1>4

LEMMA CancelKeeps == ASSUME IInv, NEW r \in Requests, Cancel(r) PROVE IInv'
  <1> USE DEF IInv
  <1>0. /\ r \in issued /\ requests' = requests \ {r} /\ handlers' = handlers \ {r}
        /\ cancelled' = cancelled \cup {r}
        /\ UNCHANGED <<mainQueue, calls, routes, delays, timers, checker, life, issued>>
    BY DEF Cancel, senderVars
  <1>1. Types'
    BY <1>0 DEF Types, TypeOK, SenderTypeOK
  <1>2. ASSUME NEW s \in Requests PROVE OnePlace(s)' /\ Remembered(s)'
    <2>1. OnePlace(s) /\ Remembered(s)
      OBVIOUS
    <2> QED
      BY <1>0, <2>1
      DEF OnePlace, Remembered, Somewhere, Told, NoResend, NoCallback, InHand
  <1> QED
    BY <1>1, <1>2

LEMMA DelayIsNone == 0 \in Delays
  BY DEF Delays, kMaxRequestResendDelay

LEMMA DelayIsNat ==
  ASSUME NEW delay \in Delays
  PROVE  NextRequestResendDelay(delay) \in Delays
  BY DEF Delays, NextRequestResendDelay, kMinRequestResendDelay, kMaxRequestResendDelay

LEMMA RunTaskKeeps == ASSUME IInv, RunTask PROVE IInv'
  <1> USE DEF IInv
  <1> DEFINE task == Head(mainQueue)
             r == task.request
  <1>0. /\ life = "open" /\ mainQueue # <<>> /\ mainQueue' = Tail(mainQueue)
        /\ UNCHANGED <<routes, requests, handlers, checker, life, issued, cancelled>>
        /\ \/ /\ task.what = "resend"
              /\ delays' = [delays EXCEPT ![r] = NextRequestResendDelay(@)]
              /\ timers' = timers \cup {r}
              /\ calls' = calls
           \/ /\ task.what # "resend"
              /\ calls' = [calls EXCEPT ![r] = Append(@, task.what)]
              /\ UNCHANGED <<delays, timers>>
    BY DEF RunTask, ScheduleResend, RunCallback
  <1>1. mainQueue \in Seq(Task) /\ calls \in [Requests -> Seq(Callbacks)]
    BY DEF Types, TypeOK, SenderTypeOK, Callbacks
  <1>2. task \in Task /\ mainQueue' \in Seq(Task)
    BY <1>0, <1>1, TailOfQueue
  <1> HIDE DEF task
  <1>3. r \in Requests /\ (task.what # "resend" <=> task.what \in Callbacks)
    BY <1>2, TypeOfTask
  <1>4. /\ Is(task, r, {"resend"}) <=> task.what = "resend"
        /\ Is(task, r, Callbacks) <=> task.what # "resend"
        /\ \A s : s # r => ~ Is(task, s, {"resend"}) /\ ~ Is(task, s, Callbacks)
    BY <1>3 DEF Is
  <1>5. ASSUME NEW s, NEW kinds
        PROVE /\ NotTwice(mainQueue, s, kinds) => NotTwice(mainQueue', s, kinds)
              /\ NotTwice(mainQueue, s, kinds) /\ Is(task, s, kinds) =>
                    None(mainQueue', s, kinds)
              /\ Is(task, s, kinds) => ~ None(mainQueue, s, kinds)
              /\ ~ Is(task, s, kinds) =>
                    (None(mainQueue', s, kinds) <=> None(mainQueue, s, kinds))
    BY <1>0, <1>1, TailOfQueue DEF task
  <1>6. Types'
    <2>1. delays' \in [Requests -> Delays] /\ timers' \subseteq Requests
      BY <1>0, <1>3, DelayIsNat DEF Types, TypeOK
    <2>2. calls' \in [Requests -> Seq(Callbacks)]
      <3>1. CASE calls' = calls
        BY <3>1, <1>1
      <3>2. CASE /\ task.what # "resend"
                 /\ calls' = [calls EXCEPT ![r] = Append(calls[r], task.what)]
        <4>1. Append(calls[r], task.what) \in Seq(Callbacks)
          BY <3>2, <1>1, <1>3
        <4> QED
          BY <3>2, <4>1, <1>1
      <3> QED
        BY <1>0, <3>1, <3>2
    <2>3. \A i \in DOMAIN mainQueue' :
              mainQueue'[i].what = "fail" => mainQueue'[i].request \in WithFail
      <3>1. \A i \in DOMAIN mainQueue' :
                i + 1 \in DOMAIN mainQueue /\ mainQueue'[i] = mainQueue[i + 1]
        BY <1>0, <1>1
      <3> QED
        BY <3>1 DEF Types
    <2> QED
      BY <1>0, <1>2, <2>1, <2>2, <2>3 DEF Types, TypeOK, SenderTypeOK, Callbacks
  <1>7. ASSUME NEW s \in Requests PROVE OnePlace(s)' /\ Remembered(s)'
    <2>1. OnePlace(s) /\ Remembered(s)
      OBVIOUS
    <2>2. CASE s # r
      <3>1. calls'[s] = calls[s] /\ (s \in timers' <=> s \in timers)
        BY <1>0, <1>1, <2>2
      <3>2. /\ None(mainQueue', s, {"resend"}) <=> None(mainQueue, s, {"resend"})
            /\ None(mainQueue', s, Callbacks) <=> None(mainQueue, s, Callbacks)
            /\ NotTwice(mainQueue', s, {"resend"}) /\ NotTwice(mainQueue', s, Callbacks)
        BY <1>4, <1>5, <2>1, <2>2 DEF OnePlace
      <3> QED
        BY <1>0, <2>1, <3>1, <3>2
        DEF OnePlace, Remembered, Somewhere, Told, NoResend, NoCallback, InHand
    <2>3. CASE s = r /\ task.what = "resend"
      <3>1. calls'[s] = calls[s] /\ s \in timers'
        BY <1>0, <2>3
      <3>2. /\ None(mainQueue', s, {"resend"}) /\ ~ None(mainQueue, s, {"resend"})
            /\ None(mainQueue', s, Callbacks) <=> None(mainQueue, s, Callbacks)
            /\ NotTwice(mainQueue', s, {"resend"}) /\ NotTwice(mainQueue', s, Callbacks)
        BY <1>4, <1>5, <2>1, <2>3 DEF OnePlace
      <3> QED
        BY <1>0, <2>1, <3>1, <3>2
        DEF OnePlace, Remembered, Somewhere, Told, NoResend, NoCallback, InHand
    <2>4. CASE s = r /\ task.what # "resend"
      <3>1. timers' = timers
        BY <1>0, <2>4
      <3>2. /\ None(mainQueue', s, Callbacks) /\ ~ None(mainQueue, s, Callbacks)
            /\ None(mainQueue', s, {"resend"}) <=> None(mainQueue, s, {"resend"})
            /\ NotTwice(mainQueue', s, {"resend"}) /\ NotTwice(mainQueue', s, Callbacks)
        BY <1>4, <1>5, <2>1, <2>4 DEF OnePlace
      <3> QED
        BY <1>0, <2>1, <3>1, <3>2
        DEF OnePlace, Remembered, Somewhere, Told, NoResend, NoCallback, InHand
    <2> QED
      BY <2>2, <2>3, <2>4
  <1> QED
    BY <1>6, <1>7

LEMMA DestructorKeeps == ASSUME IInv, Destructor PROVE IInv'
  <1> USE DEF IInv
  <1>0. life' # "open"
    BY DEF Destructor, Finish, ClearHandlers, SendClose, Join
  <1>1. CASE Finish \/ ClearHandlers \/ SendClose
    <2>1. UNCHANGED <<mainQueue, calls, timers, checker, issued>>
      BY <1>1 DEF Finish, ClearHandlers, SendClose, senderVars
    <2>2. \A s \in Requests : routes'[s] = routes[s]
      BY <1>1, CloseAssumption
      DEF Finish, ClearHandlers, SendClose, Attempt, Types, TypeOK, AllRequests
    <2>3. Types'
      BY <1>1 DEF Finish, ClearHandlers, SendClose, Attempt, Types, TypeOK,
         SenderTypeOK, AllRequests, senderVars
    <2> QED
      BY <1>0, <2>1, <2>2, <2>3 DEF OnePlace, Remembered, Told, NoResend,
         NoCallback, InHand
  <1>2. CASE Join
    <2>1. /\ mainQueue' = <<>> /\ timers' = {}
          /\ UNCHANGED <<calls, routes, requests, handlers, delays, checker,
                         issued, cancelled>>
          /\ life' = "gone"
      BY <1>2 DEF Join
    <2>2. Types'
      BY <2>1 DEF Types, TypeOK, SenderTypeOK
    <2>3. ASSUME NEW s \in Requests PROVE OnePlace(s)' /\ Remembered(s)'
      <3>1. OnePlace(s)
        OBVIOUS
      <3>2. /\ None(mainQueue', s, {"resend"}) /\ NotTwice(mainQueue', s, {"resend"})
            /\ None(mainQueue', s, Callbacks) /\ NotTwice(mainQueue', s, Callbacks)
        BY <2>1, EmptyQueue
      <3> QED
        BY <1>0, <2>1, <3>1, <3>2
        DEF OnePlace, Remembered, Told, NoResend, NoCallback, InHand
    <2> QED
      BY <2>2, <2>3
  <1> QED
    BY <1>1, <1>2 DEF Destructor

-----------------------------------------------------------------------------
\* The thread

LEMMA LoopKeeps ==
  ASSUME IInv, LoopAgain \/ ReceiveNothing
  PROVE  IInv'
  <1> USE DEF IInv
  <1>0. /\ UNCHANGED <<mainQueue, calls, routes, requests, handlers, delays,
                       timers, life, issued, cancelled>>
        /\ checker.at \notin Working /\ checker'.at \notin Working
        /\ checker' \in CheckerType
    BY DEF LoopAgain, ReceiveNothing, senderVars, Working, Holding, Loop,
       Types, TypeOK, CheckerType, LibAnswers, AllRequests
  <1>1. Types'
    BY <1>0 DEF Types, TypeOK, SenderTypeOK, Working, Holding
  <1> QED
    BY <1>0, <1>1
    DEF OnePlace, Remembered, Somewhere, Told, NoResend, NoCallback, InHand

LEMMA ReceiveKeeps ==
  ASSUME IInv, NEW r \in AllRequests, NEW answer \in LibAnswers, Receive(r, answer)
  PROVE  IInv'
  <1> USE DEF IInv
  <1>0. /\ checker.at = "receiving" /\ routes[r] > 0
        /\ routes' = [routes EXCEPT ![r] = @ - 1]
        /\ handlers' = handlers \ {r}
        /\ checker' = [at |-> IF r \in handlers THEN "handling" ELSE "answered",
                       request |-> r, answer |-> answer]
        /\ UNCHANGED <<mainQueue, calls, requests, delays, timers, life, issued,
                       cancelled>>
    BY DEF Receive, senderVars
  <1>1. routes \in [AllRequests -> Nat] /\ handlers \subseteq Requests
    BY DEF Types, TypeOK
  <1>2. /\ checker'.request = r
        /\ checker'.at = IF r \in handlers THEN "handling" ELSE "answered"
        /\ checker' \in CheckerType
    BY <1>0 DEF CheckerType, Working, Holding
  <1>3. Types'
    <2>1. routes' \in [AllRequests -> Nat]
      BY <1>0, <1>1
    <2> QED
      BY <1>0, <1>1, <1>2, <2>1 DEF Types, TypeOK, SenderTypeOK, Holding
  <1>4. routes'[r] = routes[r] - 1 /\ \A s \in Requests \ {r} : routes'[s] = routes[s]
    BY <1>0, <1>1 DEF AllRequests
  <1>5. \A s \in Requests : ~ InHand(s) /\ (InHand(s)' <=> s = r)
    BY <1>0, <1>2 DEF InHand, Working, Holding
  <1>6. ASSUME NEW s \in Requests PROVE OnePlace(s)' /\ Remembered(s)'
    <2>1. OnePlace(s) /\ Remembered(s)
      OBVIOUS
    <2>2. CASE s = r
      <3>1. routes[s] = 1 /\ routes'[s] = 0
        BY <1>0, <1>4, <2>1, <2>2 DEF OnePlace
      <3>2. checker'.at # "scheduling"
        BY <1>2
      <3> QED
        BY <1>0, <1>2, <1>5, <2>1, <2>2, <3>1, <3>2
        DEF OnePlace, Remembered, Somewhere, Told, NoResend, NoCallback
    <2>3. CASE s # r
      BY <1>0, <1>4, <1>5, <2>1, <2>3
      DEF OnePlace, Remembered, Somewhere, Told, NoResend, NoCallback
    <2> QED
      BY <2>2, <2>3
  <1> QED
    BY <1>3, <1>6

\* A task is posted for the request in hand, and the thread goes on.
LEMMA PostKeeps ==
  ASSUME IInv, NEW r \in Requests, checker.request = r, InHand(r),
         NEW what \in {"done", "fail", "resend"},
         what = "fail" => r \in WithFail,
         \/ what \in Callbacks /\ checker.at = "handling"
         \/ what = "resend" /\ checker.at = "scheduling",
         mainQueue' = mainQueue \o <<[what |-> what, request |-> r]>>,
         checker' \in CheckerType,
         IF what = "resend" THEN checker' = Loop
                            ELSE checker' = [checker EXCEPT !.at = "answered"],
         UNCHANGED <<calls, routes, requests, handlers, delays, timers, life,
                     issued, cancelled>>
  PROVE  IInv'
  <1> USE DEF IInv
  <1> DEFINE task == [what |-> what, request |-> r]
  <1>1. mainQueue \in Seq(Task) /\ task \in Task
    BY DEF Types, TypeOK, SenderTypeOK, Task
  <1>2. mainQueue' = mainQueue \o <<task>>
    OBVIOUS
  <1>3. /\ \A s : s # r => ~ Is(task, s, {"resend"}) /\ ~ Is(task, s, Callbacks)
        /\ what = "resend" => Is(task, r, {"resend"}) /\ ~ Is(task, r, Callbacks)
        /\ what \in Callbacks => ~ Is(task, r, {"resend"}) /\ Is(task, r, Callbacks)
    BY OtherTasks
  <1>4. task.what = what /\ task.request = r
    OBVIOUS
  <1> HIDE DEF task
  <1>5. ASSUME NEW s, NEW kinds
        PROVE  /\ mainQueue' \in Seq(Task)
               /\ ~ Is(task, s, kinds) =>
                    /\ None(mainQueue', s, kinds) <=> None(mainQueue, s, kinds)
                    /\ NotTwice(mainQueue, s, kinds) => NotTwice(mainQueue', s, kinds)
               /\ Is(task, s, kinds) =>
                    /\ ~ None(mainQueue', s, kinds)
                    /\ None(mainQueue, s, kinds) => NotTwice(mainQueue', s, kinds)
    BY <1>1, <1>2, PostToQueue
  <1>6. /\ what = "resend" => checker'.at = "looping"
        /\ what \in Callbacks => checker'.at = "answered" /\ checker'.request = r
    BY DEF Types, TypeOK, CheckerType, Loop, Callbacks
  <1>7. Types'
    <2>1. \A i \in DOMAIN mainQueue' :
              mainQueue'[i].what = "fail" => mainQueue'[i].request \in WithFail
      <3>1. /\ Len(mainQueue) \in Nat /\ DOMAIN mainQueue = 1..Len(mainQueue)
            /\ DOMAIN mainQueue' = 1..(Len(mainQueue) + 1)
            /\ \A i \in 1..Len(mainQueue) : mainQueue'[i] = mainQueue[i]
            /\ mainQueue'[Len(mainQueue) + 1] = task
        BY <1>1, <1>2
      <3> QED
        BY <3>1, <1>4 DEF Types
    <2>2. checker'.at \notin Holding \cup {"scheduling"}
      BY <1>6 DEF Holding, Callbacks
    <2> QED
      BY <1>5, <2>1, <2>2 DEF Types, TypeOK, SenderTypeOK
  <1>8. \A s \in Requests : /\ InHand(s) <=> s = r
                            /\ what = "resend" => ~ InHand(s)'
                            /\ what \in Callbacks => (InHand(s)' <=> s = r)
    BY <1>6 DEF InHand, Working, Holding, Callbacks
  <1>9. ASSUME NEW s \in Requests PROVE OnePlace(s)' /\ Remembered(s)'
    <2>1. OnePlace(s) /\ Remembered(s)
      OBVIOUS
    <2>2. CASE s # r
      <3>1. /\ None(mainQueue', s, {"resend"}) <=> None(mainQueue, s, {"resend"})
            /\ None(mainQueue', s, Callbacks) <=> None(mainQueue, s, Callbacks)
            /\ NotTwice(mainQueue', s, {"resend"}) /\ NotTwice(mainQueue', s, Callbacks)
        BY <1>3, <1>5, <2>1, <2>2 DEF OnePlace
      <3>2. ~ InHand(s) /\ ~ InHand(s)'
        BY <1>8, <2>2 DEF Callbacks
      <3> QED
        BY <2>1, <3>1, <3>2
        DEF OnePlace, Remembered, Somewhere, Told, NoResend, NoCallback
    <2>3. CASE s = r /\ what = "resend"
      <3>1. /\ ~ None(mainQueue', s, {"resend"})
            /\ None(mainQueue', s, Callbacks) <=> None(mainQueue, s, Callbacks)
            /\ NotTwice(mainQueue', s, {"resend"}) /\ NotTwice(mainQueue', s, Callbacks)
        BY <1>3, <1>5, <1>8, <2>1, <2>3 DEF OnePlace, NoResend
      <3>2. InHand(s) /\ ~ InHand(s)' /\ checker.at = "scheduling"
        BY <1>8, <2>3 DEF Callbacks
      <3> QED
        BY <2>1, <3>1, <3>2
        DEF OnePlace, Remembered, Somewhere, Told, NoResend, NoCallback
    <2>4. CASE s = r /\ what \in Callbacks
      <3>1. checker.at = "handling" /\ InHand(s) /\ InHand(s)'
        BY <1>8, <2>4 DEF Callbacks
      <3>2. ~ Told(s)
        BY <2>1, <3>1 DEF OnePlace
      <3>3. /\ ~ None(mainQueue', s, Callbacks)
            /\ None(mainQueue', s, {"resend"}) <=> None(mainQueue, s, {"resend"})
            /\ NotTwice(mainQueue', s, {"resend"}) /\ NotTwice(mainQueue', s, Callbacks)
        BY <1>3, <1>5, <2>1, <2>4, <3>2 DEF OnePlace, Told, NoCallback
      <3>4. checker'.at = "answered" /\ checker.at = "handling"
        BY <1>6, <2>4, <3>1
      <3> QED
        BY <2>1, <3>1, <3>2, <3>3, <3>4
        DEF OnePlace, Remembered, Somewhere, Told, NoResend, NoCallback
    <2> QED
      BY <2>2, <2>3, <2>4 DEF Callbacks
  <1> QED
    BY <1>7, <1>9

LEMMA RunHandlerKeeps == ASSUME IInv, RunHandler PROVE IInv'
  <1> USE DEF IInv
  <1> DEFINE r == checker.request
             rejects == Rejects(r, checker.answer)
             at == IF rejects THEN "rejected" ELSE "answered"
             tasks == IF rejects THEN <<>> ELSE Callback(r, checker.answer)
  <1>0. /\ checker.at = "handling"
        /\ checker' = [checker EXCEPT !.at = at]
        /\ mainQueue' = mainQueue \o tasks
        /\ UNCHANGED <<calls, routes, requests, handlers, delays, timers, life,
                       issued, cancelled>>
    BY DEF RunHandler, Post
  <1>1. r \in Requests /\ InHand(r) /\ checker \in CheckerType
    BY <1>0 DEF Types, TypeOK, Holding, Working, InHand
  <1>2. checker' \in CheckerType /\ checker'.at = at /\ checker'.request = r
    BY <1>0, <1>1 DEF CheckerType, Working, Holding
  <1>3. CASE tasks = <<>>
    <2>1. mainQueue' = mainQueue
      BY <1>0, <1>3 DEF Types, TypeOK, SenderTypeOK
    <2>2. at \in Working /\ at # "scheduling"
      BY DEF Working, Holding
    <2>3. Types'
      BY <1>0, <1>1, <1>2, <2>1 DEF Types, TypeOK, SenderTypeOK
    <2>4. \A s \in Requests : InHand(s)' <=> InHand(s)
      BY <1>0, <1>1, <1>2, <2>2 DEF InHand, Working, Holding
    <2>5. checker'.at # "scheduling" /\ checker.at # "scheduling" /\ checker.at # "answered"
      BY <1>0, <1>2, <2>2
    <2> HIDE DEF r, at, tasks, rejects
    <2>6. ASSUME NEW s \in Requests PROVE OnePlace(s)' /\ Remembered(s)'
      <3>1. OnePlace(s) /\ Remembered(s)
        OBVIOUS
      <3> QED
        BY <1>0, <2>1, <2>4, <2>5, <3>1
        DEF OnePlace, Remembered, Somewhere, Told, NoResend, NoCallback
    <2> QED
      BY <2>3, <2>6
  <1>4. CASE tasks # <<>>
    <2>1. /\ ~ rejects /\ tasks = Callback(r, checker.answer)
          /\ checker' = [checker EXCEPT !.at = "answered"]
      BY <1>0, <1>4
    <2>2. \E what \in Callbacks :
             /\ tasks = <<[what |-> what, request |-> r]>>
             /\ what = "fail" => r \in WithFail
      BY <1>4, <2>1 DEF Callback, Callbacks
    <2>3. PICK what \in Callbacks :
             /\ tasks = <<[what |-> what, request |-> r]>>
             /\ what = "fail" => r \in WithFail
      BY <2>2
    <2>4. mainQueue' = mainQueue \o <<[what |-> what, request |-> r]>>
      BY <1>0, <2>3
    <2>5. what # "resend" /\ what \in {"done", "fail", "resend"}
      BY DEF Callbacks
    <2> HIDE DEF rejects, at, tasks, IInv
    <2> QED
      BY <1>0, <1>1, <1>2, <2>1, <2>3, <2>4, <2>5, PostKeeps
  <1> QED
    BY <1>3, <1>4

LEMMA PostResendKeeps == ASSUME IInv, PostResend PROVE IInv'
  <1>1. /\ checker.at = "scheduling" /\ checker' = Loop
        /\ mainQueue' = mainQueue \o <<[what |-> "resend", request |-> checker.request]>>
        /\ UNCHANGED <<calls, routes, requests, handlers, delays, timers, life,
                       issued, cancelled>>
    BY DEF PostResend, Post
  <1>2. checker.request \in Requests /\ InHand(checker.request)
    BY <1>1 DEF IInv, Types, InHand, Working
  <1>3. checker' \in CheckerType
    BY <1>1 DEF Loop, CheckerType, AllRequests, LibAnswers
  <1> QED
    BY <1>1, <1>2, <1>3, PostKeeps

LEMMA ForgetKeeps == ASSUME IInv, Forget PROVE IInv'
  <1> USE DEF IInv
  <1>0. /\ checker.at = "answered" /\ checker' = Loop
        /\ requests' = requests \ {checker.request}
        /\ UNCHANGED <<mainQueue, calls, routes, handlers, delays, timers, life,
                       issued, cancelled>>
    BY DEF Forget, senderVars
  <1>1. checker' \in CheckerType /\ checker'.at = "looping"
    BY <1>0 DEF Loop, CheckerType, AllRequests, LibAnswers
  <1>2. Types'
    BY <1>0, <1>1 DEF Types, TypeOK, SenderTypeOK, Holding
  <1>3. \A s \in Requests : (InHand(s) <=> s = checker.request) /\ ~ InHand(s)'
    BY <1>0, <1>1 DEF InHand, Working, Holding
  <1>4. ASSUME NEW s \in Requests PROVE OnePlace(s)' /\ Remembered(s)'
    <2>1. OnePlace(s) /\ Remembered(s)
      OBVIOUS
    <2> QED
      BY <1>0, <1>1, <1>3, <2>1
      DEF OnePlace, Remembered, Somewhere, Told, NoResend, NoCallback
  <1> QED
    BY <1>2, <1>4

LEMMA PutBackKeeps == ASSUME IInv, PutBack PROVE IInv'
  <1> USE DEF IInv
  <1>0. /\ checker.at = "rejected"
        /\ checker' = [checker EXCEPT !.at = "scheduling"]
        /\ handlers' = handlers \cup {checker.request}
        /\ UNCHANGED <<mainQueue, calls, routes, requests, delays, timers, life,
                       issued, cancelled>>
    BY DEF PutBack, senderVars
  <1>1. checker.request \in Requests /\ checker \in CheckerType
    BY <1>0 DEF Types, TypeOK, Holding
  <1>2. /\ checker' \in CheckerType /\ checker'.at = "scheduling"
        /\ checker'.request = checker.request
    BY <1>0, <1>1 DEF CheckerType, Working, Holding
  <1>3. Types'
    BY <1>0, <1>1, <1>2 DEF Types, TypeOK, SenderTypeOK
  <1>4. \A s \in Requests : (InHand(s) <=> s = checker.request)
                            /\ (InHand(s)' <=> s = checker.request)
    BY <1>0, <1>2 DEF InHand, Working, Holding
  <1>5. ASSUME NEW s \in Requests PROVE OnePlace(s)' /\ Remembered(s)'
    <2>1. OnePlace(s) /\ Remembered(s)
      OBVIOUS
    <2> QED
      BY <1>0, <1>2, <1>4, <2>1
      DEF OnePlace, Remembered, Somewhere, Told, NoResend, NoCallback
  <1> QED
    BY <1>3, <1>5

-----------------------------------------------------------------------------

LEMMA InitOK == Init => IInv
  <1> SUFFICES ASSUME Init PROVE IInv
    OBVIOUS
  <1>1. checker \in CheckerType /\ checker.at = "looping"
    BY DEF Init, Loop, CheckerType, AllRequests, LibAnswers
  <1>2. Types
    BY <1>1, DelayIsNone DEF Init, SenderInit, Types, TypeOK, SenderTypeOK, Holding
  <1>3. ASSUME NEW r \in Requests PROVE OnePlace(r) /\ Remembered(r)
    <2>1. \A kinds : None(mainQueue, r, kinds) /\ NotTwice(mainQueue, r, kinds)
      BY EmptyQueue DEF Init, SenderInit
    <2>2. ~ InHand(r)
      BY <1>1 DEF InHand, Working, Holding
    <2> QED
      BY <2>1, <2>2
      DEF Init, SenderInit, OnePlace, Remembered, Somewhere, Told, NoResend,
          NoCallback, AllRequests
  <1> QED
    BY <1>2, <1>3 DEF IInv

LEMMA NextKeeps == IInv /\ [Next]_vars => IInv'
  <1> SUFFICES ASSUME IInv, [Next]_vars PROVE IInv'
    OBVIOUS
  <1>1. CASE UNCHANGED vars
    BY <1>1 DEF vars, senderVars, clientVars, IInv, Types, TypeOK, SenderTypeOK,
       OnePlace, Remembered, Somewhere, Told, NoResend, NoCallback, InHand
  <1>2. ASSUME NEW r \in Requests, Send(r) \/ Resend(r) \/ Cancel(r) PROVE IInv'
    BY <1>2, SendKeeps, ResendKeeps, CancelKeeps
  <1>3. CASE RunTask \/ Destructor
    BY <1>3, RunTaskKeeps, DestructorKeeps
  <1>4. ASSUME NEW r \in AllRequests, NEW answer \in LibAnswers, Receive(r, answer)
        PROVE  IInv'
    BY <1>4, ReceiveKeeps
  <1>5. CASE Work
    BY <1>5, LoopKeeps, RunHandlerKeeps, ForgetKeeps, PutBackKeeps, PostResendKeeps
    DEF Work
  <1> QED
    BY <1>1, <1>2, <1>3, <1>4, <1>5 DEF Next

LEMMA IInvHolds == Spec => []IInv
  BY InitOK, NextKeeps, PTL DEF Spec

\* The types of the maps, the queue and the thread.
THEOREM ClientTypeCorrect == Spec => []TypeOK
  <1>1. IInv => TypeOK
    BY DEF IInv, Types
  <1> QED
    BY <1>1, IInvHolds, PTL

-----------------------------------------------------------------------------
\* What InOnePlace counts is none or one.

LEMMA QueuedIsNone ==
  ASSUME NEW r
  PROVE  NoResend(r) <=> Queued(r, {"resend"}) = {}
  BY DEF NoResend, None, Is, Queued

LEMMA QueuedAtMostOnce ==
  ASSUME NEW r, NotTwice(mainQueue, r, {"resend"})
  PROVE  Cardinality(Queued(r, {"resend"})) <= 1
  <1>1. CASE Queued(r, {"resend"}) = {}
    BY <1>1, FS_EmptySet
  <1>2. CASE Queued(r, {"resend"}) # {}
    <2>1. PICK i : i \in Queued(r, {"resend"})
      BY <1>2
    <2>2. Queued(r, {"resend"}) = {i}
      BY <2>1 DEF Queued, NotTwice, Is
    <2>3. Cardinality({i}) = 1
      BY FS_Singleton
    <2> QED
      BY <2>2, <2>3
  <1> QED
    BY <1>1, <1>2

LEMMA IInvInOnePlace == IInv => InOnePlace
  <1> SUFFICES ASSUME IInv, life = "open", NEW r \in requests \ cancelled
               PROVE  /\ routes[r] <= 1
                      /\ Cardinality(Queued(r, {"resend"})) <= 1
                      /\ Cardinality({p \in {"library", "thread", "queue", "timer"} :
                              \/ p = "library" /\ OutAtLibrary(r)
                              \/ p = "thread" /\ InHand(r)
                              \/ p = "queue" /\ ToBeScheduled(r)
                              \/ p = "timer" /\ r \in timers}) = 1
                      /\ r \in handlers <=> ~ (InHand(r) /\ checker.at # "scheduling")
    BY DEF InOnePlace
  <1> DEFINE places == {p \in {"library", "thread", "queue", "timer"} :
                              \/ p = "library" /\ OutAtLibrary(r)
                              \/ p = "thread" /\ InHand(r)
                              \/ p = "queue" /\ ToBeScheduled(r)
                              \/ p = "timer" /\ r \in timers}
  <1>1. r \in Requests
    BY DEF IInv, Types, TypeOK, AllRequests
  <1>2. OnePlace(r) /\ Remembered(r)
    BY <1>1 DEF IInv
  <1>3. routes[r] \in {0, 1} /\ (OutAtLibrary(r) <=> routes[r] = 1)
    BY <1>2 DEF OnePlace, OutAtLibrary
  <1>4. ToBeScheduled(r) <=> ~ NoResend(r)
    BY QueuedIsNone DEF ToBeScheduled
  <1>5. Cardinality(Queued(r, {"resend"})) <= 1
    BY <1>2, QueuedAtMostOnce DEF OnePlace
  <1>6. Somewhere(r)
    BY <1>2 DEF Remembered
  <1>7. \E p : places = {p}
    <2>1. CASE routes[r] = 1
      <3>1. places = {"library"}
        BY <1>2, <1>3, <1>4, <2>1 DEF OnePlace
      <3> QED BY <3>1
    <2>2. CASE InHand(r)
      <3>1. places = {"thread"}
        BY <1>2, <1>3, <1>4, <2>2 DEF OnePlace
      <3> QED BY <3>1
    <2>3. CASE ~ NoResend(r)
      <3>1. places = {"queue"}
        BY <1>2, <1>3, <1>4, <2>3 DEF OnePlace
      <3> QED BY <3>1
    <2>4. CASE r \in timers
      <3>1. places = {"timer"}
        BY <1>2, <1>3, <1>4, <2>4 DEF OnePlace
      <3> QED BY <3>1
    <2> QED
      BY <1>6, <2>1, <2>2, <2>3, <2>4 DEF Somewhere
  <1>8. Cardinality(places) = 1
    <2> HIDE DEF places
    <2> QED BY <1>7, FS_Singleton
  <1>9. r \in handlers <=> ~ (InHand(r) /\ checker.at # "scheduling")
    BY <1>2 DEF Remembered
  <1> QED
    BY <1>3, <1>5, <1>8, <1>9

\* A request that Client has not forgotten is in one place: at the library, with
\* the thread, on its way to the timer or in it, whatever is cancelled,
\* answered, sent again or destroyed meanwhile.
THEOREM AlwaysInOnePlace == Spec => []InOnePlace
  BY IInvHolds, IInvInOnePlace, PTL

-----------------------------------------------------------------------------
\* The refinement

LEMMA PromiseInit == Init => Promise!Init
  BY DEF Init, SenderInit, Promise!Init

\* A task of the queue that is no resend is a callback nobody has run.
LEMMA CallbackIsFirst ==
  ASSUME IInv, mainQueue # <<>>, Head(mainQueue).what # "resend"
  PROVE  LET task == Head(mainQueue) IN
           /\ task.request \in Requests /\ task.what \in Callbacks
           /\ task.what = "fail" => task.request \in WithFail
           /\ task.request \in issued
           /\ calls[task.request] = <<>>
  <1> DEFINE task == Head(mainQueue)
             r == task.request
  <1>1. mainQueue \in Seq(Task)
    BY DEF IInv, Types, TypeOK, SenderTypeOK
  <1>2. task \in Task /\ 1 \in DOMAIN mainQueue /\ mainQueue[1] = task
    BY <1>1
  <1>3. task.what = "fail" => r \in WithFail
    BY <1>2 DEF IInv, Types
  <1> HIDE DEF task
  <1>4. r \in Requests /\ task.what \in Callbacks
    BY <1>2, TypeOfTask DEF task
  <1>5. ~ NoCallback(r)
    BY <1>2, <1>4 DEF NoCallback, None, Is
  <1>6. r \in issued /\ calls[r] = <<>>
    BY <1>4, <1>5 DEF IInv, OnePlace, Told
  <1> QED
    BY <1>3, <1>4, <1>6 DEF task

LEMMA PromiseStep ==
  ASSUME IInv, [Next]_vars
  PROVE  [Promise!Next]_(Promise!vars)
  <1> USE DEF Promise!vars
  <1>1. CASE UNCHANGED <<life, issued, cancelled, calls>>
    BY <1>1
  <1>2. ASSUME NEW r \in Requests, Send(r) PROVE Promise!Ask(r)
    BY <1>2 DEF Send, senderVars, Promise!Ask
  <1>3. ASSUME NEW r \in Requests, Cancel(r) PROVE Promise!Withdraw(r)
    BY <1>3 DEF Cancel, senderVars, Promise!Withdraw
  <1>4. ASSUME NEW r \in Requests, Resend(r)
        PROVE UNCHANGED <<life, issued, cancelled, calls>>
    BY <1>4 DEF Resend, senderVars
  <1>5. ASSUME RunTask
        PROVE  \/ UNCHANGED <<life, issued, cancelled, calls>>
               \/ \E r \in Requests, what \in {"done", "fail"} : Promise!Give(r, what)
    <2>1. CASE Head(mainQueue).what = "resend"
      BY <1>5, <2>1 DEF RunTask
    <2>2. CASE Head(mainQueue).what # "resend"
      <3> DEFINE task == Head(mainQueue)
                 r == task.request
      <3>1. /\ r \in Requests /\ task.what \in {"done", "fail"}
            /\ task.what = "fail" => r \in WithFail
            /\ r \in issued /\ calls[r] = <<>>
        BY <1>5, <2>2, CallbackIsFirst DEF RunTask, Callbacks
      <3>2. /\ life = "open"
            /\ calls' = [calls EXCEPT ![r] = Append(@, task.what)]
            /\ UNCHANGED <<life, issued, cancelled>>
        BY <1>5, <2>2 DEF RunTask, RunCallback
      <3> HIDE DEF task
      <3>3. Append(<<>>, task.what) = <<task.what>>
        OBVIOUS
      <3>4. calls' = [calls EXCEPT ![r] = <<task.what>>]
        BY <3>1, <3>2, <3>3
      <3>5. Promise!Give(r, task.what)
        BY <3>1, <3>2, <3>4 DEF Promise!Give
      <3> QED
        BY <3>1, <3>5
    <2> QED
      BY <2>1, <2>2
  <1>6. ASSUME Finish PROVE Promise!Leave
    BY <1>6 DEF Finish, senderVars, Promise!Leave
  <1>7. ASSUME ClearHandlers \/ SendClose \/ Join
        PROVE  /\ (life = "open") = (life' = "open")
               /\ UNCHANGED <<issued, cancelled, calls>>
    BY <1>7 DEF ClearHandlers, SendClose, Join, senderVars
  <1>8. ASSUME NEW r \in AllRequests, NEW answer \in LibAnswers, Receive(r, answer)
        PROVE  UNCHANGED <<life, issued, cancelled, calls>>
    BY <1>8 DEF Receive, senderVars
  <1>9. ASSUME Work PROVE UNCHANGED <<life, issued, cancelled, calls>>
    BY <1>9 DEF Work, LoopAgain, ReceiveNothing, RunHandler, Forget, PutBack,
       PostResend, senderVars
  <1>10. CASE UNCHANGED vars
    BY <1>10 DEF vars, senderVars, clientVars
  <1>11. CASE \E r \in Requests : Send(r) \/ Resend(r) \/ Cancel(r)
    BY <1>1, <1>2, <1>3, <1>4, <1>11 DEF Promise!Next
  <1>12. CASE RunTask
    BY <1>1, <1>5, <1>12 DEF Promise!Next
  <1>13. CASE Destructor
    BY <1>6, <1>7, <1>13 DEF Destructor, Promise!Next
  <1> QED
    BY <1>1, <1>8, <1>9, <1>10, <1>11, <1>12, <1>13 DEF Next

\* The safety part of KeepsPromise: at most one callback of a request runs, done
\* or fail, once, and only fail when there is one, through attempts, retries,
\* cancels and the destructor.
THEOREM RequestsGoAsPromised == Spec => Promise!Init /\ [][Promise!Next]_(Promise!vars)
  <1>1. IInv /\ [Next]_vars => [Promise!Next]_(Promise!vars)
    BY PromiseStep
  <1> QED
    BY <1>1, PromiseInit, IInvHolds, PTL DEF Spec

=============================================================================
